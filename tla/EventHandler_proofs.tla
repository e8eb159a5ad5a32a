------------------------ MODULE EventHandler_proofs ------------------------
(***************************************************************************)
(* Safety of the event loop for every set of events, every capacity of the *)
(* channel and every choice of weights.                                    *)
(***************************************************************************)
EXTENDS EventHandler, FiniteSetTheorems, TLAPS

FinishedUnseen == {e \in unseen : Finished(e)}

\* The counter of the loop knows of every finished event that is not shown.
CounterCovers == FinishedUnseen # {} => counter > 0

\* An event that finishes while the loop is asleep leaves something to pop.
AsleepIsWoken == pc = "pop" /\ counter > 0 /\ ~ closed => queue # <<>>

\* Every finished event weighs at least one unit.
WeightCovers ==
  IsFiniteSet(unseen) /\ Cardinality(FinishedUnseen) <= weight

\* The loop takes the next event only below the weight of a frame.
LightAtTryPop == pc = "try_pop" => weight < FrameWeight

\* The inductive invariant: SleepsRendered follows from its second and third
\* part, FloodIsRendered from the last two.
IInv ==
  /\ TypeOK
  /\ CounterCovers
  /\ AsleepIsWoken
  /\ WeightCovers
  /\ LightAtTryPop

\* What IInv has to show.
LEMMA IInvImplies == IInv => SleepsRendered /\ FloodIsRendered
<1> SUFFICES ASSUME IInv PROVE SleepsRendered /\ FloodIsRendered
  OBVIOUS
<1> USE DEF IInv
<1>1. SleepsRendered
  BY DEF SleepsRendered, CounterCovers, AsleepIsWoken, FinishedUnseen, Finished
<1>2. ASSUME pc = "try_pop"
      PROVE  Cardinality(FinishedUnseen) < FrameWeight
  <2>1. IsFiniteSet(FinishedUnseen)
    BY FS_Subset DEF WeightCovers, FinishedUnseen
  <2>2. Cardinality(FinishedUnseen) \in Nat
    BY <2>1, FS_CardinalityType
  <2>. QED
    BY <1>2, <2>2, WeightAssumption DEF WeightCovers, LightAtTryPop, TypeOK
<1>. QED
  BY <1>1, <1>2 DEF FloodIsRendered, FinishedUnseen

\* The first turn of the loop starts with the weight of a frame.
LEMMA InitIInv == Init => IInv
<1> SUFFICES ASSUME Init PROVE IInv
  OBVIOUS
<1>1. /\ IsFiniteSet(unseen)
      /\ FinishedUnseen = {} /\ Cardinality(FinishedUnseen) = 0
  BY FS_EmptySet DEF Init, FinishedUnseen
<1>2. TypeOK
  <2>1. queue = <<>> /\ Len(queue) = 0 /\ counter = 0 /\ weight = FrameWeight
    BY DEF Init
  <2>2. Len(queue) <= Capacity /\ counter \in Nat /\ weight \in Nat
    BY <2>1, CapacityAssumption, WeightAssumption
  <2>3. queue \in Seq(Events \cup {Null})
    BY <2>1
  <2>4. state \in [Events -> EventStates]
    BY DEF Init, EventStates
  <2>5. /\ closed \in BOOLEAN /\ pc \in Positions
        /\ event \in Events \cup {Null} /\ unseen \in SUBSET Events
    BY DEF Init, Positions
  <2>. QED
    BY <2>2, <2>3, <2>4, <2>5 DEF TypeOK
<1>3. WeightCovers
  BY <1>1, <1>2 DEF WeightCovers, TypeOK
<1>. QED
  BY <1>1, <1>2, <1>3 DEF Init, IInv, CounterCovers, AsleepIsWoken, LightAtTryPop

\* The arithmetic of one more finished event.
LEMMA OneMoreFinished ==
  ASSUME NEW e \in Events, IInv, unseen' = unseen \cup {e},
         FinishedUnseen' \subseteq FinishedUnseen \cup {e},
         weight' \in Nat, weight' >= weight + 1
  PROVE  WeightCovers'
<1> USE DEF IInv, WeightCovers, TypeOK
<1>1. IsFiniteSet(unseen')
  BY FS_AddElement
<1>2. IsFiniteSet(FinishedUnseen)
  BY FS_Subset DEF FinishedUnseen
<1>3. /\ IsFiniteSet(FinishedUnseen \cup {e})
      /\ Cardinality(FinishedUnseen \cup {e}) <= Cardinality(FinishedUnseen) + 1
      /\ Cardinality(FinishedUnseen) \in Nat
      /\ Cardinality(FinishedUnseen \cup {e}) \in Nat
  <2>1. /\ IsFiniteSet(FinishedUnseen \cup {e})
        /\ Cardinality(FinishedUnseen \cup {e}) =
             IF e \in FinishedUnseen THEN Cardinality(FinishedUnseen)
             ELSE Cardinality(FinishedUnseen) + 1
    BY <1>2, FS_AddElement
  <2>2. Cardinality(FinishedUnseen) \in Nat
    BY <1>2, FS_CardinalityType
  <2>. QED
    BY <2>1, <2>2
<1>4. /\ Cardinality(FinishedUnseen') <= Cardinality(FinishedUnseen \cup {e})
      /\ Cardinality(FinishedUnseen') \in Nat
  BY <1>3, FS_Subset, FS_CardinalityType
<1>. QED
  BY <1>1, <1>3, <1>4

\* A step that finishes no event and renders nothing.
LEMMA NothingFinished ==
  ASSUME IInv, FinishedUnseen' \subseteq FinishedUnseen,
         IsFiniteSet(unseen'), weight' = weight
  PROVE  WeightCovers'
<1> USE DEF IInv, WeightCovers, TypeOK
<1>1. IsFiniteSet(FinishedUnseen)
  BY FS_Subset DEF FinishedUnseen
<1>2. /\ Cardinality(FinishedUnseen') <= Cardinality(FinishedUnseen)
      /\ Cardinality(FinishedUnseen') \in Nat
      /\ Cardinality(FinishedUnseen) \in Nat
  BY <1>1, FS_Subset, FS_CardinalityType
<1>. QED
  BY <1>2

\* schedule(nullptr) keeps the channel within its capacity, and leaves
\* something in an open one: the empty event, or what filled it before.
LEMMA RenotifyQueue ==
  ASSUME TypeOK, NEW e \in Events, Renotify(e)
  PROVE  /\ queue' \in Seq(Events \cup {Null}) /\ Len(queue') <= Capacity
         /\ queue' # <<>> \/ closed
         /\ queue # <<>> => queue' # <<>>
<1> USE CapacityAssumption DEF TypeOK
<1>1. queue \in Seq(Events \cup {Null}) /\ Len(queue) \in Nat
  OBVIOUS
<1>2. CASE closed /\ queue' = queue
  BY <1>2
<1>3. CASE Len(queue) < Capacity /\ queue' = Append(queue, Null)
  <2>1. Len(queue') = Len(queue) + 1 /\ queue' \in Seq(Events \cup {Null})
    BY <1>1, <1>3
  <2>. QED
    BY <1>1, <1>3, <2>1
<1>4. CASE Len(queue) >= Capacity /\ queue' = queue
  BY <1>1, <1>4
<1>. QED
  BY <1>1, <1>2, <1>3, <1>4 DEF Renotify, Full

\* The fiber of an event: its effect on what it shares with the loop.
FiberResult ==
  /\ queue' \in Seq(Events \cup {Null}) /\ Len(queue') <= Capacity
  /\ counter' \in Nat /\ weight' \in Nat
  /\ state' \in [Events -> EventStates]
  /\ unseen' \in SUBSET Events
  /\ CounterCovers'
  /\ WeightCovers'
  /\ (queue' = queue /\ counter' = counter) \/ queue' # <<>> \/ closed

\* The event may run to its end, fail or block.
LEMMA FiberStep ==
  ASSUME IInv, NEW e \in Events,
         Finish(e) \/ Fail(e) \/ Suspend(e), unseen' = unseen \cup {e}
  PROVE  FiberResult
<1> USE DEF IInv, TypeOK
<1>1. queue \in Seq(Events \cup {Null}) /\ Len(queue) \in Nat
  OBVIOUS
<1>2. CASE Finish(e)
  <2>1. /\ state' \in [Events -> EventStates]
        /\ \A f \in Events : f # e => state'[f] = state[f]
    BY <1>2 DEF Finish, Renotify, EventStates
  <2>2. FinishedUnseen' \subseteq FinishedUnseen \cup {e}
    BY <2>1 DEF FinishedUnseen, Finished
  <2>3. counter' = counter + 1 /\ weight' \in Nat /\ weight' >= weight + 1
    BY <1>2, WeightAssumption DEF Finish, UnitWeight
  <2>4. WeightCovers'
    BY <2>2, <2>3, OneMoreFinished
  <2>5. CounterCovers'
    BY <2>3 DEF CounterCovers
  <2>6. /\ queue' \in Seq(Events \cup {Null}) /\ Len(queue') <= Capacity
        /\ queue' # <<>> \/ closed
    BY <1>2, RenotifyQueue DEF Finish
  <2>. QED
    BY <2>1, <2>3, <2>4, <2>5, <2>6 DEF FiberResult
<1>3. CASE Fail(e) \/ Suspend(e)
  <2>1. /\ queue' = queue /\ counter' = counter /\ weight' = weight
        /\ state' \in [Events -> EventStates]
        /\ \A f \in Events : f # e => state'[f] = state[f]
        /\ state'[e] \in {"failed", "blocked"}
    BY <1>3 DEF Fail, Suspend, EventStates
  <2>2. FinishedUnseen' \subseteq FinishedUnseen
    BY <2>1 DEF FinishedUnseen, Finished
  <2>3. IsFiniteSet(unseen')
    BY FS_AddElement DEF WeightCovers
  <2>4. WeightCovers'
    BY <2>1, <2>2, <2>3, NothingFinished
  <2>5. CounterCovers'
    BY <2>1, <2>2 DEF CounterCovers
  <2>. QED
    BY <2>1, <2>4, <2>5 DEF FiberResult
<1>. QED
  BY <1>2, <1>3

\* Rendering a frame shows every change.
LEMMA FrameStep ==
  ASSUME IInv, WeighFrame \/ EmptyFrame
  PROVE  IInv'
<1> USE DEF IInv, TypeOK
<1>1. /\ queue' = queue /\ closed' = closed /\ event' = event /\ state' = state
      /\ pc' \in Positions
      /\ pc' = "pop" => counter' = 0
      /\ pc' = "try_pop" => weight' < FrameWeight
  BY WeightAssumption DEF WeighFrame, EmptyFrame, Frame, NoFrame, Positions
<1>2. CASE Frame
  <2>1. unseen' = {} /\ FinishedUnseen' = {} /\ Cardinality({}) = 0
    BY <1>2, FS_EmptySet DEF Frame, FinishedUnseen
  <2>2. IsFiniteSet(unseen')
    BY <2>1, FS_EmptySet
  <2>3. CounterCovers' /\ WeightCovers'
    BY <1>2, <2>1, <2>2 DEF Frame, CounterCovers, WeightCovers
  <2>. QED
    BY <1>1, <1>2, <2>1, <2>3 DEF Frame, AsleepIsWoken, LightAtTryPop
<1>3. CASE NoFrame
  <2>1. FinishedUnseen' = FinishedUnseen
    BY <1>1, <1>3 DEF NoFrame, FinishedUnseen, Finished
  <2>. QED
    BY <1>1, <1>3, <2>1
       DEF NoFrame, CounterCovers, WeightCovers, AsleepIsWoken, LightAtTryPop
<1>. QED
  BY <1>2, <1>3 DEF WeighFrame, EmptyFrame

\* A step that neither finishes an event nor renders: it moves events from
\* place to place, and the queue loses its last entry only to the loop.
LEMMA MoveStep ==
  ASSUME IInv,
         NothingToDispatch \/ TryPop \/ Pop \/ Close \/ UNCHANGED vars
           \/ (\E e \in Events : Schedule(e) \/ ResumePush(e))
  PROVE  IInv'
<1> USE DEF IInv, TypeOK
<1>1. /\ counter' = counter /\ weight' = weight /\ unseen' = unseen
      /\ queue \in Seq(Events \cup {Null}) /\ Len(queue) \in Nat
  BY DEF NothingToDispatch, TryPop, Pop, Close, Schedule, ResumePush, Take,
         EndLoop, vars
<1>2. CASE \E e \in Events : Schedule(e) \/ ResumePush(e)
  <2>1. PICK e \in Events : Schedule(e) \/ ResumePush(e)
    BY <1>2
  <2>2. /\ state' \in [Events -> EventStates]
        /\ \A f \in Events : state'[f] = "done" => state[f] \in {"done", "pushing"}
        /\ \A f \in Events : state'[f] = "pushing" => state[f] = "pushing"
    BY <2>1 DEF Schedule, ResumePush, Renotify, EventStates
  <2>3. FinishedUnseen' \subseteq FinishedUnseen
    BY <1>1, <2>2 DEF FinishedUnseen, Finished
  <2>4. /\ queue' \in Seq(Events \cup {Null}) /\ Len(queue') <= Capacity
        /\ queue # <<>> => queue' # <<>>
    <3>1. CASE ResumePush(e)
      BY <3>1, RenotifyQueue DEF ResumePush
    <3>2. CASE Schedule(e) /\ queue' # queue
      <4>1. Len(queue) < Capacity /\ queue' = Append(queue, e)
        BY <1>1, <3>2, CapacityAssumption DEF Schedule, Full
      <4>2. Len(queue') = Len(queue) + 1 /\ queue' \in Seq(Events \cup {Null})
        BY <1>1, <4>1
      <4>. QED
        BY <1>1, <4>1, <4>2, CapacityAssumption
    <3>3. CASE queue' = queue
      BY <3>3
    <3>. QED
      BY <2>1, <3>1, <3>2, <3>3
  <2>5. pc' = pc /\ closed' = closed /\ event' = event
    BY <2>1 DEF Schedule, ResumePush
  <2>6. WeightCovers'
    BY <1>1, <2>3, NothingFinished DEF WeightCovers
  <2>7. CounterCovers' /\ AsleepIsWoken' /\ LightAtTryPop'
    BY <1>1, <2>3, <2>4, <2>5 DEF CounterCovers, AsleepIsWoken, LightAtTryPop
  <2>. QED
    BY <1>1, <2>2, <2>4, <2>5, <2>6, <2>7
<1>3. CASE (TryPop \/ Pop) /\ Take
  <2>1. /\ Head(queue) \in Events \cup {Null}
        /\ queue' \in Seq(Events \cup {Null}) /\ Len(queue') <= Capacity
    BY <1>1, <1>3, CapacityAssumption DEF Take
  <2>2. /\ state' \in [Events -> EventStates]
        /\ \A f \in Events : state'[f] = state[f] \/ state'[f] = "popped"
    BY <1>3, <2>1 DEF Take, EventStates
  <2>3. FinishedUnseen' \subseteq FinishedUnseen
    BY <1>1, <2>2 DEF FinishedUnseen, Finished
  <2>4. WeightCovers'
    BY <1>1, <2>3, NothingFinished DEF WeightCovers
  <2>. QED
    BY <1>1, <1>3, <2>1, <2>2, <2>3, <2>4
       DEF Take, Positions, CounterCovers, AsleepIsWoken, LightAtTryPop
<1>4. CASE ~ (\E e \in Events : Schedule(e) \/ ResumePush(e)) /\ ~ Take
  <2>1. /\ state' = state /\ queue' = queue /\ event' = event
        /\ closed' \in BOOLEAN
        /\ pc' \in Positions
        /\ pc' = "pop" => pc = "pop" /\ (closed => closed')
        /\ pc' = "try_pop" => pc = "try_pop"
    BY <1>4 DEF NothingToDispatch, TryPop, Pop, Close, EndLoop, vars, Positions
  <2>2. FinishedUnseen' = FinishedUnseen
    BY <1>1, <2>1 DEF FinishedUnseen, Finished
  <2>. QED
    BY <1>1, <2>1, <2>2
       DEF CounterCovers, WeightCovers, AsleepIsWoken, LightAtTryPop
<1>5. Take => TryPop \/ Pop \/ (\E e \in Events : Schedule(e) \/ ResumePush(e))
  BY DEF Take, NothingToDispatch, Close, vars, Positions
<1>. QED
  BY <1>2, <1>3, <1>4, <1>5

\* The invariant is inductive.
LEMMA NextIInv == IInv /\ [Next]_vars => IInv'
<1> SUFFICES ASSUME IInv, [Next]_vars
             PROVE  IInv'
  OBVIOUS
<1>1. CASE Dispatch
  <2>1. event \in Events /\ unseen' = unseen \cup {event}
    BY <1>1 DEF Dispatch, IInv, TypeOK
  <2>2. FiberResult
    BY <1>1, <2>1, FiberStep DEF Dispatch
  <2>. QED
    BY <1>1, <2>2
       DEF FiberResult, Dispatch, IInv, TypeOK, Positions, AsleepIsWoken,
           LightAtTryPop
<1>2. ASSUME NEW e \in Events, Resume(e)
      PROVE  IInv'
  <2>1. FiberResult
    BY <1>2, FiberStep DEF Resume
  <2>. QED
    BY <1>2, <2>1
       DEF FiberResult, Resume, LoopYields, IInv, TypeOK, AsleepIsWoken,
           LightAtTryPop
<1>3. CASE WeighFrame \/ EmptyFrame
  BY <1>3, FrameStep
<1>4. CASE NothingToDispatch \/ TryPop \/ Pop \/ Close \/ UNCHANGED vars
             \/ (\E e \in Events : Schedule(e) \/ ResumePush(e))
  BY <1>4, MoveStep
<1>. QED
  BY <1>1, <1>2, <1>3, <1>4 DEF Next, Loop

\* The invariant holds of every behaviour.
THEOREM Invariance == Spec => []IInv
BY InitIInv, NextIInv, PTL DEF Spec

\* The variables of the loop keep their types and the channel its capacity.
THEOREM Typing == Spec => []TypeOK
<1>1. IInv => TypeOK
  BY DEF IInv
<1>. QED
  BY <1>1, Invariance, PTL

\* The loop never sleeps on an open, empty channel with a finished event unseen.
THEOREM EverythingIsRendered == Spec => []SleepsRendered
BY IInvImplies, Invariance, PTL

\* Fewer than FrameWeight finished events wait for a frame when the loop turns
\* to the next event, whatever their weights are.
THEOREM FloodIsBounded == Spec => []FloodIsRendered
BY IInvImplies, Invariance, PTL
=============================================================================
