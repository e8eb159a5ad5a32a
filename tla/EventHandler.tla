---------------------------- MODULE EventHandler ----------------------------
(***************************************************************************)
(* The event loop of the ui thread, src/src/app/event_handler.cpp.         *)
(*                                                                         *)
(* Other threads push events into a bounded channel.  On the ui thread one *)
(* fiber, the loop, pops them and launches a fiber per event, which runs   *)
(* at once until it finishes, fails or blocks.  Fibers of one thread do    *)
(* not preempt each other: an event's fiber goes on only where the loop    *)
(* has launched another one ("yield"), waits for the channel ("pop") or    *)
(* has ended ("done").                                                     *)
(*                                                                         *)
(* A weight is counted in units of the least weight, 0.001 in the code;    *)
(* FrameWeight units are the weight 1 at which a frame is rendered.        *)
(***************************************************************************)
EXTENDS Naturals, Sequences, FiniteSets

CONSTANTS Events,       \* every event that is ever scheduled
          Null,         \* the empty AnyEventPtr
          Capacity,     \* places in the channel
          FrameWeight,  \* the weight that causes a frame
          Weight        \* get_weight() of each event

ASSUME EventsAssumption == Null \notin Events
ASSUME CapacityAssumption == Capacity \in Nat \ {0}
ASSUME WeightAssumption == /\ FrameWeight \in Nat \ {0}
                           /\ Weight \in [Events -> Nat]

VARIABLES
  queue,    \* m_event_queue
  closed,   \* the channel has been closed
  pc,       \* position of the loop
  event,    \* local variable of the loop: the event popped last
  counter,  \* local variable of the loop: events finished since the last frame
  weight,   \* local variable of the loop: their weight
  state,    \* where each event is
  unseen    \* history: events that changed the Graph after the last frame

vars == <<queue, closed, pc, event, counter, weight, state, unseen>>

\* "waiting" is an event whose producer is blocked in push, "blocked" one whose
\* function waits for something, "pushing" one that has run and is blocked in
\* schedule(nullptr).
EventStates == {"new", "waiting", "queued", "popped", "dropped",
                "blocked", "pushing", "done", "failed"}

Positions == {"event", "yield", "weigh", "try_pop", "empty", "pop", "done"}

\* An event that has run to its end and counts towards the next frame.
Finished(e) == state[e] \in {"pushing", "done"}

Full == Len(queue) >= Capacity

Init ==
  /\ queue = <<>>
  /\ closed = FALSE
  /\ pc = "event"
  /\ event = Null
  /\ counter = 0
  /\ weight = FrameWeight
  /\ state = [e \in Events |-> "new"]
  /\ unseen = {}

-----------------------------------------------------------------------------
(* Other threads *)

\* push: refused by a closed channel, blocked by a full one.
Schedule(e) ==
  /\ state[e] \in {"new", "waiting"}
  /\ \/ /\ closed
        /\ state' = [state EXCEPT ![e] = "dropped"]
        /\ UNCHANGED queue
     \/ /\ ~ closed /\ ~ Full
        /\ state' = [state EXCEPT ![e] = "queued"]
        /\ queue' = Append(queue, e)
     \/ /\ ~ closed /\ Full
        /\ state[e] = "new"
        /\ state' = [state EXCEPT ![e] = "waiting"]
        /\ UNCHANGED queue
  /\ UNCHANGED <<closed, pc, event, counter, weight, unseen>>

\* The destructor closes the channel before it joins the thread.
Close ==
  /\ ~ closed
  /\ closed' = TRUE
  /\ UNCHANGED <<queue, pc, event, counter, weight, state, unseen>>

-----------------------------------------------------------------------------
(* The fiber of an event *)

\* The least weight counts for events of less, also for those of weight 0.
UnitWeight(e) == IF Weight[e] = 0 THEN 1 ELSE Weight[e]

\* Mutant of Renotify: the loop is not told that an event has finished.
RenotifyNever(e) ==
  /\ state' = [state EXCEPT ![e] = "done"]
  /\ UNCHANGED queue

\* Mutant of Renotify: the channel has no limit.
RenotifyUnbounded(e) ==
  /\ state' = [state EXCEPT ![e] = "done"]
  /\ queue' = IF closed THEN queue ELSE Append(queue, Null)

\* schedule(nullptr) by the fiber of an event that has run
Renotify(e) ==
  \/ /\ closed
     /\ state' = [state EXCEPT ![e] = "done"]
     /\ UNCHANGED queue
  \/ /\ ~ closed /\ ~ Full
     /\ state' = [state EXCEPT ![e] = "done"]
     /\ queue' = Append(queue, Null)
  \/ /\ ~ closed /\ Full
     /\ state[e] # "pushing"
     /\ state' = [state EXCEPT ![e] = "pushing"]
     /\ UNCHANGED queue

\* Mutant of Finish: the weight of the event replaces that of those before it.
FinishAlone(e) ==
  /\ counter' = counter + 1
  /\ weight' = UnitWeight(e)
  /\ Renotify(e)

\* The event runs to its end.
Finish(e) ==
  /\ counter' = counter + 1
  /\ weight' = weight + UnitWeight(e)
  /\ Renotify(e)

\* The event throws, after it may have changed the Graph.
Fail(e) ==
  /\ state' = [state EXCEPT ![e] = "failed"]
  /\ UNCHANGED <<queue, counter, weight>>

\* The event waits for something, after it may have changed the Graph.
Suspend(e) ==
  /\ state' = [state EXCEPT ![e] = "blocked"]
  /\ UNCHANGED <<queue, counter, weight>>

\* The loop's fiber is not running.
LoopYields == pc \in {"yield", "pop", "done"}

\* What a blocked event has waited for has come.
Resume(e) ==
  /\ state[e] = "blocked" /\ LoopYields
  /\ Finish(e) \/ Fail(e)
  /\ unseen' = unseen \cup {e}
  /\ UNCHANGED <<closed, pc, event>>

ResumePush(e) ==
  /\ state[e] = "pushing" /\ LoopYields
  /\ Renotify(e)
  /\ UNCHANGED <<closed, pc, event, counter, weight, unseen>>

-----------------------------------------------------------------------------
(* The loop *)

\* The event is launched and runs its first part before anything else does.
Dispatch ==
  /\ pc = "event" /\ event # Null
  /\ Finish(event) \/ Fail(event) \/ Suspend(event)
  /\ unseen' = unseen \cup {event}
  /\ event' = Null
  /\ pc' = "yield"
  /\ UNCHANGED closed

NothingToDispatch ==
  /\ pc = "event" /\ event = Null
  /\ pc' = "weigh"
  /\ UNCHANGED <<queue, closed, event, counter, weight, state, unseen>>

\* RenderManager::render synchronises the Graph: every change becomes visible.
Frame ==
  /\ counter' = 0
  /\ weight' = 0
  /\ unseen' = {}

NoFrame == UNCHANGED <<counter, weight, unseen>>

WeighFrame ==
  /\ pc \in {"yield", "weigh"}
  /\ IF weight >= FrameWeight THEN Frame ELSE NoFrame
  /\ pc' = "try_pop"
  /\ UNCHANGED <<queue, closed, event, state>>

\* Takes the front of the queue.  A closed channel is emptied first.
Take ==
  /\ queue # <<>>
  /\ event' = Head(queue)
  /\ queue' = Tail(queue)
  /\ state' = IF Head(queue) = Null THEN state
              ELSE [state EXCEPT ![Head(queue)] = "popped"]
  /\ pc' = "event"
  /\ UNCHANGED <<closed, counter, weight, unseen>>

\* Mutant of EndLoop: a closed channel is not emptied.
EndLoopAtOnce ==
  /\ closed
  /\ pc' = "done"
  /\ UNCHANGED <<queue, closed, event, counter, weight, state, unseen>>

EndLoop ==
  /\ queue = <<>> /\ closed
  /\ pc' = "done"
  /\ UNCHANGED <<queue, closed, event, counter, weight, state, unseen>>

TryPop ==
  /\ pc = "try_pop"
  /\ \/ Take
     \/ EndLoop
     \/ /\ queue = <<>> /\ ~ closed
        /\ pc' = "empty"
        /\ UNCHANGED <<queue, closed, event, counter, weight, state, unseen>>

EmptyFrame ==
  /\ pc = "empty"
  /\ IF counter > 0 THEN Frame ELSE NoFrame
  /\ pc' = "pop"
  /\ UNCHANGED <<queue, closed, event, state>>

\* Mutant of Pop: closing the channel does not wake the loop.
PopUnclosed == pc = "pop" /\ Take

Pop ==
  /\ pc = "pop"
  /\ Take \/ EndLoop

Loop == Dispatch \/ NothingToDispatch \/ WeighFrame \/ TryPop \/ EmptyFrame \/ Pop

-----------------------------------------------------------------------------
Next ==
  \/ Loop
  \/ Close
  \/ \E e \in Events : Schedule(e) \/ Resume(e) \/ ResumePush(e)

\* The ui thread runs whatever can run on it, and a blocked push goes on when it
\* can.  Nothing says that a new event is scheduled, that a blocked event gets
\* what it waits for, or that the handler is destroyed.
Fairness ==
  /\ WF_vars(Loop)
  /\ \A e \in Events : /\ WF_vars(state[e] = "waiting" /\ Schedule(e))
                       /\ WF_vars(ResumePush(e))

Spec == Init /\ [][Next]_vars /\ Fairness

-----------------------------------------------------------------------------
(* Properties *)

\* The variables have their types; the channel keeps its capacity.
TypeOK ==
  /\ queue \in Seq(Events \cup {Null}) /\ Len(queue) <= Capacity
  /\ closed \in BOOLEAN
  /\ pc \in Positions
  /\ event \in Events \cup {Null}
  /\ counter \in Nat
  /\ weight \in Nat
  /\ state \in [Events -> EventStates]
  /\ unseen \in SUBSET Events

\* The loop goes to sleep on an empty channel only after everything that
\* finished has been rendered ("always render a frame once the queue is empty",
\* event_handler.cpp:90), also if an event finished while the loop was asleep.
SleepsRendered ==
  pc = "pop" /\ queue = <<>> /\ ~ closed =>
    \A e \in unseen : state[e] # "done"

\* What the code does about a flood of events (event_handler.cpp:64 and 80): each
\* counts for the least weight at least, so that the loop never takes the next one
\* with more than FrameWeight - 1 finished events unseen, however full the channel
\* is.  The description of the weight promises less: WeightlessWait.
FloodIsRendered ==
  pc = "try_pop" => Cardinality({e \in unseen : Finished(e)}) < FrameWeight

\* event_handler.hpp:39 of the weight: "The default is 0, meaning that this Event
\* does not add to the counter", so that events of weight 0 alone are shown "once
\* the queue of new Events is empty" (line 40), and not before.  The code does not
\* do this.
WeightlessWait ==
  [][unseen # {} /\ unseen' = {} => pc = "empty" \/ \E e \in unseen : Weight[e] > 0]_vars

\* An event that the channel accepted is run, even if the channel is closed
\* before its turn.
AcceptedIsRun ==
  \A e \in Events :
    state[e] = "queued" ~> state[e] \in {"blocked", "pushing", "done", "failed"}

\* Closing the channel ends the loop and releases everybody who is blocked in
\* push, so that nothing but an event that waits forever can block the join.
CloseReleases ==
  closed ~> /\ pc = "done"
            /\ \A e \in Events : state[e] \notin {"waiting", "pushing", "queued"}
=============================================================================
