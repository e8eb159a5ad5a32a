--------------------------- MODULE Display_proofs ---------------------------
(***************************************************************************)
(* Proofs about Display, for every set of events and Windows, any weights  *)
(* and any capacity of the channel: the composition moves its parts as     *)
(* they move alone, so that their invariants hold in it, and with them no  *)
(* change is left behind when both threads sleep.                          *)
(***************************************************************************)
EXTENDS Display, TLAPS

EHP == INSTANCE EventHandler_proofs
RTP == INSTANCE RenderThread_proofs

\* Both modules say the same of the event handler ...
LEMMA SameEvents == EH!Next => EHP!Next
BY DEF
      EH!vars, EH!Full, EH!Schedule, EH!Close, EH!UnitWeight, EH!Renotify,
      EH!Finish, EH!Fail, EH!Suspend, EH!LoopYields, EH!Resume, EH!ResumePush,
      EH!Dispatch, EH!NothingToDispatch, EH!Frame, EH!NoFrame, EH!WeighFrame,
      EH!Take, EH!EndLoop, EH!TryPop, EH!EmptyFrame, EH!Pop, EH!Loop, EH!Next,
      EHP!vars, EHP!Full, EHP!Schedule, EHP!Close, EHP!UnitWeight,
      EHP!Renotify, EHP!Finish, EHP!Fail, EHP!Suspend, EHP!LoopYields,
      EHP!Resume, EHP!ResumePush, EHP!Dispatch, EHP!NothingToDispatch,
      EHP!Frame, EHP!NoFrame, EHP!WeighFrame, EHP!Take, EHP!EndLoop,
      EHP!TryPop, EHP!EmptyFrame, EHP!Pop, EHP!Loop, EHP!Next

\* ... and of the render thread.
LEMMA SameRenders == RT!Next => RTP!Next
BY DEF
      RT!vars, RT!HoldsMutex, RT!HoldsGraph, RT!Queued, RT!EnqueueAlways,
      RT!Enqueue, RT!RequestRedraw, RT!Notified, RT!RequestNotify, RT!Expire,
      RT!Go, RT!Loop, RT!Lock, RT!Test, RT!Predicate, RT!Block,
      RT!SpuriousWakeup, RT!Relock, RT!LeaveStopped, RT!Pop, RT!CheckExpired,
      RT!LockGraph, RT!BeginFrame, RT!FinishFrame, RT!Render, RT!StopStore,
      RT!StopNotify, RT!StopJoin, RT!Stop, RT!Next,
      RTP!vars, RTP!HoldsMutex, RTP!HoldsGraph, RTP!Queued, RTP!EnqueueAlways,
      RTP!Enqueue, RTP!RequestRedraw, RTP!Notified, RTP!RequestNotify,
      RTP!Expire, RTP!Go, RTP!Loop, RTP!Lock, RTP!Test, RTP!Predicate,
      RTP!Block, RTP!SpuriousWakeup, RTP!Relock, RTP!LeaveStopped, RTP!Pop,
      RTP!CheckExpired, RTP!LockGraph, RTP!BeginFrame, RTP!FinishFrame,
      RTP!Render, RTP!StopStore, RTP!StopNotify, RTP!StopJoin, RTP!Stop,
      RTP!Next

-----------------------------------------------------------------------------
(* The composition *)

\* Every step is one of each part, or leaves it alone.
LEMMA StepOfParts ==
  ASSUME [Next]_vars
  PROVE  /\ EH!Next \/ UNCHANGED eventVars
         /\ RT!Next \/ UNCHANGED renderVars
<1>1. CASE Ui
  <2>1. CASE RunEvent
    BY <2>1 DEF RunEvent, EH!Next, EH!Loop
  <2>2. CASE Synchronize
    BY <2>2 DEF Synchronize, EH!Next, EH!Loop
  <2>3. CASE Loop
    BY <2>3 DEF Loop, EH!Next, EH!Loop
  <2>4. CASE Request
    BY <2>4, FirstAssumption DEF Request, RT!Next
  <2>5. CASE Notify
    BY <2>5 DEF Notify, RT!Next
  <2>6. QED
    BY <1>1, <2>1, <2>2, <2>3, <2>4, <2>5 DEF Ui
<1>2. CASE Render
  BY <1>2 DEF Render, BeginFrame, RT!Next, RT!Render
<1>3. CASE SpuriousWakeup
  BY <1>3 DEF SpuriousWakeup, RT!Next
<1>4. CASE \E e \in Events : Schedule(e)
  BY <1>4 DEF Schedule, EH!Next
<1>5. CASE UNCHANGED vars
  BY <1>5 DEF vars
<1>6. QED
  BY <1>1, <1>2, <1>3, <1>4, <1>5 DEF Next

\* The composition implements both of its parts: whatever the event handler and
\* the render thread do in it they may do alone (their fairness is not claimed).
THEOREM Composition ==
  Spec => /\ EH!Init /\ [][EH!Next]_eventVars
          /\ RT!Init /\ [][RT!Next]_renderVars
<1>1. Init => EH!Init /\ RT!Init
  BY DEF Init
<1>2. [Next]_vars => [EH!Next]_eventVars /\ [RT!Next]_renderVars
  BY StepOfParts
<1>3. QED
  BY <1>1, <1>2, PTL DEF Spec

\* The invariants of both parts.
PartsInv == EHP!IInv /\ RTP!IInv

LEMMA PartsInit == Init => PartsInv
<1>1. EH!Init => EHP!Init
  BY DEF EH!Init, EHP!Init
<1>2. RT!Init => RTP!Init
  BY DEF RT!Init, RTP!Init
<1>3. QED
  BY <1>1, <1>2, EHP!InitIInv, RTP!InitIInv, EventsAssumption, WindowsAssumption
     DEF Init, PartsInv

LEMMA PartsNext == PartsInv /\ [Next]_vars => PartsInv'
<1> SUFFICES ASSUME PartsInv, [Next]_vars
             PROVE  PartsInv'
  OBVIOUS
<1>1. EHP!Next \/ UNCHANGED EHP!vars
  BY StepOfParts, SameEvents DEF eventVars, EHP!vars
<1>2. RTP!Next \/ UNCHANGED RTP!vars
  BY StepOfParts, SameRenders DEF renderVars, RTP!vars
<1>3. EHP!IInv'
  BY <1>1, EHP!NextIInv, EventsAssumption DEF PartsInv
<1>4. RTP!IInv'
  BY <1>2, RTP!NextIInv, WindowsAssumption DEF PartsInv
<1>5. QED
  BY <1>3, <1>4 DEF PartsInv

-----------------------------------------------------------------------------
(* Between the parts *)

\* A change that is not synchronised has marked the Graph.
Marks == \A e \in unseen : Target[e] # NoWindow => marked

\* A change that is synchronised and not drawn is being requested, or has been.
Owes ==
  \A e \in undrawn : Target[e] = First /\ e \notin unseen => asked \/ First \in pending

LinkInv == ~ closed /\ alive = Windows /\ Marks /\ Owes

LEMMA LinkInit == Init => LinkInv
BY DEF Init, LinkInv, Marks, Owes, EH!Init, RT!Init

\* Only events change the Graph, and only synchronize forgets that they have.
LEMMA LinkUi ==
  ASSUME LinkInv, PartsInv, Ui
  PROVE  LinkInv'
<1>1. CASE RunEvent
  <2>1. PICK e : /\ Change(e) /\ unseen' = unseen \cup {e}
                 /\ UNCHANGED <<closed, renderVars, asked>>
    BY <1>1 DEF RunEvent, EH!Dispatch, EH!Resume
  <2>2. QED
    BY <2>1 DEF LinkInv, Marks, Owes, Change, renderVars
<1>2. CASE Synchronize
  <2>1. unseen' = {} /\ closed' = closed
    BY <1>2 DEF Synchronize, Renders, EH!WeighFrame, EH!EmptyFrame, EH!Frame
  <2>2. /\ asked' = marked /\ undrawn' = undrawn /\ ~ asked
        /\ alive' = alive /\ pending' = pending
    BY <1>2 DEF Synchronize, UiFree, renderVars
  <2>3. ASSUME NEW e \in undrawn, Target[e] = First
        PROVE  marked \/ First \in pending
    BY <2>2, <2>3, FirstAssumption, WindowsAssumption DEF LinkInv, Marks, Owes
  <2>4. QED
    BY <2>1, <2>2, <2>3 DEF LinkInv, Marks, Owes
<1>3. CASE Loop
  <2>1. unseen' = unseen /\ closed' = closed
    BY <1>3 DEF Loop, Renders, EH!NothingToDispatch, EH!WeighFrame, EH!EmptyFrame,
       EH!NoFrame, EH!TryPop, EH!Pop, EH!Take, EH!EndLoop, EH!ResumePush
  <2>2. QED
    BY <1>3, <2>1 DEF Loop, LinkInv, Marks, Owes, renderVars
<1>4. CASE Request
  BY <1>4, FirstAssumption DEF Request, RT!RequestRedraw, LinkInv, Marks, Owes, eventVars
<1>5. CASE Notify
  BY <1>5 DEF Notify, RT!RequestNotify, LinkInv, Marks, Owes, eventVars
<1>6. QED
  BY <1>1, <1>2, <1>3, <1>4, <1>5 DEF Ui

\* A request is forgotten where a frame begins that shows what it was made for.
LEMMA LinkFrame ==
  ASSUME LinkInv, BeginFrame
  PROVE  LinkInv'
BY DEF BeginFrame, RT!BeginFrame, RT!Go, LinkInv, Marks, Owes, eventVars

LEMMA LinkNext == LinkInv /\ PartsInv /\ [Next]_vars => LinkInv'
<1> SUFFICES ASSUME LinkInv, PartsInv, [Next]_vars
             PROVE  LinkInv'
  OBVIOUS
<1>1. CASE Ui
  BY <1>1, LinkUi
<1>2. CASE Render
  <2>1. CASE BeginFrame
    BY <2>1, LinkFrame
  <2>2. CASE rpc # "deref" /\ RT!Render /\ UNCHANGED <<eventVars, marked, asked, undrawn>>
    <3>1. alive' = alive /\ pending' = pending
      BY <2>2 DEF RT!Render, RT!Loop, RT!Lock, RT!Test, RT!Predicate, RT!Block,
         RT!Relock, RT!LeaveStopped, RT!Pop, RT!CheckExpired, RT!LockGraph,
         RT!BeginFrame, RT!FinishFrame, RT!Go
    <3>2. QED
      BY <2>2, <3>1 DEF LinkInv, Marks, Owes, eventVars
  <2>3. QED
    BY <1>2, <2>1, <2>2 DEF Render
<1>3. CASE SpuriousWakeup
  BY <1>3 DEF SpuriousWakeup, RT!SpuriousWakeup, LinkInv, Marks, Owes, eventVars
<1>4. CASE \E e \in Events : Schedule(e)
  BY <1>4 DEF Schedule, EH!Schedule, LinkInv, Marks, Owes, renderVars
<1>5. CASE UNCHANGED vars
  BY <1>5 DEF vars, eventVars, renderVars, LinkInv, Marks, Owes
<1>6. QED
  BY <1>1, <1>2, <1>3, <1>4, <1>5 DEF Next

-----------------------------------------------------------------------------
(* Theorem *)

\* While both threads sleep the screen is up to date: nothing that a finished
\* event has changed is left in the Graph, in a request or in the queue.
THEOREM NothingIsLeftBehind == Spec => []QuietIsCurrent
<1>1. Init => LinkInv /\ PartsInv
  BY LinkInit, PartsInit
<1>2. LinkInv /\ PartsInv /\ [Next]_vars => (LinkInv /\ PartsInv)'
  BY LinkNext, PartsNext
<1>3. LinkInv /\ PartsInv => QuietIsCurrent
  <2> SUFFICES ASSUME LinkInv, PartsInv,
                      pc = "pop", queue = <<>>, UiFree, rpc = "asleep",
                      NEW e \in Events, Owed(e)
               PROVE  state[e] = "pushing"
    BY DEF QuietIsCurrent
  <2>1. EHP!SleepsRendered
    BY EHP!IInvImplies, EventsAssumption DEF PartsInv
  <2>2. e \in unseen => state[e] # "done"
    BY <2>1 DEF EHP!SleepsRendered, LinkInv
  <2>3. RTP!NoLostRequest /\ RTP!SleepsWithoutWork
    BY DEF PartsInv, RTP!IInv
  <2>4. First \notin pending
    BY <2>3 DEF RTP!NoLostRequest, RTP!SleepsWithoutWork, RTP!InHand, RTP!Queued, UiFree
  <2>5. e \in unseen
    BY <2>4 DEF LinkInv, Owes, Owed, UiFree
  <2>6. QED
    BY <2>2, <2>5 DEF Owed, EH!Finished
<1>4. QED
  BY <1>1, <1>2, <1>3, PTL DEF Spec
=============================================================================
