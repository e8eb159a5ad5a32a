------------------------ MODULE RenderThread_proofs ------------------------
(***************************************************************************)
(* Safety of the render thread for every set of Windows.                   *)
(***************************************************************************)
EXTENDS RenderThread, TLAPS

\* A destroyed Window has no request to lose.
PendingIsAlive == pending \subseteq alive

\* Between the failed test and the sleep the mutex keeps the queue empty.
BlockIsEmpty == rpc = "block" => dirty = <<>>

\* The inductive invariant.  RoundRobin needs NoDuplicates (a popped Window is
\* not further back in the queue), NoLostRequest needs PendingIsAlive (an
\* expired Window is skipped), SleepsWithoutWork needs BlockIsEmpty.
IInv ==
  /\ TypeOK
  /\ NoDuplicates
  /\ PendingIsAlive
  /\ NoLostRequest
  /\ RoundRobin
  /\ DrawnIsAlive
  /\ BlockIsEmpty
  /\ SleepsWithoutWork

\* Initially nothing is queued and nothing is requested.
LEMMA InitIInv == Init => IInv
BY WindowsAssumption
   DEF Init, IInv, TypeOK, RenderPositions, NoDuplicates, PendingIsAlive,
       NoLostRequest, RoundRobin, DrawnIsAlive, BlockIsEmpty, SleepsWithoutWork

\* The steps that leave the queue, the requests and the Windows alone.
LEMMA QuietStep ==
  ASSUME IInv,
         Loop \/ Lock \/ Test \/ Predicate \/ Block \/ Relock \/ LeaveStopped
           \/ SpuriousWakeup \/ LockGraph \/ FinishFrame \/ RequestNotify
           \/ CheckExpired \/ Stop \/ UNCHANGED vars
  PROVE  IInv'
<1> USE DEF IInv, Loop, Lock, Test, Predicate, Block, Relock, LeaveStopped,
            SpuriousWakeup, LockGraph, FinishFrame, RequestNotify,
            CheckExpired, Stop, StopStore, StopNotify, StopJoin, Notified, Go,
            vars
<1>1. TypeOK'
  BY DEF TypeOK, RenderPositions
<1>2. /\ dirty' = dirty
      /\ served' = served
      /\ alive' = alive
      /\ pending' = pending
      /\ window' = window
  OBVIOUS
<1>3. NoDuplicates' /\ RoundRobin' /\ PendingIsAlive'
  BY <1>2 DEF NoDuplicates, RoundRobin, PendingIsAlive
<1>4. ASSUME NEW w \in pending, InHand(w)
      PROVE  InHand(w)'
  BY <1>4 DEF InHand, PendingIsAlive
<1>5. NoLostRequest'
  BY <1>2, <1>4 DEF NoLostRequest, Queued
<1>6. DrawnIsAlive'
  BY DEF DrawnIsAlive
<1>7. BlockIsEmpty' /\ SleepsWithoutWork'
  BY DEF BlockIsEmpty, SleepsWithoutWork, TypeOK
<1>. QED
  BY <1>1, <1>3, <1>5, <1>6, <1>7

\* A request appends a Window that is not in the queue, or changes nothing.
LEMMA RequestStep ==
  ASSUME IInv, NEW w \in Windows, RequestRedraw(w)
  PROVE  IInv'
<1> USE DEF IInv, RequestRedraw
<1>1. TypeOK'
  BY DEF TypeOK, Enqueue
<1>2. dirty \in Seq(Windows) /\ served \in [Windows -> SUBSET Windows]
  BY DEF TypeOK
<1>3. PendingIsAlive'
  BY DEF PendingIsAlive
<1>4. DrawnIsAlive' /\ BlockIsEmpty' /\ SleepsWithoutWork'
  BY DEF DrawnIsAlive, BlockIsEmpty, SleepsWithoutWork, HoldsMutex
<1>5. CASE w \in alive /\ ~ Queued(w)
  <2>1. dirty' = Append(dirty, w) /\ served' = [served EXCEPT ![w] = {}]
    BY <1>5 DEF Enqueue
  <2>2. /\ Len(dirty') = Len(dirty) + 1
        /\ DOMAIN dirty' = 1 .. Len(dirty) + 1
        /\ DOMAIN dirty = 1 .. Len(dirty)
        /\ dirty'[Len(dirty) + 1] = w
        /\ \A i \in DOMAIN dirty : dirty'[i] = dirty[i] /\ dirty[i] # w
    BY <1>2, <1>5, <2>1 DEF Queued
  <2>3. NoDuplicates'
    BY <2>2, <1>2 DEF NoDuplicates
  <2>4. RoundRobin'
    BY <1>2, <2>1, <2>2 DEF RoundRobin
  <2>5. \A v \in pending : (Queued(v) \/ InHand(v)) => (Queued(v) \/ InHand(v))'
    BY <1>2, <2>2 DEF Queued, InHand
  <2>6. Queued(w)'
    BY <1>2, <2>2 DEF Queued
  <2>7. NoLostRequest'
    BY <2>5, <2>6 DEF NoLostRequest
  <2>. QED
    BY <1>1, <1>3, <1>4, <2>3, <2>4, <2>7
<1>6. CASE ~ (w \in alive /\ ~ Queued(w))
  <2>1. dirty' = dirty /\ served' = served
    BY <1>6 DEF Enqueue
  <2>2. NoDuplicates' /\ RoundRobin'
    BY <2>1 DEF NoDuplicates, RoundRobin
  <2>3. NoLostRequest'
    BY <1>6, <2>1 DEF NoLostRequest, Queued, InHand
  <2>. QED
    BY <1>1, <1>3, <1>4, <2>2, <2>3
<1>. QED
  BY <1>5, <1>6

\* The front moves from the queue into the render thread's hand.
LEMMA PopStep ==
  ASSUME IInv, Pop
  PROVE  IInv'
<1> USE DEF IInv, Pop, Go
<1>1. /\ dirty \in Seq(Windows) /\ dirty # <<>>
      /\ served \in [Windows -> SUBSET Windows]
      /\ dirty[1] \in Windows
  BY DEF TypeOK
<1>2. /\ window' = dirty[1]
      /\ DOMAIN dirty = 1 .. Len(dirty)
      /\ Len(dirty) \in Nat \ {0}
      /\ DOMAIN dirty' = 1 .. Len(dirty) - 1
      /\ \A i \in DOMAIN dirty' : dirty'[i] = dirty[i + 1] /\ i + 1 \in DOMAIN dirty
      /\ dirty' \in Seq(Windows)
  BY <1>1
<1>3. TypeOK'
  BY <1>1, <1>2 DEF TypeOK, RenderPositions
<1>4. NoDuplicates'
  BY <1>2 DEF NoDuplicates
<1>5. ASSUME NEW i \in DOMAIN dirty', NEW j \in DOMAIN dirty', j < i
      PROVE  dirty'[j] \notin served'[dirty'[i]]
  <2>1. dirty[j + 1] \notin served[dirty[i + 1]]
    BY <1>2, <1>5 DEF RoundRobin
  <2>2. dirty[j + 1] # dirty[1]
    BY <1>2, <1>5 DEF NoDuplicates
  <2>3. dirty[i + 1] \in Windows
    BY <1>1, <1>2
  <2>. QED
    BY <1>1, <1>2, <2>1, <2>2, <2>3
<1>6. RoundRobin'
  BY <1>5 DEF RoundRobin
<1>7. ASSUME NEW w \in pending
      PROVE  (Queued(w) \/ InHand(w))'
  <2>1. PICK i \in DOMAIN dirty : dirty[i] = w
    BY DEF NoLostRequest, Queued, InHand
  <2>2. CASE i = 1
    BY <1>2, <2>1, <2>2 DEF InHand
  <2>3. CASE i # 1
    <3>1. i - 1 \in DOMAIN dirty' /\ dirty'[i - 1] = w
      BY <1>2, <2>1, <2>3
    <3>. QED
      BY <3>1 DEF Queued
  <2>. QED
    BY <2>2, <2>3
<1>8. NoLostRequest'
  BY <1>7 DEF NoLostRequest
<1>9. PendingIsAlive' /\ DrawnIsAlive' /\ BlockIsEmpty' /\ SleepsWithoutWork'
  BY DEF PendingIsAlive, DrawnIsAlive, BlockIsEmpty, SleepsWithoutWork
<1>. QED
  BY <1>3, <1>4, <1>6, <1>8, <1>9

\* A Window leaves the requests when it is destroyed or begins to be drawn.
LEMMA ForgetStep ==
  ASSUME IInv, BeginFrame \/ \E w \in Windows : Expire(w)
  PROVE  IInv'
<1> USE DEF IInv, BeginFrame, Expire, Go
<1>1. dirty' = dirty /\ served' = served /\ window' = window
  OBVIOUS
<1>2. TypeOK'
  BY DEF TypeOK, RenderPositions
<1>3. NoDuplicates' /\ RoundRobin'
  BY <1>1 DEF NoDuplicates, RoundRobin
<1>4. PendingIsAlive'
  BY DEF PendingIsAlive
<1>5. NoLostRequest'
  BY <1>1 DEF NoLostRequest, Queued, InHand
<1>6. DrawnIsAlive'
  BY DEF DrawnIsAlive, HoldsGraph
<1>7. BlockIsEmpty' /\ SleepsWithoutWork'
  BY DEF BlockIsEmpty, SleepsWithoutWork
<1>. QED
  BY <1>2, <1>3, <1>4, <1>5, <1>6, <1>7

\* The invariant is inductive.
LEMMA NextIInv == IInv /\ [Next]_vars => IInv'
<1> SUFFICES ASSUME IInv, [Next]_vars
             PROVE  IInv'
  OBVIOUS
<1>1. ASSUME NEW w \in Windows, RequestRedraw(w)
      PROVE  IInv'
  BY <1>1, RequestStep
<1>2. CASE \E w \in Windows : Expire(w)
  BY <1>2, ForgetStep
<1>3. CASE BeginFrame
  BY <1>3, ForgetStep
<1>4. CASE Pop
  BY <1>4, PopStep
<1>5. CASE Loop \/ Lock \/ Test \/ Predicate \/ Block \/ Relock
             \/ LeaveStopped \/ SpuriousWakeup \/ LockGraph \/ FinishFrame
             \/ RequestNotify \/ CheckExpired \/ Stop \/ UNCHANGED vars
  BY <1>5, QuietStep
<1>. QED
  BY <1>1, <1>2, <1>3, <1>4, <1>5 DEF Next, Render

\* The invariant holds of every behaviour.
THEOREM Invariance == Spec => []IInv
BY InitIInv, NextIInv, PTL DEF Spec

\* The variables of the render thread keep their types.
THEOREM Typing == Spec => []TypeOK
<1>1. IInv => TypeOK
  BY DEF IInv
<1>. QED
  BY <1>1, Invariance, PTL

\* A redraw request is never lost, whatever is being drawn when it arrives.
THEOREM RequestsAreKept == Spec => []NoLostRequest
<1>1. IInv => NoLostRequest
  BY DEF IInv
<1>. QED
  BY <1>1, Invariance, PTL

\* While a Window waits, no other Window is taken from the queue twice.
THEOREM QueueIsFair == Spec => [](NoDuplicates /\ RoundRobin)
<1>1. IInv => NoDuplicates /\ RoundRobin
  BY DEF IInv
<1>. QED
  BY <1>1, Invariance, PTL

\* No Window is destroyed while it is drawn.
THEOREM FramesAreSafe == Spec => []DrawnIsAlive
<1>1. IInv => DrawnIsAlive
  BY DEF IInv
<1>. QED
  BY <1>1, Invariance, PTL

\* The render thread sleeps on a nonempty queue only if it is about to be woken.
THEOREM NoMissedRequest == Spec => []SleepsWithoutWork
<1>1. IInv => SleepsWithoutWork
  BY DEF IInv
<1>. QED
  BY <1>1, Invariance, PTL
=============================================================================
