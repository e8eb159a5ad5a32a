------------------------- MODULE Application_proofs -------------------------
(***************************************************************************)
(* Safety of the main loop and of the shutdown, for every set of actors    *)
(* and Windows and every capacity of the queue.                            *)
(***************************************************************************)
EXTENDS Application, TLAPS

\* Only a creation is waited for.
AwaitsCreation ==
  \A p \in Actors : pc[p] = "await" => call[p].kind = "create"

\* Where main is before the loop, and after it.
MainPlaces ==
  /\ pc[Main] \in MainPositions
  /\ state = "UNSTARTED" => pc[Main] \in {"setup", "push", "post"}
  /\ pc[Main] = "setup" => state = "UNSTARTED"
  /\ pc[Main] \in {"timers", "close", "join", "lock"} => state = "CLOSED"

\* NoLostWakeup, also for what is scheduled before exec.
WakeupComes ==
  queue # <<>> /\ (pc[Main] = "wait" \/ state = "UNSTARTED") =>
    posted \/ \E p \in Actors : pc[p] = "post"

\* Who has been joined, stage by stage.
JoinedInOrder ==
  /\ handler = "ended" => \A f \in Fibers : ~ Busy(f)
  /\ state = "CLOSED" /\ pc[Main] \in {"close", "join", "lock", "clear", "done"} =>
       \A t \in Timers : ~ Busy(t)
  /\ pc[Main] = "lock" => handler = "ended"

\* The inductive invariant.
IInv ==
  /\ TypeOK
  /\ AwaitsCreation
  /\ MainPlaces
  /\ WakeupComes
  /\ JoinedInOrder
  /\ ClearedAlone

\* A function to schedule is an event, whatever it is called for.
LEMMA EventTypes ==
  /\ \A x \in Actors \cup Windows, k \in {"work", "stop", "shutdown"} :
       Event(k, x) \in Events
  /\ \A w \in Windows, k \in {"create", "destroy"} : Event(k, w) \in Events
BY DEF Event, Events

\* Before exec nothing is scheduled and nobody runs.
LEMMA InitIInv == Init => IInv
<1> SUFFICES ASSUME Init PROVE IInv
  OBVIOUS
<1> USE DEF Init
<1>1. TypeOK
  <2>1. call \in [Actors -> Events]
    BY EventTypes
  <2>2. pc \in [Actors -> Positions]
    BY DEF Positions, MainPositions
  <2> QED
    <3>1. queue \in Seq(Events) /\ Len(queue) = 0
      OBVIOUS
    <3>2. Len(queue) <= Capacity
      BY <3>1, CapacityAssumption
    <3> QED
      BY <2>1, <2>2, <3>1, <3>2 DEF TypeOK
<1>2. pc[Main] = "setup" /\ \A p \in Others : pc[p] = "idle"
  BY ActorsAssumption DEF Actors, Others
<1>3. AwaitsCreation
  BY DEF AwaitsCreation
<1>4. MainPlaces /\ WakeupComes
  BY <1>2 DEF MainPlaces, MainPositions, WakeupComes
<1>5. JoinedInOrder /\ ClearedAlone
  BY <1>2 DEF JoinedInOrder, ClearedAlone
<1> QED
  BY <1>1, <1>3, <1>4, <1>5 DEF IInv

\* A step of schedule, by whoever takes it.
LEMMA ScheduleStep ==
  ASSUME IInv, NEW p \in Actors, Schedule(p)
  PROVE  IInv'
<1>1. /\ pc[p] \in {"check", "push", "post"}
      /\ \A q \in Actors \ {p} : pc'[q] = pc[q]
      /\ UNCHANGED <<state, windows, answer, ui, handler, closing, call, ran>>
  BY DEF IInv, TypeOK, Schedule, Check, Push, Post, Goto
<1>2. Busy(p)
  BY <1>1 DEF Busy
<1>3. Return(p) \in {"setup", "pop", "await", "done"}
  BY DEF Return
<1>4. /\ queue' \in Seq(Events) /\ Len(queue') <= Capacity
      /\ posted' \in BOOLEAN
      /\ pc' \in [Actors -> Positions]
  <2>1. CASE Check(p)
    BY <2>1 DEF Check, Goto, IInv, TypeOK, Positions, MainPositions
  <2>2. CASE Push(p)
    <3>1. call[p] \in Events
      BY DEF IInv, TypeOK
    <3>2. queue \in Seq(Events) /\ Len(queue) \in Nat /\ Len(queue) < Capacity
      BY <2>2, CapacityAssumption DEF Push, Full, IInv, TypeOK
    <3>3. queue' \in Seq(Events) /\ Len(queue') = Len(queue) + 1
      BY <2>2, <3>1, <3>2 DEF Push
    <3> QED
      BY <2>2, <3>2, <3>3, CapacityAssumption
         DEF Push, Goto, IInv, TypeOK, Positions, MainPositions
  <2>3. CASE Post(p)
    BY <2>3, <1>3 DEF Post, Goto, IInv, TypeOK, Positions, MainPositions
  <2> QED
    BY <2>1, <2>2, <2>3 DEF Schedule
<1>5. TypeOK'
  BY <1>1, <1>4 DEF IInv, TypeOK
<1>6. AwaitsCreation'
  <2>1. pc'[p] = "await" => call[p].kind = "create"
    BY <1>4 DEF Schedule, Check, Push, Post, Goto, Return, IInv, TypeOK
  <2> QED
    BY <1>1, <2>1 DEF IInv, AwaitsCreation
<1>7. MainPlaces'
  <2>1. CASE p # Main
    BY <1>1, <2>1 DEF IInv, MainPlaces, Actors
  <2>2. CASE p = Main
    <3>1. pc[Main] \in {"push", "post"}
      BY <1>1, <2>2 DEF IInv, MainPlaces, MainPositions
    <3>2. pc'[Main] = "post" \/ pc'[Main] = Return(Main)
      BY <2>2, <3>1 DEF Schedule, Check, Push, Post, Goto, IInv, TypeOK
    <3> QED
      BY <1>1, <3>2 DEF Return, MainPlaces, MainPositions
  <2> QED
    BY <2>1, <2>2
<1>8. WakeupComes'
  <2>1. CASE Push(p)
    BY <2>1 DEF Push, Goto, IInv, TypeOK, WakeupComes
  <2>2. CASE Post(p)
    BY <2>2 DEF Post, WakeupComes
  <2>3. CASE Check(p)
    <3>1. pc[p] = "check" /\ UNCHANGED <<queue, posted, state>> /\ p # Main
      BY <2>3 DEF Check, IInv, MainPlaces, MainPositions
    <3>2. pc'[Main] = pc[Main] /\ \A q \in Actors : pc[q] = "post" => pc'[q] = "post"
      BY <1>1, <3>1 DEF Actors
    <3> QED
      BY <3>1, <3>2 DEF IInv, WakeupComes
  <2> QED
    BY <2>1, <2>2, <2>3 DEF Schedule
<1>9. \A q \in Actors : ~ Busy(q) => ~ Busy(q)'
  BY <1>1, <1>2 DEF Busy
<1>10. pc'[Main] \in {"close", "join", "lock", "clear", "done"} => pc'[Main] = pc[Main]
  <2>1. CASE p # Main
    BY <1>1, <2>1 DEF Actors
  <2>2. CASE p = Main
    BY <1>1, <2>2 DEF Schedule, Check, Push, Post, Goto, Return, IInv, TypeOK,
                      MainPlaces, MainPositions
  <2> QED
    BY <2>1, <2>2
<1>11. JoinedInOrder' /\ ClearedAlone'
  BY <1>1, <1>9, <1>10
     DEF IInv, JoinedInOrder, ClearedAlone, Joined, Actors, Others
<1> QED
  BY <1>5, <1>6, <1>7, <1>8, <1>11 DEF IInv

\* An actor begins a call, or goes on with one.
LEMMA CallStep ==
  ASSUME IInv, NEW p \in Others, Begin(p) \/ Created(p)
  PROVE  IInv'
<1>1. /\ p # Main /\ p \in Actors /\ Main \in Actors
      /\ pc[p] \in {"idle", "await"}
      /\ pc'[p] \in {"check", "done"}
      /\ pc' = [pc EXCEPT ![p] = pc'[p]]
      /\ \A q \in Actors \ {p} : pc'[q] = pc[q]
      /\ UNCHANGED <<state, queue, posted, answer, ui, handler, closing, ran>>
  BY ActorsAssumption
     DEF IInv, TypeOK, Begin, MayCall, Created, Goto, Actors
<1>2. call' \in [Actors -> Events] /\ windows' \in SUBSET Windows
  <2>1. CASE Begin(p)
    <3>1. Calls(p) \subseteq Events
      BY <1>1, EventTypes DEF Calls
    <3>2. PICK e \in Calls(p) : call' = [call EXCEPT ![p] = e]
      BY <2>1 DEF Begin
    <3> QED
      BY <2>1, <3>1, <3>2 DEF Begin, IInv, TypeOK
  <2>2. CASE Created(p)
    <3>1. call[p].of \in Windows
      <4>1. call[p].kind = "create" /\ call[p] \in Events
        BY <1>1, <2>2 DEF Created, IInv, AwaitsCreation, TypeOK
      <4> QED
        BY <4>1 DEF Events
    <3>2. Event("work", call[p].of) \in Events
      BY <3>1, EventTypes
    <3> QED
      BY <2>2, <3>1, <3>2 DEF Created, IInv, TypeOK
  <2> QED
    BY <2>1, <2>2
<1>3. pc' \in [Actors -> Positions]
  BY <1>1 DEF IInv, TypeOK, Positions, MainPositions
<1>4. TypeOK'
  BY <1>1, <1>2, <1>3 DEF IInv, TypeOK
<1>5. AwaitsCreation'
  <2>1. \A q \in Actors \ {p} : call'[q] = call[q]
    BY DEF Begin, Created, IInv, TypeOK
  <2> QED
    BY <1>1, <2>1 DEF IInv, AwaitsCreation
<1>6. pc'[Main] = pc[Main] /\ \A q \in Actors : pc[q] = "post" => pc'[q] = "post"
  BY <1>1
<1>7. MainPlaces' /\ WakeupComes'
  BY <1>1, <1>6 DEF IInv, MainPlaces, WakeupComes
<1>8. \A q \in Joined : ~ Busy(q) /\ q # p => ~ Busy(q)'
  BY <1>1 DEF Busy, Actors, Others
<1>9. JoinedInOrder' /\ ClearedAlone'
  <2>1. CASE Created(p)
    <3>1. Busy(p)
      BY <2>1 DEF Created, Busy
    <3> QED
      BY <1>1, <1>6, <1>8, <3>1 DEF IInv, JoinedInOrder, ClearedAlone, Joined
  <2>2. CASE Begin(p)
    <3>1. p \in Fibers => handler \in {"running", "ending"}
      BY <2>2 DEF Begin, MayCall
    <3>2. p \in Timers => ~ (state = "CLOSED" /\ pc[Main] \in {"close", "join", "lock", "clear", "done"})
      BY <2>2 DEF Begin, MayCall, TimersRun
    <3>3. state = "CLOSED" /\ pc[Main] \in {"clear", "done"} => handler = "ended"
      BY DEF IInv, ClearedAlone
    <3>4. JoinedInOrder'
      BY <1>1, <1>6, <1>8, <3>1, <3>2 DEF IInv, JoinedInOrder, Joined
    <3>5. ClearedAlone'
      BY <1>1, <1>6, <1>8, <3>1, <3>2, <3>3 DEF IInv, ClearedAlone, Joined
    <3> QED
      BY <3>4, <3>5
  <2> QED
    BY <2>1, <2>2
<1> QED
  BY <1>4, <1>5, <1>7, <1>9 DEF IInv

\* The event handler's thread takes the ui thread over, or gives it back.
LEMMA HandlerStep ==
  ASSUME IInv, HandlerStarts \/ HandlerLetsGo \/ HandlerEnds
  PROVE  IInv'
<1>1. UNCHANGED <<state, queue, posted, windows, answer, closing, pc, call, ran>>
  BY DEF HandlerStarts, HandlerLetsGo, HandlerEnds
<1>2. TypeOK'
  BY <1>1 DEF HandlerStarts, HandlerLetsGo, HandlerEnds, IInv, TypeOK
<1>3. AwaitsCreation' /\ MainPlaces' /\ WakeupComes'
  BY <1>1 DEF IInv, AwaitsCreation, MainPlaces, WakeupComes
<1>4. \A q \in Joined : Busy(q)' <=> Busy(q)
  BY <1>1 DEF Busy
<1>5. JoinedInOrder' /\ ClearedAlone'
  BY <1>1, <1>4 DEF HandlerStarts, HandlerLetsGo, HandlerEnds, IInv, JoinedInOrder, ClearedAlone, Joined
<1> QED
  BY <1>2, <1>3, <1>5 DEF IInv

\* Main opens a Window, starts the loop or goes to sleep in it.
LEMMA StartStep ==
  ASSUME IInv, Exec \/ WaitEvents \/ PopEmpty \/ \E w \in Windows : OpenFirst(w)
  PROVE  IInv'
<1>1. /\ Main \in Actors
      /\ pc[Main] \in {"setup", "wait", "pop"}
      /\ \A q \in Actors \ {Main} : pc'[q] = pc[q]
      /\ UNCHANGED <<queue, answer, closing, ran>>
  BY DEF Exec, WaitEvents, PopEmpty, OpenFirst, Goto, IInv, TypeOK, Actors
<1>2. TypeOK'
  <2>1. CASE \E w \in Windows : OpenFirst(w)
    <3>1. PICK w \in Windows : OpenFirst(w)
      BY <2>1
    <3>2. Event("work", w) \in Events
      BY EventTypes
    <3> QED
      BY <3>1, <3>2 DEF OpenFirst, Goto, IInv, TypeOK, Positions, MainPositions
  <2>2. CASE Exec
    BY <2>2 DEF Exec, Goto, IInv, TypeOK, Positions, MainPositions
  <2>3. CASE WaitEvents \/ PopEmpty
    BY <2>3 DEF WaitEvents, PopEmpty, Goto, IInv, TypeOK, Positions, MainPositions
  <2> QED
    BY <2>1, <2>2, <2>3
<1>3. AwaitsCreation'
  <2>1. \A q \in Actors \ {Main} : call'[q] = call[q]
    BY DEF Exec, WaitEvents, PopEmpty, OpenFirst, IInv, TypeOK
  <2>2. pc'[Main] # "await"
    BY <1>1 DEF Exec, WaitEvents, PopEmpty, OpenFirst, Goto, IInv, TypeOK
  <2> QED
    BY <1>1, <2>1, <2>2 DEF IInv, AwaitsCreation
<1>4. \/ /\ pc[Main] = "setup" /\ pc'[Main] = "push" /\ state' = state /\ posted' = posted
         /\ handler' = handler /\ ui' = ui
      \/ /\ pc[Main] = "setup" /\ pc'[Main] \in {"wait", "clear"} /\ state' = "RUNNING"
         /\ posted' = posted
         /\ pc'[Main] = "clear" => handler' = handler
         /\ handler' \in {handler, "starting"}
      \/ /\ pc[Main] = "wait" /\ pc'[Main] = "pop" /\ state' = state
         /\ handler' = handler /\ ui' = ui
      \/ /\ pc[Main] = "pop" /\ queue = <<>> /\ state' = state
         /\ pc'[Main] = (IF state = "RUNNING" THEN "wait" ELSE "timers")
         /\ handler' = handler /\ ui' = ui
  BY <1>1 DEF Exec, WaitEvents, PopEmpty, OpenFirst, Goto, IInv, TypeOK
<1>5. MainPlaces'
  BY <1>4 DEF IInv, TypeOK, MainPlaces, MainPositions
<1>6. WakeupComes'
  <2>1. CASE pc[Main] = "setup"
    <3>1. state = "UNSTARTED" /\ posted' = posted
      BY <1>4, <2>1 DEF IInv, MainPlaces
    <3>2. \A q \in Actors : pc[q] = "post" => pc'[q] = "post"
      BY <1>1, <2>1
    <3> QED
      BY <1>1, <3>1, <3>2 DEF IInv, WakeupComes
  <2>2. CASE pc[Main] \in {"wait", "pop"}
    <3>1. state # "UNSTARTED" /\ state' = state
      BY <1>4, <2>2 DEF IInv, MainPlaces
    <3> QED
      BY <1>1, <1>4, <2>2, <3>1 DEF WakeupComes
  <2> QED
    BY <1>1, <2>1, <2>2
<1>7. \A q \in Joined : Busy(q)' <=> Busy(q)
  BY <1>1, ActorsAssumption DEF Busy, Joined, Actors, Others
<1>8. JoinedInOrder' /\ ClearedAlone'
  BY <1>4, <1>7 DEF IInv, JoinedInOrder, ClearedAlone, Joined
<1> QED
  BY <1>2, <1>3, <1>5, <1>6, <1>8 DEF IInv

\* Main runs the next event, or drops it because the Application is closed.
LEMMA PopStep ==
  ASSUME IInv, TryPop
  PROVE  IInv'
<1>1. /\ Main \in Actors
      /\ pc[Main] = "pop"
      /\ UNCHANGED <<posted, ui, handler, closing>>
  BY DEF TryPop, Actors
<1>2. Head(queue) \in Events /\ Tail(queue) \in Seq(Events)
      /\ Len(Tail(queue)) <= Capacity
  BY CapacityAssumption DEF TryPop, IInv, TypeOK
<1>3. Event("shutdown", Main) \in Events
  BY <1>1, EventTypes
<1>4. CASE state # "RUNNING"
  <2>1. /\ pc' = [pc EXCEPT ![Main] = "timers"]
        /\ UNCHANGED <<state, windows, answer, call, ran>>
    BY <1>4 DEF TryPop, Goto
  <2>2. state = "CLOSED"
    BY <1>1, <1>4 DEF IInv, TypeOK, MainPlaces
  <2>3. TypeOK'
    BY <1>1, <1>2, <2>1 DEF TryPop, IInv, TypeOK, Positions, MainPositions
  <2>4. AwaitsCreation' /\ MainPlaces' /\ WakeupComes'
    BY <1>1, <2>1, <2>2
       DEF IInv, TypeOK, AwaitsCreation, MainPlaces, MainPositions, WakeupComes
  <2>5. \A q \in Joined : Busy(q)' <=> Busy(q)
    BY <2>1, ActorsAssumption DEF Busy, Joined, Actors, Others, IInv, TypeOK
  <2>6. JoinedInOrder' /\ ClearedAlone'
    BY <1>1, <2>1, <2>5 DEF IInv, TypeOK, JoinedInOrder, ClearedAlone, Joined
  <2> QED
    BY <2>3, <2>4, <2>6 DEF IInv
<1>5. CASE state = "RUNNING"
  <2>1. Run(Head(queue)) /\ ran' = ran \cup {Head(queue)} /\ queue' = Tail(queue)
    BY <1>5 DEF TryPop
  <2>2. \/ Idle
        \/ /\ call' = [call EXCEPT ![Main] = Event("shutdown", Main)]
           /\ pc' = [pc EXCEPT ![Main] = "push"]
        \/ /\ UNCHANGED call
           /\ pc' = [pc EXCEPT ![Main] = "failed"]
    BY <2>1 DEF Run, Erase, ShutdownByMain, Throw, Goto
  <2>3. state' \in {"RUNNING", "CLOSED"}
    BY <1>5, <2>1 DEF Run, Throw
  <2>4. windows' \in SUBSET Windows
    BY <2>1 DEF Run, Erase, Throw, IInv, TypeOK
  <2>5. answer' \in [Windows -> {"none", "made", "failed"}]
    <3>1. UNCHANGED answer \/ \E a \in {"made", "failed"} : answer' = [answer EXCEPT ![Head(queue).of] = a]
      BY <2>1 DEF Run, Throw
    <3> QED
      BY <3>1 DEF IInv, TypeOK
  <2>6. call' \in [Actors -> Events] /\ pc' \in [Actors -> Positions]
    BY <1>3, <2>2 DEF Idle, IInv, TypeOK, Positions, MainPositions
  <2>7. TypeOK'
    BY <1>1, <1>2, <2>1, <2>3, <2>4, <2>5, <2>6 DEF IInv, TypeOK
  <2>8. /\ pc'[Main] \in {"pop", "push", "failed"}
        /\ \A q \in Actors \ {Main} : pc'[q] = pc[q] /\ call'[q] = call[q]
    BY <1>1, <2>2 DEF Idle, IInv, TypeOK
  <2>9. AwaitsCreation'
    BY <2>8 DEF IInv, AwaitsCreation
  <2>10. MainPlaces' /\ WakeupComes'
    BY <2>3, <2>8 DEF MainPlaces, MainPositions, WakeupComes
  <2>11. \A q \in Joined : Busy(q)' <=> Busy(q)
    BY <2>8, ActorsAssumption DEF Busy, Joined, Actors, Others
  <2>12. JoinedInOrder' /\ ClearedAlone'
    BY <1>1, <2>8, <2>11 DEF IInv, JoinedInOrder, ClearedAlone, Joined
  <2> QED
    BY <2>7, <2>9, <2>10, <2>12 DEF IInv
<1> QED
  BY <1>4, <1>5

\* Main joins the others, takes the ui thread back and clears the managers.
LEMMA StopStep ==
  ASSUME IInv, Stop
  PROVE  IInv'
<1>1. /\ Main \in Actors
      /\ pc[Main] \in {"timers", "close", "join", "lock", "clear"}
      /\ pc' = [pc EXCEPT ![Main] = pc'[Main]]
      /\ pc'[Main] \in {"close", "join", "lock", "clear", "done"}
      /\ \A q \in Actors \ {Main} : pc'[q] = pc[q]
      /\ UNCHANGED <<state, queue, posted, answer, handler, call, ran>>
  BY DEF Stop, CloseTimers, CloseHandler, Join, Lock, Clear, Goto, IInv, TypeOK, Actors
<1>2. TypeOK'
  <2>1. windows' \in SUBSET Windows /\ ui' \in {"main", "none", "handler"} /\ closing' \in BOOLEAN
    BY DEF Stop, CloseTimers, CloseHandler, Join, Lock, Clear, IInv, TypeOK
  <2>2. pc' \in [Actors -> Positions]
    BY <1>1 DEF IInv, TypeOK, Positions, MainPositions
  <2> QED
    BY <1>1, <2>1, <2>2 DEF IInv, TypeOK
<1>3. AwaitsCreation'
  BY <1>1 DEF IInv, AwaitsCreation
<1>4. state # "UNSTARTED"
  BY <1>1 DEF IInv, MainPlaces
<1>5. MainPlaces'
  BY <1>1, <1>4 DEF Stop, CloseTimers, CloseHandler, Join, Lock, Clear, Goto,
                    IInv, TypeOK, MainPlaces, MainPositions
<1>6. WakeupComes'
  BY <1>1, <1>4 DEF WakeupComes
<1>7. \A q \in Joined : Busy(q)' <=> Busy(q)
  BY <1>1, ActorsAssumption DEF Busy, Joined, Actors, Others
<1>8. JoinedInOrder'
  <2>1. pc[Main] = "timers" => \A t \in Timers : ~ Busy(t)
    BY <1>1 DEF Stop, CloseTimers, CloseHandler, Join, Lock, Clear
  <2>2. state = "CLOSED" => \A t \in Timers : ~ Busy(t)
    BY <1>1, <2>1 DEF IInv, JoinedInOrder
  <2>3. pc'[Main] = "lock" => handler = "ended"
    BY <1>1 DEF Stop, CloseTimers, CloseHandler, Join, Lock, Clear, Goto, IInv, TypeOK
  <2> QED
    BY <1>1, <1>7, <2>2, <2>3 DEF IInv, JoinedInOrder, Joined
<1>9. ClearedAlone'
  <2>1. CASE pc[Main] \in {"timers", "close", "join"}
    BY <1>1, <2>1 DEF Stop, CloseTimers, CloseHandler, Join, Lock, Clear, Goto,
                      IInv, TypeOK, ClearedAlone
  <2>2. CASE pc[Main] = "lock"
    <3>1. ui' = "main" /\ handler = "ended" /\ state = "CLOSED"
      BY <2>2 DEF Stop, CloseTimers, CloseHandler, Join, Lock, Clear,
                  IInv, JoinedInOrder, MainPlaces
    <3> QED
      BY <1>1, <1>7, <2>2, <3>1 DEF IInv, JoinedInOrder, ClearedAlone, Joined
  <2>3. CASE pc[Main] = "clear"
    <3>1. ui' = ui
      BY <2>3 DEF Stop, CloseTimers, CloseHandler, Join, Lock, Clear
    <3> QED
      BY <1>1, <1>7, <2>3, <3>1 DEF IInv, ClearedAlone
  <2> QED
    BY <1>1, <2>1, <2>2, <2>3
<1> QED
  BY <1>2, <1>3, <1>5, <1>6, <1>8, <1>9 DEF IInv

\* The invariant holds in every reachable state: one lemma for each of the
\* parts of Next, and a step that changes nothing.
THEOREM Invariance == Spec => []IInv
<1>1. ASSUME IInv, [Next]_vars PROVE IInv'
  <2>1. CASE UNCHANGED vars
    BY <1>1, <2>1
       DEF vars, IInv, TypeOK, AwaitsCreation, MainPlaces, WakeupComes,
           JoinedInOrder, ClearedAlone, Busy
  <2>2. CASE Exec \/ WaitEvents \/ PopEmpty \/ \E w \in Windows : OpenFirst(w)
    BY <1>1, <2>2, StartStep
  <2>3. CASE TryPop
    BY <1>1, <2>3, PopStep
  <2>4. CASE Stop
    BY <1>1, <2>4, StopStep
  <2>5. CASE HandlerStarts \/ HandlerLetsGo \/ HandlerEnds
    BY <1>1, <2>5, HandlerStep
  <2>6. ASSUME NEW p \in Others, Begin(p) \/ Created(p) PROVE IInv'
    BY <1>1, <2>6, CallStep
  <2>7. ASSUME NEW p \in Actors, Schedule(p) PROVE IInv'
    BY <1>1, <2>7, ScheduleStep
  <2> QED
    BY <1>1, <2>1, <2>2, <2>3, <2>4, <2>5, <2>6, <2>7 DEF Next, Loop
<1> QED
  BY InitIInv, <1>1, PTL DEF Spec

\* Every variable keeps its type, and the queue its capacity, whatever is
\* scheduled.
THEOREM Typing == Spec => []TypeOK
BY Invariance, PTL DEF IInv

\* Main never sleeps over an event: whoever has pushed one has posted a wake-up,
\* or is about to (Application::schedule).
THEOREM Wakeup == Spec => []NoLostWakeup
<1>1. IInv => NoLostWakeup
  BY DEF IInv, WakeupComes, NoLostWakeup
<1> QED
  BY <1>1, Invariance, PTL

\* The managers are destroyed by the ui thread and by nobody else's side: exec
\* has joined the timers and the event handler, and holds the mutex again.
THEOREM Clearing == Spec => []ClearedAlone
BY Invariance, PTL DEF IInv

\* No step runs an event once the Application is closed, for every queue that
\* the shutdown leaves behind.
THEOREM Silence == Spec => NothingRunsAfterClose
<1>1. ASSUME [Next]_vars PROVE state = "CLOSED" => UNCHANGED ran
  BY <1>1 DEF Next, vars, Exec, WaitEvents, Loop, TryPop, PopEmpty, Stop, CloseTimers,
              CloseHandler, Join, Lock, Clear, HandlerStarts, HandlerLetsGo, HandlerEnds,
              OpenFirst, Begin, Created, Schedule, Check, Push, Post
<1>2. ASSUME [Next]_vars PROVE [state = "CLOSED" => UNCHANGED ran]_vars
  BY <1>1, <1>2
<1> QED
  BY <1>2, PTL DEF Spec, NothingRunsAfterClose
=============================================================================
