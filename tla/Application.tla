----------------------------- MODULE Application -----------------------------
(***************************************************************************)
(* The main loop, its event queue and the shutdown of the program,         *)
(* src/src/app/application.cpp.                                            *)
(*                                                                         *)
(* Main runs exec: it hands the ui thread over to the event handler, runs  *)
(* the functions that others schedule, and joins everybody when it is told *)
(* to shut down.  The other actors are user threads, timers (fibers of the *)
(* thread of the TimerPool) and fibers of the event handler's thread; each *)
(* of them makes one call.  Only a fiber is on the ui thread, and so only  *)
(* a fiber opens or closes a Window while exec runs.                       *)
(***************************************************************************)
EXTENDS Naturals, Sequences

CONSTANTS Main,       \* the main thread
          Threads,    \* user threads, joined by nobody
          Timers,     \* callbacks of timers, joined with the TimerPool
          Fibers,     \* events of the EventHandler, joined with it
          Windows,    \* every GLFW window that is ever made
          Capacity,   \* places in m_event_queue
          StartWithoutWindows  \* the argument start_without_windows

Joined == Timers \cup Fibers
Others == Threads \cup Joined
Actors == Others \cup {Main}

ASSUME ActorsAssumption == /\ Main \notin Others
                           /\ Threads \cap Joined = {}
                           /\ Timers \cap Fibers = {}
ASSUME CapacityAssumption == Capacity \in Nat \ {0}

\* What a scheduled function does: "work" is of no concern to the Application
\* (the registration of the callbacks of a Window is one), "stop" calls
\* shutdown(), "shutdown" is the function that shutdown() schedules.
Events == [kind : {"work", "stop", "shutdown"}, of : Actors \cup Windows]
            \cup [kind : {"create", "destroy"}, of : Windows]

Event(kind, of) == [kind |-> kind, of |-> of]

VARIABLES
  state,    \* m_state
  queue,    \* m_event_queue
  posted,   \* an event waits for glfwWaitEvents
  windows,  \* m_windows
  answer,   \* the promise of Window::create
  ui,       \* who holds m_ui_mutex
  handler,  \* the thread of the event handler
  closing,  \* the channel of the event handler is closed
  pc,       \* position of each actor
  call,     \* the event that each actor schedules
  ran       \* history: the events that were run

vars == <<state, queue, posted, windows, answer, ui, handler, closing, pc, call, ran>>

MainPositions == {"setup", "wait", "pop", "push", "post",
                  "timers", "close", "join", "lock", "clear", "done", "failed"}
Positions == MainPositions \cup {"idle", "check", "await"}

Full == Len(queue) >= Capacity

\* An actor inside of a call.
Busy(p) == pc[p] \notin {"idle", "done"}

\* exec has been left by an exception.  What its caller does then is not modelled.
Failed == pc[Main] = "failed"

Goto(p, position) == pc' = [pc EXCEPT ![p] = position]

\* In exec's loop.
Looping == pc[Main] \in {"wait", "pop", "push", "post"} /\ state # "UNSTARTED"

Init ==
  /\ state = "UNSTARTED"
  /\ queue = <<>>
  /\ posted = FALSE
  /\ windows = {}
  /\ answer = [w \in Windows |-> "none"]
  /\ ui = "main"
  /\ handler = "idle"
  /\ closing = FALSE
  /\ pc = [p \in Actors |-> IF p = Main THEN "setup" ELSE "idle"]
  /\ call = [p \in Actors |-> Event("work", p)]
  /\ ran = {}

-----------------------------------------------------------------------------
(* Application::schedule *)

\* The promise of a creation that is not queued dies with its event.
Check(p) ==
  /\ pc[p] = "check"
  /\ Goto(p, IF state = "CLOSED" THEN "done" ELSE "push")
  /\ UNCHANGED <<state, queue, posted, windows, answer, ui, handler, closing, call, ran>>

\* Mutant of Push: the queue has no limit.
PushUnbounded(p) ==
  /\ pc[p] = "push"
  /\ queue' = Append(queue, call[p])
  /\ Goto(p, "post")
  /\ UNCHANGED <<state, posted, windows, answer, ui, handler, closing, call, ran>>

\* Blocks while the queue is full.  The queue is never closed.
Push(p) ==
  /\ pc[p] = "push" /\ ~ Full
  /\ queue' = Append(queue, call[p])
  /\ Goto(p, "post")
  /\ UNCHANGED <<state, posted, windows, answer, ui, handler, closing, call, ran>>

\* Where a call of schedule returns to.
Return(p) ==
  IF p = Main THEN (IF state = "UNSTARTED" THEN "setup" ELSE "pop")
  ELSE IF call[p].kind = "create" THEN "await"
  ELSE "done"

\* Mutant of Post: glfwWaitEvents is not woken.
PostNothing(p) ==
  /\ pc[p] = "post"
  /\ Goto(p, Return(p))
  /\ UNCHANGED <<state, queue, posted, windows, answer, ui, handler, closing, call, ran>>

Post(p) ==
  /\ pc[p] = "post"
  /\ posted' = TRUE
  /\ Goto(p, Return(p))
  /\ UNCHANGED <<state, queue, windows, answer, ui, handler, closing, call, ran>>

Schedule(p) == Check(p) \/ Push(p) \/ Post(p)

-----------------------------------------------------------------------------
(* Calls of the other actors *)

\* The TimerPool is destroyed after the loop, or by _clear_managers.
TimersRun == \/ pc[Main] \in {"setup", "wait", "pop", "push", "post", "timers"}
             \/ pc[Main] = "clear" /\ state # "CLOSED"

MayCall(p) == /\ pc[p] = "idle"
              /\ p \in Timers => TimersRun
              /\ p \in Fibers => handler \in {"running", "ending"}

\* A Window is closed once, when it has been opened.
Open(w) == /\ w \in windows
           /\ \A p \in Others : Busy(p) => call[p].of # w
           /\ \A p \in Fibers : call[p] # Event("destroy", w)

Calls(p) ==
  {Event("work", p), Event("stop", p), Event("shutdown", Main)} \cup
  IF p \notin Fibers THEN {}
  ELSE {Event("destroy", w) : w \in {v \in Windows : Open(v)}} \cup
       {Event("create", w) : w \in {v \in Windows \ windows : answer[v] = "none"
                                      /\ \A q \in Others : call[q].of # v}}

Begin(p) ==
  /\ MayCall(p)
  /\ \E e \in Calls(p) : call' = [call EXCEPT ![p] = e]
  /\ Goto(p, "check")
  /\ UNCHANGED <<state, queue, posted, windows, answer, ui, handler, closing, ran>>

\* The future is ready.  A Window that was made registers itself and schedules
\* the registration of its callbacks.
Created(p) ==
  LET w == call[p].of IN
  /\ pc[p] = "await"
  /\ \/ /\ answer[w] = "failed"
        /\ Goto(p, "done")
        /\ UNCHANGED <<windows, call>>
     \/ /\ answer[w] = "made"
        /\ windows' = windows \cup {w}
        /\ call' = [call EXCEPT ![p] = Event("work", w)]
        /\ Goto(p, "check")
  /\ UNCHANGED <<state, queue, posted, answer, ui, handler, closing, ran>>

-----------------------------------------------------------------------------
(* The thread of the event handler *)

HandlerStarts ==
  /\ handler = "starting" /\ ui = "none"
  /\ handler' = "running"
  /\ ui' = "handler"
  /\ UNCHANGED <<state, queue, posted, windows, answer, closing, pc, call, ran>>

\* The loop ends when its channel is closed.  The thread's function returns and
\* unlocks the mutex while fibers of events that block are still there.  They go
\* on as before: whoever asks is taken for the ui thread while nobody holds it.
HandlerLetsGo ==
  /\ handler = "running" /\ closing
  /\ \A f \in Fibers : Busy(f) => pc[f] \in {"push", "await"}
  /\ handler' = "ending"
  /\ ui' = "none"
  /\ UNCHANGED <<state, queue, posted, windows, answer, closing, pc, call, ran>>

\* The thread ends with the last fiber on it.
HandlerEnds ==
  /\ handler = "ending"
  /\ \A f \in Fibers : ~ Busy(f)
  /\ handler' = "ended"
  /\ UNCHANGED <<state, queue, posted, windows, answer, ui, closing, pc, call, ran>>

-----------------------------------------------------------------------------
(* The main thread *)

\* A Window opened by main before exec.
OpenFirst(w) ==
  /\ pc[Main] = "setup" /\ w \notin windows /\ \A p \in Others : call[p].of # w
  /\ windows' = windows \cup {w}
  /\ call' = [call EXCEPT ![Main] = Event("work", w)]
  /\ Goto(Main, "push")
  /\ UNCHANGED <<state, queue, posted, answer, ui, handler, closing, ran>>

\* The handler's thread waits for the mutex until main has unlocked it.
Exec ==
  /\ pc[Main] = "setup" /\ state = "UNSTARTED"
  /\ state' = "RUNNING"
  /\ IF windows # {} \/ StartWithoutWindows
       THEN /\ handler' = "starting"
            /\ ui' = "none"
            /\ Goto(Main, "wait")
       ELSE /\ Goto(Main, "clear")
            /\ UNCHANGED <<ui, handler>>
  /\ UNCHANGED <<queue, posted, windows, answer, closing, call, ran>>

\* Input by the user wakes the loop as well as a posted event does.
WaitEvents ==
  /\ pc[Main] = "wait"
  /\ posted' = FALSE
  /\ Goto(Main, "pop")
  /\ UNCHANGED <<state, queue, windows, answer, ui, handler, closing, call, ran>>

\* main calls shutdown()
ShutdownByMain ==
  /\ call' = [call EXCEPT ![Main] = Event("shutdown", Main)]
  /\ Goto(Main, "push")

Idle == UNCHANGED <<pc, call>>

\* Mutant of Erase: the Application stays open without a Window.
EraseOnly(w) ==
  /\ windows' = windows \ {w}
  /\ Idle

\* The last Window takes the Application with it.
Erase(w) ==
  /\ windows' = windows \ {w}
  /\ IF windows' = {} THEN ShutdownByMain ELSE Idle

\* The function throws: one of another actor's, or a creation that finds no
\* monitor, whose promise is broken.  Nobody on the way out of exec catches it.
Throw(e) ==
  /\ \/ e.kind = "work" /\ e.of \in Actors /\ UNCHANGED answer
     \/ e.kind = "create" /\ answer' = [answer EXCEPT ![e.of] = "failed"]
  /\ Goto(Main, "failed")
  /\ UNCHANGED <<state, windows, call>>

Run(e) ==
  \/ /\ e.kind = "work"
     /\ Idle /\ UNCHANGED <<state, windows, answer>>
  \/ /\ e.kind = "stop"
     /\ ShutdownByMain /\ UNCHANGED <<state, windows, answer>>
  \/ /\ e.kind = "shutdown"
     /\ state' = "CLOSED"
     /\ Idle /\ UNCHANGED <<windows, answer>>
  \/ /\ e.kind = "create"
     /\ \E a \in {"made", "failed"} : answer' = [answer EXCEPT ![e.of] = a]
     /\ Idle /\ UNCHANGED <<state, windows>>
  \/ /\ e.kind = "destroy"
     /\ Erase(e.of) /\ UNCHANGED <<state, answer>>
  \/ Throw(e)

\* Mutant of TryPop: the queue is emptied before the state is looked at.
TryPopAll ==
  /\ pc[Main] = "pop" /\ queue # <<>>
  /\ queue' = Tail(queue)
  /\ ran' = ran \cup {Head(queue)}
  /\ Run(Head(queue))
  /\ UNCHANGED <<posted, ui, handler, closing>>

\* An event that is popped after the shutdown is dropped.
TryPop ==
  /\ pc[Main] = "pop" /\ queue # <<>>
  /\ queue' = Tail(queue)
  /\ IF state = "RUNNING"
       THEN ran' = ran \cup {Head(queue)} /\ Run(Head(queue))
       ELSE Goto(Main, "timers") /\ UNCHANGED <<state, windows, answer, call, ran>>
  /\ UNCHANGED <<posted, ui, handler, closing>>

PopEmpty ==
  /\ pc[Main] = "pop" /\ queue = <<>>
  /\ Goto(Main, IF state = "RUNNING" THEN "wait" ELSE "timers")
  /\ UNCHANGED <<state, queue, posted, windows, answer, ui, handler, closing, call, ran>>

CloseTimers ==
  /\ pc[Main] = "timers"
  /\ \A t \in Timers : ~ Busy(t)
  /\ Goto(Main, "close")
  /\ UNCHANGED <<state, queue, posted, windows, answer, ui, handler, closing, call, ran>>

CloseHandler ==
  /\ pc[Main] = "close"
  /\ closing' = TRUE
  /\ Goto(Main, "join")
  /\ UNCHANGED <<state, queue, posted, windows, answer, ui, handler, call, ran>>

\* Mutant of Join: main locks the mutex first and joins then.
JoinLocked ==
  /\ pc[Main] = "join"
  /\ ui = "main" \/ ui = "none"
  /\ ui' = "main"
  /\ IF handler = "ended" THEN Goto(Main, "lock") ELSE UNCHANGED pc
  /\ UNCHANGED <<state, queue, posted, windows, answer, handler, closing, call, ran>>

\* Mutant of Join: the thread is told to end, but not joined.
JoinNobody ==
  /\ pc[Main] = "join"
  /\ Goto(Main, "lock")
  /\ UNCHANGED <<state, queue, posted, windows, answer, ui, handler, closing, call, ran>>

Join ==
  /\ pc[Main] = "join" /\ handler = "ended"
  /\ Goto(Main, "lock")
  /\ UNCHANGED <<state, queue, posted, windows, answer, ui, handler, closing, call, ran>>

Lock ==
  /\ pc[Main] = "lock" /\ ui = "none"
  /\ ui' = "main"
  /\ Goto(Main, "clear")
  /\ UNCHANGED <<state, queue, posted, windows, answer, handler, closing, call, ran>>

\* _clear_managers joins the timers if the loop was never entered.
Clear ==
  /\ pc[Main] = "clear"
  /\ \A t \in Timers : ~ Busy(t)
  /\ windows' = {}
  /\ Goto(Main, "done")
  /\ UNCHANGED <<state, queue, posted, answer, ui, handler, closing, call, ran>>

Loop == TryPop \/ PopEmpty

Stop == CloseTimers \/ CloseHandler \/ Join \/ Lock \/ Clear

-----------------------------------------------------------------------------
Next ==
  \/ Exec \/ WaitEvents \/ Loop \/ Stop
  \/ HandlerStarts \/ HandlerLetsGo \/ HandlerEnds
  \/ \E w \in Windows : OpenFirst(w)
  \/ \E p \in Others : Begin(p) \/ Created(p)
  \/ \E p \in Actors : Schedule(p)

\* Every thread goes on where it can.  Nothing says that exec is called, that an
\* actor makes a call, or that the user gives any input.
Fairness ==
  /\ WF_vars(posted /\ WaitEvents)
  /\ WF_vars(Loop) /\ WF_vars(Stop)
  /\ WF_vars(HandlerStarts) /\ WF_vars(HandlerLetsGo) /\ WF_vars(HandlerEnds)
  /\ \A p \in Actors : WF_vars(Schedule(p))
  /\ \A p \in Others : WF_vars(Created(p))

Spec == Init /\ [][Next]_vars /\ Fairness

-----------------------------------------------------------------------------
(* Properties *)

\* The variables have their types; the queue keeps its capacity.
TypeOK ==
  /\ state \in {"UNSTARTED", "RUNNING", "CLOSED"}
  /\ queue \in Seq(Events) /\ Len(queue) <= Capacity
  /\ posted \in BOOLEAN
  /\ windows \in SUBSET Windows
  /\ answer \in [Windows -> {"none", "made", "failed"}]
  /\ ui \in {"main", "none", "handler"}
  /\ handler \in {"idle", "starting", "running", "ending", "ended"}
  /\ closing \in BOOLEAN
  /\ pc \in [Actors -> Positions]
  /\ call \in [Actors -> Events]
  /\ ran \in SUBSET Events

\* Main does not sleep over a scheduled event: if there is one, then a wake-up
\* is pending or about to be posted (application.cpp:165-166), also for an event
\* that was scheduled before exec.
NoLostWakeup ==
  pc[Main] = "wait" /\ queue # <<>> => posted \/ \E p \in Actors : pc[p] = "post"

\* application.hpp:138 "Anything scheduled after shutdown is ignored and will
\* never be executed": nothing is run once the Application is closed, also what
\* was queued by then.
NothingRunsAfterClose ==
  [][state = "CLOSED" => UNCHANGED ran]_vars

\* After a shutdown the managers are destroyed by the ui thread, and when no
\* timer and no event can use them any more (application.cpp:146-157).
ClearedAlone ==
  state = "CLOSED" /\ pc[Main] \in {"clear", "done"} =>
    /\ ui = "main" /\ handler = "ended"
    /\ \A p \in Joined : ~ Busy(p)

\* Main is its own queue's only consumer: in its own push it waits for itself.
Stuck == pc[Main] = "push" /\ Full

\* application.hpp:136: what another actor schedules is run, unless the
\* Application is closed first, a function throws or main blocks in a push of its
\* own.
ScheduledIsRun ==
  \A p \in Others :
    (state = "RUNNING" /\ \E i \in DOMAIN queue : queue[i] = Event("work", p))
      ~> (Event("work", p) \in ran \/ state = "CLOSED" \/ Stuck \/ ~ Looping)

\* The Application closes with its last Window (application.cpp:217), unless a
\* function throws or main blocks in a push of its own.
LastWindowCloses ==
  (state = "RUNNING" /\ Looping /\ windows = {} /\ ~ StartWithoutWindows)
    ~> (state = "CLOSED" \/ Stuck \/ Failed)

\* An actor that is waited for, and waits for the loop that main has left.
Abandoned(p) == /\ pc[Main] \in {"timers", "join"}
                /\ \/ pc[p] = "push" /\ Full
                   \/ pc[p] = "await" /\ answer[call[p].of] = "none"

\* exec returns after a shutdown, if no timer and no event is left behind in a
\* call of the Application: the order in which main joins the others and takes
\* back the mutex (application.cpp:152) does not make them wait for each other.
ShutdownReturns ==
  state = "CLOSED" ~> (pc[Main] = "done" \/ \E p \in Joined : Abandoned(p))
=============================================================================
