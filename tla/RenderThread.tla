---------------------------- MODULE RenderThread ----------------------------
(***************************************************************************)
(* The render thread of the RenderManager, src/src/app/render_manager.cpp. *)
(*                                                                         *)
(* Three threads meet here.  The ui thread requests redraws and, while it  *)
(* synchronises the Graph, destroys Windows.  The render thread takes one  *)
(* Window at a time from the front of the queue and draws it.  The thread  *)
(* that owns the Application stops the render thread and joins it.         *)
(*                                                                         *)
(* The critical section of the ui thread is one step, so each of the two   *)
(* mutexes is held exactly while the render thread is between two steps of *)
(* its own critical section: the holder is a function of its position.     *)
(***************************************************************************)
EXTENDS Naturals, Sequences

CONSTANTS Windows,  \* every Window that is ever created
          NoWindow  \* the empty WindowHandle

ASSUME WindowsAssumption == NoWindow \notin Windows

VARIABLES
  alive,    \* Windows whose handle is not expired
  dirty,    \* m_dirty_windows
  running,  \* m_is_running
  rpc,      \* position of the render thread
  window,   \* window_handle, local variable of _run
  upc,      \* position of the ui thread: "idle", or "notify" in request_redraw
  spc,      \* position of the thread that runs ~RenderThread
  pending,  \* history: Windows requested and not drawn since
  served    \* history: for each Window, those popped since it was queued

vars == <<alive, dirty, running, rpc, window, upc, spc, pending, served>>

RenderPositions ==
  {"loop", "lock", "test", "pred", "block", "asleep", "woken", "leave",
   "popped", "graph", "deref", "draw", "done", "dead"}

\* Mutant of HoldsMutex: the predicate of the wait is tested outside of the lock.
HoldsMutexExceptBlock == rpc \in {"test", "pred", "leave"}

\* The render thread owns m_mutex; asleep in the condition it does not.
HoldsMutex == rpc \in {"test", "pred", "block", "leave"}

\* The render thread owns the mutex of the Graph.
HoldsGraph == rpc \in {"deref", "draw"}

Queued(w) == \E i \in DOMAIN dirty : dirty[i] = w

Init ==
  /\ alive = Windows
  /\ dirty = <<>>
  /\ running = TRUE
  /\ rpc = "loop"
  /\ window = NoWindow
  /\ upc = "idle"
  /\ spc = "idle"
  /\ pending = {}
  /\ served = [w \in Windows |-> {}]

-----------------------------------------------------------------------------
(* The ui thread *)

\* Mutant of Enqueue: no search for the Window in the queue.
EnqueueAlways(w) ==
  /\ dirty' = Append(dirty, w)
  /\ served' = [served EXCEPT ![w] = {}]

\* Mutant of Enqueue: the Window drawn last counts as requested already.
EnqueueUnlessCurrent(w) ==
  IF w \in alive /\ ~ Queued(w) /\ window # w
  THEN EnqueueAlways(w)
  ELSE UNCHANGED <<dirty, served>>

\* Mutant of Enqueue: the newest request goes first.
EnqueueFront(w) ==
  IF w \in alive /\ ~ Queued(w)
  THEN /\ dirty' = <<w>> \o dirty
       /\ served' = [served EXCEPT ![w] = {}]
  ELSE UNCHANGED <<dirty, served>>

\* Appends w to the queue unless it is expired or queued already.
Enqueue(w) ==
  IF w \in alive /\ ~ Queued(w)
  THEN /\ dirty' = Append(dirty, w)
       /\ served' = [served EXCEPT ![w] = {}]
  ELSE UNCHANGED <<dirty, served>>

\* The critical section of request_redraw.  Graph::synchronize returns at
\* most one Window, and render() does not call with none.
RequestRedraw(w) ==
  /\ upc = "idle" /\ spc = "idle"
  /\ ~ HoldsMutex
  /\ Enqueue(w)
  /\ pending' = IF w \in alive THEN pending \cup {w} ELSE pending
  /\ upc' = "notify"
  /\ UNCHANGED <<alive, running, rpc, window, spc>>

\* A notification moves the sleeping render thread and is lost on any other.
Notified == IF rpc = "asleep" THEN "woken" ELSE rpc

\* request_redraw notifies after it released the mutex.
RequestNotify ==
  /\ upc = "notify"
  /\ rpc' = Notified
  /\ upc' = "idle"
  /\ UNCHANGED <<alive, dirty, running, window, spc, pending, served>>

\* Mutant of Expire: a Window is destroyed without the mutex of the Graph.
ExpireUnlocked(w) ==
  /\ upc = "idle" /\ spc = "idle"
  /\ w \in alive
  /\ alive' = alive \ {w}
  /\ pending' = pending \ {w}
  /\ UNCHANGED <<dirty, running, rpc, window, upc, spc, served>>

\* Graph::synchronize drops the last reference to a removed Window.
Expire(w) ==
  /\ upc = "idle" /\ spc = "idle"
  /\ w \in alive
  /\ ~ HoldsGraph
  /\ alive' = alive \ {w}
  /\ pending' = pending \ {w}
  /\ UNCHANGED <<dirty, running, rpc, window, upc, spc, served>>

-----------------------------------------------------------------------------
(* The render thread, RenderThread::_run *)

Go(from, to) == rpc = from /\ rpc' = to

Loop ==
  /\ Go("loop", IF running THEN "lock" ELSE "done")
  /\ UNCHANGED <<alive, dirty, running, window, upc, spc, pending, served>>

Lock ==
  /\ Go("lock", "test")
  /\ UNCHANGED <<alive, dirty, running, window, upc, spc, pending, served>>

Test ==
  /\ Go("test", IF running THEN "pred" ELSE "leave")
  /\ UNCHANGED <<alive, dirty, running, window, upc, spc, pending, served>>

\* condition.wait evaluates its predicate with the mutex held ...
Predicate ==
  /\ Go("pred", IF dirty # <<>> \/ ~ running THEN "leave" ELSE "block")
  /\ UNCHANGED <<alive, dirty, running, window, upc, spc, pending, served>>

\* ... and only afterwards releases the mutex and goes to sleep.
Block ==
  /\ Go("block", "asleep")
  /\ UNCHANGED <<alive, dirty, running, window, upc, spc, pending, served>>

SpuriousWakeup ==
  /\ Go("asleep", "woken")
  /\ UNCHANGED <<alive, dirty, running, window, upc, spc, pending, served>>

Relock ==
  /\ Go("woken", "pred")
  /\ UNCHANGED <<alive, dirty, running, window, upc, spc, pending, served>>

LeaveStopped ==
  /\ ~ running
  /\ Go("leave", "done")
  /\ UNCHANGED <<alive, dirty, running, window, upc, spc, pending, served>>

\* Mutant of Pop: the local handle is not assigned from the queue's front.
PopWholeQueue ==
  /\ running
  /\ Go("leave", "popped")
  /\ dirty # <<>>
  /\ window' = dirty
  /\ dirty' = <<>>
  /\ UNCHANGED <<alive, running, upc, spc, pending, served>>

Pop ==
  /\ running
  /\ Go("leave", "popped")
  /\ dirty # <<>>
  /\ window' = Head(dirty)
  /\ dirty' = Tail(dirty)
  /\ served' = [w \in Windows |-> served[w] \cup {Head(dirty)}]
  /\ UNCHANGED <<alive, running, upc, spc, pending>>

\* Mutant of CheckExpired: break where the code says continue.
CheckExpiredBreaks ==
  /\ Go("popped", IF window \in alive THEN "graph" ELSE "done")
  /\ UNCHANGED <<alive, dirty, running, window, upc, spc, pending, served>>

\* window_handle.is_expired(), with neither mutex held
CheckExpired ==
  /\ Go("popped", IF window \in alive THEN "graph" ELSE "loop")
  /\ UNCHANGED <<alive, dirty, running, window, upc, spc, pending, served>>

LockGraph ==
  /\ Go("graph", "deref")
  /\ UNCHANGED <<alive, dirty, running, window, upc, spc, pending, served>>

\* window->get_graphics_context() throws HandleExpiredError outside of the try
\* block if the Window is gone; the exception ends the thread.  Otherwise the
\* frame begins, and reads what has been synchronised before.
BeginFrame ==
  /\ Go("deref", IF window \in alive THEN "draw" ELSE "dead")
  /\ pending' = pending \ {window}
  /\ UNCHANGED <<alive, dirty, running, window, upc, spc, served>>

FinishFrame ==
  /\ Go("draw", "loop")
  /\ UNCHANGED <<alive, dirty, running, window, upc, spc, pending, served>>

Render == Loop \/ Lock \/ Test \/ Predicate \/ Block \/ Relock \/ LeaveStopped
            \/ Pop \/ CheckExpired \/ LockGraph \/ BeginFrame \/ FinishFrame

-----------------------------------------------------------------------------
(* RenderThread::_stop, called by the destructor.  The event handler has     *)
(* been joined before: no redraw is requested from here on.                  *)

StopStore ==
  /\ spc = "idle" /\ upc = "idle"
  /\ running' = FALSE
  /\ spc' = "notify"
  /\ UNCHANGED <<alive, dirty, rpc, window, upc, pending, served>>

StopNotify ==
  /\ spc = "notify"
  /\ rpc' = Notified
  /\ spc' = "join"
  /\ UNCHANGED <<alive, dirty, running, window, upc, pending, served>>

StopJoin ==
  /\ spc = "join"
  /\ rpc \in {"done", "dead"}
  /\ spc' = "joined"
  /\ UNCHANGED <<alive, dirty, running, rpc, window, upc, pending, served>>

Stop == StopStore \/ StopNotify \/ StopJoin

-----------------------------------------------------------------------------
Next ==
  \/ \E w \in Windows : RequestRedraw(w) \/ Expire(w)
  \/ RequestNotify
  \/ Render
  \/ SpuriousWakeup
  \/ Stop

\* Threads that can run do run.  Nobody is obliged to request, to destroy a
\* Window or to stop, and the condition is not obliged to wake up by itself.
Fairness ==
  /\ WF_vars(Render)
  /\ WF_vars(RequestNotify)
  /\ WF_vars(StopNotify)
  /\ WF_vars(StopJoin)

Spec == Init /\ [][Next]_vars /\ Fairness

-----------------------------------------------------------------------------
(* Properties *)

\* The variables have their types.
TypeOK ==
  /\ alive \in SUBSET Windows
  /\ dirty \in Seq(Windows)
  /\ running \in BOOLEAN
  /\ rpc \in RenderPositions
  /\ window \in Windows \cup {NoWindow}
  /\ upc \in {"idle", "notify"}
  /\ spc \in {"idle", "notify", "join", "joined"}
  /\ pending \in SUBSET Windows
  /\ served \in [Windows -> SUBSET Windows]

\* The queue is a set in the order of arrival: a Window that is requested
\* faster than it is drawn takes one place only (render_manager.cpp:24).
NoDuplicates ==
  \A i, j \in DOMAIN dirty : dirty[i] = dirty[j] => i = j

\* A Window that the render thread has taken and not begun to draw.
InHand(w) == rpc \in {"popped", "graph", "deref"} /\ window = w

\* No request is lost.  A request that arrives while its Window is being drawn
\* may concern data the frame does not show any more, so until a frame begins
\* after the request the Window is in the queue or in the render thread's hand.
NoLostRequest ==
  \A w \in pending : Queued(w) \/ InHand(w)

\* Round-robin (render_manager.cpp:20): while a Window waits in the queue, no
\* other Window is taken from it twice.
RoundRobin ==
  \A i, j \in DOMAIN dirty : j < i => dirty[j] \notin served[dirty[i]]

\* What is drawn exists: a Window is destroyed under the Graph's mutex only,
\* so no frame loses its Window between begin_frame and finish_frame.
DrawnIsAlive == rpc = "draw" => window \in alive

\* A sleeping render thread has no work, unless a notification is on its way.
SleepsWithoutWork ==
  rpc = "asleep" /\ dirty # <<>> => upc = "notify"

\* A requested Window is drawn, unless it is destroyed, or the thread is being
\* stopped, or an expired handle has ended it (BeginFrame).
RequestIsDrawn ==
  \A w \in Windows :
    w \in pending ~> (w \notin pending \/ ~ running \/ rpc = "dead")

\* render_manager.hpp:45 says of _stop: "Blocks until the worker thread joined."
StopJoins == (spc = "join") ~> (spc = "joined")
=============================================================================
