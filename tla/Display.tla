------------------------------- MODULE Display -------------------------------
(***************************************************************************)
(* From an event to the screen: the event handler and the render thread,   *)
(* put together by RenderManager::render and Graph::synchronize            *)
(* (src/src/app/render_manager.cpp, src/src/app/graph/graph.cpp).          *)
(*                                                                         *)
(* What EventHandler calls a frame is a synchronisation of the Graph here, *)
(* if it has changed, and a request to RenderThread; both may wait for the *)
(* render thread, and all fibers of the ui thread wait with them.  Nothing *)
(* is shut down and no Window is destroyed: Application and RenderThread   *)
(* have that.                                                              *)
(***************************************************************************)
EXTENDS Naturals, Sequences, FiniteSets

CONSTANTS Events, Null, Capacity, FrameWeight, Weight,  \* see EventHandler
          Windows, NoWindow,                            \* see RenderThread
          First,   \* the first child of the RootNode
          Target   \* the Window that each event changes, or NoWindow

ASSUME EventsAssumption == /\ Null \notin Events
                           /\ Capacity \in Nat \ {0}
                           /\ FrameWeight \in Nat \ {0}
                           /\ Weight \in [Events -> Nat]
ASSUME WindowsAssumption == NoWindow \notin Windows
ASSUME FirstAssumption == First \in Windows
ASSUME TargetAssumption == Target \in [Events -> Windows \cup {NoWindow}]

VARIABLES
  queue, closed, pc, event, counter, weight, state, unseen,
  alive, dirty, running, rpc, window, upc, spc, pending, served,
  marked,   \* m_dirty_nodes is not empty
  asked,    \* the ui thread is between synchronize and request_redraw
  undrawn   \* history: events whose changes are not on the screen

EH == INSTANCE EventHandler
RT == INSTANCE RenderThread

eventVars == <<queue, closed, pc, event, counter, weight, state, unseen>>
renderVars == <<alive, dirty, running, rpc, window, upc, spc, pending, served>>
vars == <<eventVars, renderVars, marked, asked, undrawn>>

Init ==
  /\ EH!Init /\ RT!Init
  /\ marked = TRUE  \* the RootNode, since the Graph was made
  /\ asked = FALSE
  /\ undrawn = {}

-----------------------------------------------------------------------------
(* The ui thread *)

\* It is not in the middle of RenderManager::render.
UiFree == ~ asked /\ upc = "idle"

\* The loop calls render next.
Renders == \/ pc \in {"yield", "weigh"} /\ weight >= FrameWeight
           \/ pc = "empty" /\ counter > 0

\* An event changes the Graph: a Node becomes dirty, unless nothing changes.
Change(e) ==
  IF Target[e] = NoWindow THEN UNCHANGED <<marked, undrawn>>
  ELSE marked' = TRUE /\ undrawn' = undrawn \cup {e}

RunEvent ==
  /\ UiFree
  /\ \/ EH!Dispatch /\ Change(event)
     \/ \E e \in Events : EH!Resume(e) /\ Change(e)
  /\ UNCHANGED <<renderVars, asked>>

\* Mutant of Synchronize: gives up if the render thread has the Graph.
SynchronizeOrSkip ==
  /\ UiFree /\ Renders
  /\ EH!WeighFrame \/ EH!EmptyFrame
  /\ marked' = (marked /\ RT!HoldsGraph)
  /\ asked' = (marked /\ ~ RT!HoldsGraph)
  /\ UNCHANGED <<renderVars, undrawn>>

\* Mutant of Synchronize: asks for a frame only if the render thread sleeps.
SynchronizeToWake ==
  /\ UiFree /\ Renders
  /\ marked => ~ RT!HoldsGraph
  /\ EH!WeighFrame \/ EH!EmptyFrame
  /\ marked' = FALSE
  /\ asked' = (marked /\ rpc = "asleep")
  /\ UNCHANGED <<renderVars, undrawn>>

\* A Graph without a dirty Node needs no mutex and has no Window to redraw.
Synchronize ==
  /\ UiFree /\ Renders
  /\ marked => ~ RT!HoldsGraph
  /\ EH!WeighFrame \/ EH!EmptyFrame
  /\ marked' = FALSE
  /\ asked' = marked
  /\ UNCHANGED <<renderVars, undrawn>>

\* The steps of the loop that do not concern the Graph.
Loop ==
  /\ UiFree /\ ~ Renders
  /\ \/ EH!NothingToDispatch \/ EH!WeighFrame \/ EH!TryPop \/ EH!EmptyFrame \/ EH!Pop
     \/ \E e \in Events : EH!ResumePush(e)
  /\ UNCHANGED <<renderVars, marked, asked, undrawn>>

\* Whatever is dirty, it is the first Window that is requested.
Request ==
  /\ asked
  /\ RT!RequestRedraw(First)
  /\ asked' = FALSE
  /\ UNCHANGED <<eventVars, marked, undrawn>>

Notify ==
  /\ RT!RequestNotify
  /\ UNCHANGED <<eventVars, marked, asked, undrawn>>

Ui == RunEvent \/ Synchronize \/ Loop \/ Request \/ Notify

-----------------------------------------------------------------------------
(* Other threads *)

Schedule(e) ==
  /\ EH!Schedule(e)
  /\ UNCHANGED <<renderVars, marked, asked, undrawn>>

\* A frame shows what has been synchronised when it begins.
BeginFrame ==
  /\ RT!BeginFrame
  /\ undrawn' = {e \in undrawn : Target[e] = window => e \in unseen}
  /\ UNCHANGED <<eventVars, marked, asked>>

Render ==
  \/ BeginFrame
  \/ /\ rpc # "deref" /\ RT!Render
     /\ UNCHANGED <<eventVars, marked, asked, undrawn>>

SpuriousWakeup ==
  /\ RT!SpuriousWakeup
  /\ UNCHANGED <<eventVars, marked, asked, undrawn>>

-----------------------------------------------------------------------------
Next ==
  \/ Ui
  \/ Render
  \/ SpuriousWakeup
  \/ \E e \in Events : Schedule(e)

\* Both threads run when they can, and a fiber that is blocked in a push when
\* there is a place.  Nobody needs to schedule an event, and no event needs to
\* get what it waits for.  The condition may wake up again and again for no
\* reason; a thread that waits for the mutex meanwhile gets it in the end.
Fairness ==
  /\ WF_vars(Synchronize \/ Loop \/ Notify \/ (pc = "event" /\ RunEvent))
  /\ SF_vars(Request)
  /\ WF_vars(Render)
  /\ \A e \in Events : /\ WF_vars(state[e] = "waiting" /\ Schedule(e))
                       /\ WF_vars(EH!ResumePush(e) /\ Loop)

Spec == Init /\ [][Next]_vars /\ Fairness

-----------------------------------------------------------------------------
(* Properties *)

\* An event has run to its end, and changed the Window that is requested.
Owed(e) == e \in undrawn /\ EH!Finished(e) /\ Target[e] = First

\* While both threads sleep the screen shows what the events have made of the
\* Graph ("always render a frame once the queue is empty", event_handler.cpp:90):
\* no change is left between the handler, the Graph and the render thread.
QuietIsCurrent ==
  pc = "pop" /\ queue = <<>> /\ UiFree /\ rpc = "asleep" =>
    \A e \in Events : Owed(e) => state[e] = "pushing"

\* What a finished event has changed is drawn, however many events and frames
\* there are meanwhile.
ChangeIsDrawn == \A e \in Events : Owed(e) ~> ~ Owed(e)
=============================================================================
