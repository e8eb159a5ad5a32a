------------------------------ MODULE Snapshot ------------------------------
(***************************************************************************)
(* What the Graph promises to its two threads.  The ui thread owns a live  *)
(* graph that it may change at any time; the render thread draws a shown   *)
(* graph.  The shown graph never changes in the middle of a frame, and     *)
(* when it changes it becomes the whole live graph at once                 *)
(* (src/include/notf/app/graph/graph.hpp:126-129).                         *)
(***************************************************************************)
VARIABLES live,   \* the graph as the ui thread sees it
          shown,  \* the graph as the render thread sees it
          frame   \* the render thread draws a frame

vars == <<live, shown, frame>>

Init == shown = live /\ frame = FALSE

Change == UNCHANGED <<shown, frame>>

Publish ==
  /\ ~ frame
  /\ shown' = live
  /\ UNCHANGED <<live, frame>>

BeginFrame == ~ frame /\ frame' = TRUE /\ UNCHANGED <<live, shown>>

EndFrame == frame /\ frame' = FALSE /\ UNCHANGED <<live, shown>>

Next == Change \/ Publish \/ BeginFrame \/ EndFrame

Spec == Init /\ [][Next]_vars
=============================================================================
