--------------------------- MODULE MCRenderThread ---------------------------
(* Model checking RenderThread with the few Windows that the cfgs list.     *)
EXTENDS RenderThread
=============================================================================
