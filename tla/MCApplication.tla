---------------------------- MODULE MCApplication ----------------------------
(* Instances of Application for TLC: one thread or timer, and             *)
(* up to two events of the ui thread, over one or two Windows.               *)
EXTENDS Application
=============================================================================
