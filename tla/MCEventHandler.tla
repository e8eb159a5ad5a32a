--------------------------- MODULE MCEventHandler ---------------------------
(***************************************************************************)
(* Model checking EventHandler: two events of no weight, which together    *)
(* cause a frame, and one that is a frame of its own.                      *)
(***************************************************************************)
EXTENDS EventHandler

CONSTANTS e1, e2, e3

MCEvents == {e1, e2, e3}
MCWeight == [e \in MCEvents |-> IF e = e3 THEN 2 ELSE 0]
=============================================================================
