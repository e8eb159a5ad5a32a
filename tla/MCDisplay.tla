------------------------------ MODULE MCDisplay ------------------------------
(* An instance of Display for TLC: two events that change the first Window,  *)
(* one of them heavy, and a light one that changes nothing.                  *)
EXTENDS Display

CONSTANTS e1, e2, e3, w

MCEvents == {e1, e2, e3}
MCWeight == [e \in MCEvents |-> IF e = e2 THEN 2 ELSE 0]
MCTarget == [e \in MCEvents |-> IF e = e3 THEN NoWindow ELSE w]
=============================================================================
