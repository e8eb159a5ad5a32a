---------------------------- MODULE MCAncestors -----------------------------
(***************************************************************************)
(* Model checking Ancestors: every forest of up to Size Nodes, numbered so *)
(* that no parent has a higher number than its children.                   *)
(***************************************************************************)
EXTENDS Ancestors

CONSTANT Size

MCNodes == 1 .. Size
MCForests == {p \in [MCNodes -> MCNodes] : \A n \in MCNodes : p[n] <= n}
=============================================================================
