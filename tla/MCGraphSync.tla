---------------------------- MODULE MCGraphSync -----------------------------
(***************************************************************************)
(* Model checking GraphSync: a root r and up to three Nodes, a Property of *)
(* a that is visible and one of b that is not, and up to one Node whose    *)
(* NodeOwner is stored on another one.  The same run checks the stacking   *)
(* functions that GraphSync is built from, on the larger family of MCZOrder. *)
(***************************************************************************)
EXTENDS GraphSync, MCZOrder

CONSTANTS r, a, b, c, seen, unseen, Owned, OwnedBy

MCNodeOf == [p \in Props |-> IF p = seen THEN a ELSE b]
MCOwner == [n \in Nodes |-> IF n = Owned THEN OwnedBy ELSE None]

-----------------------------------------------------------------------------
\* The Graph and the family share no variable, so that every state of each is
\* explored beside an untouched state of the other: no property relates the two.
Unstacked ==
  /\ order = [i \in 1 .. Cardinality(Stack) |-> i]
  /\ last = <<"none", 1, 1>>

Unbuilt ==
  /\ Alive = {Root} /\ dirty = {Root} /\ modified = [p \in Props |-> None]
  /\ \A n \in Nodes : copy[n] = None
  /\ ~ syncing /\ ~ frame

MCInit == Init /\ StackInit

GraphNext == Unstacked /\ Next /\ UNCHANGED stackVars

FamilyNext == Unbuilt /\ StackNext /\ UNCHANGED vars

MCSpec == MCInit /\ [][GraphNext \/ FamilyNext]_<<vars, stackVars>>
=============================================================================
