------------------------------ MODULE MCZOrder ------------------------------
(***************************************************************************)
(* The stacking functions of AnyNode on every order of a few siblings,     *)
(* against what their documentation promises (any_node.hpp:353-385).       *)
(***************************************************************************)
EXTENDS ZOrder, FiniteSets

CONSTANTS Stack  \* a Node and its siblings

ASSUME StackAssumption == IsFiniteSet(Stack) /\ Stack # {}

\* Every order in which the siblings may stand.
Orders ==
  {s \in [1 .. Cardinality(Stack) -> Stack] :
     \A i, j \in DOMAIN s : s[i] = s[j] => i = j}

VARIABLES
  order,  \* the siblings from back to front
  last    \* the last call: the function, the Node it moved and its argument

stackVars == <<order, last>>

StackInit == order \in Orders /\ \E x \in Stack : last = <<"none", x, x>>

\* A Node that is in its place is left there.
ToFront(x) ==
  /\ order' = IF IsInFront(order, x) THEN order ELSE StackFront(order, x)
  /\ last' = <<"front", x, x>>

ToBack(x) ==
  /\ order' = IF IsInBack(order, x) THEN order ELSE StackBack(order, x)
  /\ last' = <<"back", x, x>>

Before(x, y) ==
  /\ order' = IF x = y THEN order ELSE StackBefore(order, x, y)
  /\ last' = <<"before", x, y>>

Behind(x, y) ==
  /\ order' = IF x = y THEN order ELSE StackBehind(order, x, y)
  /\ last' = <<"behind", x, y>>

StackNext == \E x \in Stack :
  ToFront(x) \/ ToBack(x) \/ \E y \in Stack : Before(x, y) \/ Behind(x, y)

StackSpec == StackInit /\ [][StackNext]_stackVars

-----------------------------------------------------------------------------
\* No sibling is lost or doubled by a rotation, and the moved Node is where the
\* function was asked to put it: in front, in the back, or right next to its
\* sibling on the side that was named, as the queries confirm.
Placed ==
  LET x == last[2]
      y == last[3]
      at(z) == IndexOf(order, z)
  IN /\ Len(order) = Cardinality(Stack)
     /\ {order[i] : i \in 1 .. Len(order)} = Stack
     /\ last[1] = "front" => at(x) = Len(order)
     /\ last[1] = "back" => at(x) = 1
     /\ last[1] = "before" /\ x # y => at(x) = at(y) + 1 /\ IsBefore(order, x, y)
     /\ last[1] = "behind" /\ x # y => at(x) = at(y) - 1 /\ IsBehind(order, x, y)

\* Moving a Node does not disturb the order of the other Nodes.
OthersKeepTheirOrder ==
  [][Without(order', {last'[2]}) = Without(order, {last'[2]})]_stackVars
=============================================================================
