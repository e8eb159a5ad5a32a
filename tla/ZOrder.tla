------------------------------- MODULE ZOrder -------------------------------
(***************************************************************************)
(* The z-order of the children of a Node: the functions on vectors of      *)
(* src/include/notf/common/vector.hpp that AnyNode moves a Node among its  *)
(* siblings with.  The last child is in front, the first in the back.      *)
(***************************************************************************)
EXTENDS Naturals, Sequences

\* std::rotate on the places [first, last): the place middle becomes the first.
Rotate(s, first, middle, last) ==
  SubSeq(s, 1, first - 1) \o SubSeq(s, middle, last - 1)
    \o SubSeq(s, first, middle - 1) \o SubSeq(s, last, Len(s))

IndexOf(s, x) == CHOOSE i \in 1 .. Len(s) : s[i] = x

Erase(s, i) == SubSeq(s, 1, i - 1) \o SubSeq(s, i + 1, Len(s))

\* The elements of s that are not in L, in their order.
Without(s, L) ==
  LET kept[i \in 0 .. Len(s)] ==
        IF i = 0 THEN <<>>
        ELSE IF s[i] \in L THEN kept[i - 1] ELSE Append(kept[i - 1], s[i])
  IN kept[Len(s)]

\* Mutant of MoveToBack: the element trades places with the last one.
SwapWithBack(s, i) == [s EXCEPT ![i] = s[Len(s)], ![Len(s)] = s[i]]

MoveToBack(s, i) == Rotate(s, i, i + 1, Len(s) + 1)

MoveToFront(s, i) == Rotate(s, 1, i, i + 1)

\* Mutant of MoveInFrontOf: the moved element always comes from the right.
MoveInFrontOfFromRight(s, i, j) ==
  CASE i = j -> s
    [] i > j -> Rotate(s, j, i, i + 1)
    [] i < j -> Rotate(s, i, i + 1, j + 1)

\* Element i is moved just to the left of element j.
MoveInFrontOf(s, i, j) ==
  CASE i = j -> s
    [] i > j -> Rotate(s, j, i, i + 1)
    [] i < j -> Rotate(s, i, i + 1, j)

\* Element i is moved just to the right of element j.
MoveBehindOf(s, i, j) ==
  CASE i = j -> s
    [] i > j -> Rotate(s, j + 1, i, i + 1)
    [] i < j -> Rotate(s, i, i + 1, j + 1)

-----------------------------------------------------------------------------
(* AnyNode, src/src/app/graph/any_node.cpp: s are the siblings of x and y *)

StackFront(s, x) == MoveToBack(s, IndexOf(s, x))

StackBack(s, x) == MoveToFront(s, IndexOf(s, x))

StackBefore(s, x, y) == MoveBehindOf(s, IndexOf(s, x), IndexOf(s, y))

StackBehind(s, x, y) == MoveInFrontOf(s, IndexOf(s, x), IndexOf(s, y))

IsInFront(s, x) == s # <<>> /\ s[Len(s)] = x

IsInBack(s, x) == s # <<>> /\ s[1] = x

\* The first of the two that the loop meets decides.
IsBefore(s, x, y) ==
  x # y /\ \E i \in 1 .. Len(s) : s[i] = y /\ \A j \in 1 .. i : s[j] # x

IsBehind(s, x, y) ==
  x # y /\ \E i \in 1 .. Len(s) : s[i] = x /\ \A j \in 1 .. i : s[j] # y
=============================================================================
