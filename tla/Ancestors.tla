----------------------------- MODULE Ancestors ------------------------------
(***************************************************************************)
(* The search for the common ancestor of two Nodes,                        *)
(* AnyNode::_get_common_ancestor in src/src/app/graph/any_node.cpp.        *)
(*                                                                         *)
(* Every Node knows its parent, and a root is its own parent.  The search  *)
(* climbs from both Nodes in turns, one step each, until one of the two    *)
(* meets a Node that either of them has met before.                        *)
(***************************************************************************)
EXTENDS Naturals, FiniteSets

CONSTANTS Nodes,
          None,     \* no Node
          Forests   \* the functions from Nodes to their parents to search in

\* Node n and the Nodes met on the way up from it: the least set that contains n
\* and the parents of its members.
Lineage(up, n) ==
  {a \in Nodes : \A S \in SUBSET Nodes :
     n \in S /\ (\A m \in S : up[m] \in S) => a \in S}

\* No Node is above itself, other than a root.
ASSUME ForestsAssumption ==
  \A up \in Forests :
    /\ up \in [Nodes -> Nodes]
    /\ \A a, b \in Nodes : a \in Lineage(up, b) /\ b \in Lineage(up, a) => a = b

ASSUME NoneAssumption == None \notin Nodes

\* A program has finitely many Nodes at a time.
ASSUME FiniteAssumption == IsFiniteSet(Nodes)

VARIABLES
  parent,  \* the parent of each Node
  this,    \* the Node that is asked
  other,   \* its argument
  first,   \* where the search from this has come
  second,  \* where the search from other has come
  known,   \* known_ancestors
  result,
  pc       \* whose turn it is, or how the search has ended

vars == <<parent, this, other, first, second, known, result, pc>>

Above(n) == Lineage(parent, parent[n])

\* Mutant of HasAncestor: a loop that runs into the root finds everything.
HasAncestorOrRoot(n, a) == a \in Above(n) \/ parent[a] = a

\* _has_ancestor climbs from the parent to the root; a root is its own ancestor.
HasAncestor(n, a) == a \in Above(n)

\* A Node is its own common ancestor with itself.
Init ==
  /\ parent \in Forests
  /\ this \in Nodes /\ other \in Nodes
  /\ first = this /\ second = other
  /\ known = {this, other}
  /\ result = IF this = other THEN this ELSE None
  /\ pc = IF this = other THEN "found" ELSE "first"

\* Mutant of Meet: the Nodes that are passed are forgotten.
MeetForgetful(n, from, turn) ==
  IF n \in known
  THEN /\ result' = n
       /\ pc' = IF HasAncestor(from, n) THEN "found" ELSE "failed"
       /\ UNCHANGED known
  ELSE /\ pc' = turn
       /\ UNCHANGED <<result, known>>

\* One of the two comes to Node n.  If n is known, the other Node ("from") is
\* asked whether n is its ancestor.
Meet(n, from, turn) ==
  IF n \in known
  THEN /\ result' = n
       /\ pc' = IF HasAncestor(from, n) THEN "found" ELSE "failed"
       /\ UNCHANGED known
  ELSE /\ known' = known \cup {n}
       /\ pc' = turn
       /\ UNCHANGED result

ClimbFirst ==
  /\ pc = "first"
  /\ first' = parent[first]
  /\ Meet(parent[first], other, "second")
  /\ UNCHANGED <<parent, this, other, second>>

\* Mutant of ClimbSecond: it climbs twice while the other Node climbs once.
ClimbSecondTwice ==
  /\ pc = "second"
  /\ second' = parent[parent[second]]
  /\ Meet(parent[parent[second]], this, "first")
  /\ UNCHANGED <<parent, this, other, first>>

ClimbSecond ==
  /\ pc = "second"
  /\ second' = parent[second]
  /\ Meet(parent[second], this, "first")
  /\ UNCHANGED <<parent, this, other, first>>

Next == ClimbFirst \/ ClimbSecond

Spec == Init /\ [][Next]_vars /\ WF_vars(Next)

-----------------------------------------------------------------------------
(* Properties *)

\* The variables have their types.
TypeOK ==
  /\ parent \in Forests
  /\ this \in Nodes /\ other \in Nodes
  /\ first \in Nodes /\ second \in Nodes
  /\ known \subseteq Nodes
  /\ result \in Nodes \cup {None}
  /\ pc \in {"first", "second", "found", "failed"}

\* A Node and its ancestors
Family(n) == Lineage(parent, n)

Common == Family(this) \cap Family(other)

Related == this \in Family(other) \/ other \in Family(this)

\* What is returned is an ancestor of both Nodes, and an exception is thrown
\* (any_node.hpp:303 "If there is no common ancestor") only if there is none,
\* or one of the Nodes is an ancestor of the other.
AnswerIsCommon ==
  /\ pc = "found" => result \in Common
  /\ pc = "failed" => Related \/ Common = {}

\* The least common ancestor
Nearest == CHOOSE a \in Common : Common \subseteq Family(a)

\* How many Nodes there are from n up to the root, n not included
Depth(n) == Cardinality(Above(n) \ {n})

\* The answer is the nearest common ancestor as long as neither Node is deeper
\* below it than the other one is below the root: the search that comes to the
\* root first climbs on from the root to the root.
NearestUnlessSteep ==
  pc = "found" /\ Depth(other) - Depth(Nearest) <= Depth(this)
               /\ Depth(this) - Depth(Nearest) <= Depth(other) + 1
    => result = Nearest

\* any_node.hpp:295 "Finds and returns the first common ancestor of two Nodes."
NearestIsFound == pc = "found" /\ ~ Related => result = Nearest

\* The search ends, also between Nodes of different Graphs.
SearchEnds == <>(pc \in {"found", "failed"})
=============================================================================
