-------------------------- MODULE Ancestors_proofs --------------------------
(***************************************************************************)
(* Proofs about Ancestors, for every finite set of Nodes and every forest: *)
(* what the search returns is a common ancestor, and the nearest one as    *)
(* long as neither Node is too deep below it; it fails only if there is    *)
(* none or one of the Nodes is an ancestor of the other; every step ends   *)
(* it or leaves one Node fewer to be met.                                  *)
(***************************************************************************)
EXTENDS Ancestors, FiniteSetTheorems, TLAPS

-----------------------------------------------------------------------------
(* Lineages *)

\* Whatever contains n and the parents of its members contains n's lineage.
LEMMA LineageIsLeast ==
  ASSUME NEW up, NEW n \in Nodes, NEW S \in SUBSET Nodes,
         n \in S, \A m \in S : up[m] \in S
  PROVE  Lineage(up, n) \subseteq S
BY DEF Lineage

\* A lineage begins with its Node and goes on to the parents.
LEMMA LineageIsClosed ==
  ASSUME NEW up \in [Nodes -> Nodes], NEW n \in Nodes
  PROVE  /\ Lineage(up, n) \in SUBSET Nodes
         /\ n \in Lineage(up, n)
         /\ \A m \in Lineage(up, n) : up[m] \in Lineage(up, n)
BY DEF Lineage

\* The lineage of a member is a part of the lineage.
LEMMA LineageOfMember ==
  ASSUME NEW up \in [Nodes -> Nodes], NEW n \in Nodes, NEW m \in Lineage(up, n)
  PROVE  Lineage(up, m) \subseteq Lineage(up, n)
<1>1. m \in Nodes
  BY LineageIsClosed
<1>2. QED
  BY <1>1, LineageIsClosed, LineageIsLeast

\* A lineage is its Node and the lineage of the parent.
LEMMA LineageSplits ==
  ASSUME NEW up \in [Nodes -> Nodes], NEW n \in Nodes
  PROVE  Lineage(up, n) \subseteq {n} \cup Lineage(up, up[n])
<1>1. up[n] \in Nodes
  OBVIOUS
<1> DEFINE S == {n} \cup Lineage(up, up[n])
<1>2. /\ S \in SUBSET Nodes /\ n \in S
      /\ \A m \in S : up[m] \in S
  BY <1>1, LineageIsClosed
<1> HIDE DEF S
<1>3. Lineage(up, n) \subseteq S
  BY <1>2, LineageIsLeast
<1>4. QED
  BY <1>3 DEF S

\* A root in a lineage is above every member of it.
LEMMA RootIsLast ==
  ASSUME NEW up \in [Nodes -> Nodes], NEW n \in Nodes,
         NEW r \in Lineage(up, n), up[r] = r,
         NEW c \in Lineage(up, n)
  PROVE  r \in Lineage(up, c)
<1> DEFINE S == {m \in Nodes : r \in Lineage(up, m)}
<1>1. ASSUME NEW m \in S
      PROVE  up[m] \in S
  <2>1. m \in Nodes /\ up[m] \in Nodes /\ r \in Lineage(up, m)
    OBVIOUS
  <2>2. CASE r = m
    BY <2>1, <2>2, up[r] = r
  <2>3. CASE r # m
    BY <2>1, <2>3, LineageSplits
  <2>4. QED
    BY <2>2, <2>3
<1>2. S \in SUBSET Nodes /\ n \in S
  OBVIOUS
<1> HIDE DEF S
<1>3. Lineage(up, n) \subseteq S
  BY <1>1, <1>2, LineageIsLeast
<1>4. QED
  BY <1>3 DEF S

-----------------------------------------------------------------------------
(* The invariant *)

\* Each search has come up from its Node, and what is known lies on its way.
Climbed ==
  /\ first \in Family(this)
  /\ second \in Family(other)
  /\ \A m \in known : \/ m \in Family(this) /\ first \in Family(m)
                      \/ m \in Family(other) /\ second \in Family(m)

IInv == TypeOK /\ Climbed /\ AnswerIsCommon

\* Forests are functions in which no two Nodes are above each other.
LEMMA Forest ==
  ASSUME TypeOK
  PROVE  /\ parent \in [Nodes -> Nodes]
         /\ \A a, b \in Nodes : a \in Family(b) /\ b \in Family(a) => a = b
BY ForestsAssumption DEF TypeOK, Family

LEMMA InitInvariant == Init => IInv
<1> SUFFICES ASSUME Init PROVE IInv
  OBVIOUS
<1>1. TypeOK
  BY DEF Init, TypeOK
<1>2. this \in Family(this) /\ other \in Family(other)
  BY <1>1, Forest, LineageIsClosed DEF TypeOK, Family
<1>3. Climbed
  BY <1>2 DEF Init, Climbed
<1>4. AnswerIsCommon
  BY <1>2 DEF Init, AnswerIsCommon, Common
<1>5. QED
  BY <1>1, <1>3, <1>4 DEF IInv

\* A climb from a Node goes to a Node above whatever the climber has passed.
LEMMA Climb ==
  ASSUME TypeOK, NEW n \in Nodes, NEW m \in Nodes, m \in Family(n)
  PROVE  /\ parent[m] \in Nodes
         /\ parent[m] \in Family(n) /\ parent[m] \in Family(m)
         /\ parent[m] \in Family(parent[m])
BY Forest, LineageIsClosed DEF Family

\* Why the search may fail: Node a has met r, which is known, on its way up from
\* x, and r is not above y.
LEMMA Refusal ==
  ASSUME TypeOK,
         NEW x \in Nodes, NEW y \in Nodes, NEW a \in Nodes, NEW b \in Nodes,
         a \in Family(x), parent[a] \notin Above(y),
         \/ parent[a] \in Family(x) /\ a \in Family(parent[a])
         \/ parent[a] \in Family(y) /\ b \in Family(parent[a])
  PROVE  y \in Family(x) \/ Family(x) \cap Family(y) = {}
<1> DEFINE r == parent[a]
<1>1. /\ r \in Nodes /\ r \in Family(x) /\ r \in Family(a)
      /\ parent \in [Nodes -> Nodes]
  BY Climb, Forest
<1>2. r \in Family(y) => r = y
  BY <1>1, LineageSplits DEF Family, Above
<1>3. CASE r \in Family(y)
  BY <1>1, <1>2, <1>3
<1>4. CASE r \notin Family(y)
  <2>1. r = a
    BY <1>1, <1>4, Forest
  <2>2. parent[r] = r
    BY <2>1
  <2>3. ASSUME NEW c \in Family(x) \cap Family(y)
        PROVE  FALSE
    <3>1. r \in Family(c)
      BY <1>1, <2>2, <2>3, RootIsLast DEF Family
    <3>2. Family(c) \subseteq Family(y)
      BY <1>1, <2>3, LineageOfMember DEF Family
    <3>3. QED
      BY <1>4, <3>1, <3>2
  <2>4. QED
    BY <2>3
<1>5. QED
  BY <1>3, <1>4

\* What is above a Node belongs to its family.
LEMMA AboveIsFamily ==
  ASSUME TypeOK, NEW n \in Nodes
  PROVE  Above(n) \subseteq Family(n)
<1>1. parent \in [Nodes -> Nodes] /\ parent[n] \in Lineage(parent, n)
  BY Forest, LineageIsClosed
<1>2. QED
  BY <1>1, LineageOfMember DEF Above, Family

LEMMA ClimbFirstKeepsInvariant == IInv /\ ClimbFirst => IInv'
<1> SUFFICES ASSUME IInv, ClimbFirst PROVE IInv'
  OBVIOUS
<1> DEFINE n == parent[first]
<1>1. /\ TypeOK /\ Climbed
      /\ this \in Nodes /\ other \in Nodes /\ first \in Nodes /\ second \in Nodes
  BY DEF IInv, TypeOK
<1>2. n \in Nodes /\ n \in Family(this) /\ n \in Family(n)
  BY <1>1, Climb DEF Climbed
<1>3. /\ first' = n /\ second' = second /\ this' = this /\ other' = other
      /\ parent' = parent
  BY DEF ClimbFirst
<1>4. TypeOK'
  BY <1>1, <1>2, <1>3 DEF TypeOK, ClimbFirst, Meet
<1>5. \A a : Family(a)' = Family(a)
  BY <1>3 DEF Family, Lineage
<1>6. Climbed'
  <2>1. ASSUME NEW m \in known, first \in Family(m)
        PROVE  n \in Family(m)
    <3>1. m \in Nodes
      BY <1>1 DEF TypeOK
    <3>2. QED
      BY <1>1, <2>1, <3>1, Climb
  <2>2. known' \subseteq known \cup {n}
    BY DEF ClimbFirst, Meet
  <2>3. ASSUME NEW m \in known'
        PROVE  \/ m \in Family(this) /\ n \in Family(m)
               \/ m \in Family(other) /\ second \in Family(m)
    BY <1>1, <1>2, <2>1, <2>2, <2>3 DEF Climbed
  <2>4. QED
    BY <1>1, <1>2, <1>3, <1>5, <2>3 DEF Climbed
<1>7. AnswerIsCommon'
  <2>1. CASE n \notin known
    BY <2>1 DEF ClimbFirst, Meet, AnswerIsCommon
  <2>2. CASE n \in known /\ n \in Above(other)
    <3>1. n \in Family(other)
      BY <1>1, <2>2, AboveIsFamily
    <3>2. result' = n /\ pc' = "found"
      BY <2>2 DEF ClimbFirst, Meet, HasAncestor
    <3>3. Common' = Common
      BY <1>3, <1>5 DEF Common
    <3>4. QED
      BY <1>2, <3>1, <3>2, <3>3 DEF AnswerIsCommon, Common
  <2>3. CASE n \in known /\ n \notin Above(other)
    <3>1. \/ n \in Family(this) /\ first \in Family(n)
          \/ n \in Family(other) /\ second \in Family(n)
      BY <1>1, <2>3 DEF Climbed
    <3>2. other \in Family(this) \/ Family(this) \cap Family(other) = {}
      BY <1>1, <2>3, <3>1, Refusal DEF Climbed
    <3>3. pc' = "failed"
      BY <2>3 DEF ClimbFirst, Meet, HasAncestor
    <3>4. QED
      BY <1>3, <1>5, <3>2, <3>3 DEF AnswerIsCommon, Common, Related
  <2>4. QED
    BY <2>1, <2>2, <2>3
<1>8. QED
  BY <1>4, <1>6, <1>7 DEF IInv

LEMMA ClimbSecondKeepsInvariant == IInv /\ ClimbSecond => IInv'
<1> SUFFICES ASSUME IInv, ClimbSecond PROVE IInv'
  OBVIOUS
<1> DEFINE n == parent[second]
<1>1. /\ TypeOK /\ Climbed
      /\ this \in Nodes /\ other \in Nodes /\ first \in Nodes /\ second \in Nodes
  BY DEF IInv, TypeOK
<1>2. n \in Nodes /\ n \in Family(other) /\ n \in Family(n)
  BY <1>1, Climb DEF Climbed
<1>3. /\ second' = n /\ first' = first /\ this' = this /\ other' = other
      /\ parent' = parent
  BY DEF ClimbSecond
<1>4. TypeOK'
  BY <1>1, <1>2, <1>3 DEF TypeOK, ClimbSecond, Meet
<1>5. \A a : Family(a)' = Family(a)
  BY <1>3 DEF Family, Lineage
<1>6. Climbed'
  <2>1. ASSUME NEW m \in known, second \in Family(m)
        PROVE  n \in Family(m)
    <3>1. m \in Nodes
      BY <1>1 DEF TypeOK
    <3>2. QED
      BY <1>1, <2>1, <3>1, Climb
  <2>2. known' \subseteq known \cup {n}
    BY DEF ClimbSecond, Meet
  <2>3. ASSUME NEW m \in known'
        PROVE  \/ m \in Family(this) /\ first \in Family(m)
               \/ m \in Family(other) /\ n \in Family(m)
    BY <1>1, <1>2, <2>1, <2>2, <2>3 DEF Climbed
  <2>4. QED
    BY <1>1, <1>2, <1>3, <1>5, <2>3 DEF Climbed
<1>7. AnswerIsCommon'
  <2>1. CASE n \notin known
    BY <2>1 DEF ClimbSecond, Meet, AnswerIsCommon
  <2>2. CASE n \in known /\ n \in Above(this)
    <3>1. n \in Family(this)
      BY <1>1, <2>2, AboveIsFamily
    <3>2. result' = n /\ pc' = "found"
      BY <2>2 DEF ClimbSecond, Meet, HasAncestor
    <3>3. Common' = Common
      BY <1>3, <1>5 DEF Common
    <3>4. QED
      BY <1>2, <3>1, <3>2, <3>3 DEF AnswerIsCommon, Common
  <2>3. CASE n \in known /\ n \notin Above(this)
    <3>1. \/ n \in Family(other) /\ second \in Family(n)
          \/ n \in Family(this) /\ first \in Family(n)
      BY <1>1, <2>3 DEF Climbed
    <3>2. this \in Family(other) \/ Family(other) \cap Family(this) = {}
      BY <1>1, <2>3, <3>1, Refusal DEF Climbed
    <3>3. pc' = "failed"
      BY <2>3 DEF ClimbSecond, Meet, HasAncestor
    <3>4. QED
      BY <1>3, <1>5, <3>2, <3>3 DEF AnswerIsCommon, Common, Related
  <2>4. QED
    BY <2>1, <2>2, <2>3
<1>8. QED
  BY <1>4, <1>6, <1>7 DEF IInv

\* The invariant is inductive.
LEMMA Invariance == Spec => []IInv
<1>1. ASSUME IInv, UNCHANGED vars
      PROVE  IInv'
  BY <1>1 DEF IInv, vars, TypeOK, Climbed, AnswerIsCommon, Family, Lineage,
              Common, Related
<1>2. IInv /\ [Next]_vars => IInv'
  BY <1>1, ClimbFirstKeepsInvariant, ClimbSecondKeepsInvariant DEF Next
<1>3. QED
  BY InitInvariant, <1>2, PTL DEF Spec

-----------------------------------------------------------------------------
(* The nearest common ancestor *)

\* Of two members of a lineage one is above the other.
LEMMA LineageIsLinear ==
  ASSUME NEW up \in [Nodes -> Nodes], NEW n \in Nodes,
         NEW a \in Lineage(up, n), NEW b \in Lineage(up, n)
  PROVE  a \in Lineage(up, b) \/ b \in Lineage(up, a)
<1> DEFINE S == {m \in Lineage(up, n) : a \in Lineage(up, m) \/ m \in Lineage(up, a)}
<1>1. /\ Lineage(up, n) \in SUBSET Nodes /\ n \in Lineage(up, n)
      /\ \A m \in Lineage(up, n) : up[m] \in Lineage(up, n)
  BY LineageIsClosed
<1>2. a \in Nodes /\ a \in Lineage(up, a)
  BY <1>1, LineageIsClosed
<1>3. ASSUME NEW m \in S
      PROVE  up[m] \in S
  <2>1. m \in Nodes /\ up[m] \in Lineage(up, n)
    BY <1>1
  <2>2. CASE m \in Lineage(up, a)
    BY <1>2, <2>1, <2>2, LineageIsClosed
  <2>3. CASE a \in Lineage(up, m) /\ a # m
    BY <2>1, <2>3, LineageSplits
  <2>4. CASE a = m
    BY <1>2, <2>2, <2>4
  <2>5. QED
    BY <2>2, <2>3, <2>4
<1>4. S \in SUBSET Nodes /\ n \in S
  BY <1>1
<1> HIDE DEF S
<1>5. Lineage(up, n) \subseteq S
  BY <1>3, <1>4, LineageIsLeast
<1>6. QED
  BY <1>5 DEF S

\* Two Nodes with a common ancestor have a nearest one, and only one.
LEMMA NearestIsLeast ==
  ASSUME TypeOK, NEW c \in Common
  PROVE  /\ Nearest \in Common
         /\ Common \subseteq Family(Nearest)
         /\ \A a \in Common : Common \subseteq Family(a) => a = Nearest
<1>1. /\ parent \in [Nodes -> Nodes] /\ this \in Nodes /\ other \in Nodes
      /\ \A a, b \in Nodes : a \in Family(b) /\ b \in Family(a) => a = b
  BY Forest DEF TypeOK
<1>2. Common \subseteq Family(this) /\ Family(this) \subseteq Nodes
  BY <1>1, LineageIsClosed DEF Common, Family
<1>3. \E a \in Common : Common \subseteq Family(a)
  <2>1. SUFFICES ASSUME \A a \in Common : ~ (Common \subseteq Family(a))
                 PROVE  FALSE
    OBVIOUS
  <2> DEFINE S == {m \in Nodes : Common \subseteq Family(m)}
  <2>2. ASSUME NEW m \in S
        PROVE  parent[m] \in S
    <3>1. m \in Nodes /\ parent[m] \in Nodes /\ m \notin Common
      BY <1>1, <2>1
    <3>2. ASSUME NEW a \in Common
          PROVE  a \in Family(parent[m])
      <4>1. a \in Lineage(parent, m) /\ a # m
        BY <3>1 DEF Family
      <4>2. Lineage(parent, m) \subseteq {m} \cup Lineage(parent, parent[m])
        BY <1>1, <3>1, LineageSplits
      <4>3. QED
        BY <4>1, <4>2 DEF Family
    <3>3. QED
      BY <3>1, <3>2
  <2>3. S \in SUBSET Nodes /\ this \in S
    BY <1>1, <1>2
  <2> HIDE DEF S
  <2>4. Family(this) \subseteq S
    BY <1>1, <2>2, <2>3, LineageIsLeast DEF Family
  <2>5. c \in S
    BY <1>2, <2>4
  <2>6. QED
    BY <2>1, <2>5 DEF S
<1>4. Nearest \in Common /\ Common \subseteq Family(Nearest)
  BY <1>3 DEF Nearest
<1>5. QED
  BY <1>1, <1>2, <1>4

\* The depth of a Node counts the rest of its family.
LEMMA DepthCounts ==
  ASSUME TypeOK, NEW n \in Nodes
  PROVE  /\ IsFiniteSet(Family(n))
         /\ Depth(n) \in Nat
         /\ Cardinality(Family(n)) = Depth(n) + 1
<1>1. Family(n) \in SUBSET Nodes /\ n \in Family(n)
  BY Forest, LineageIsClosed DEF Family
<1>2. IsFiniteSet(Family(n))
  BY <1>1, FiniteAssumption, FS_Subset
<1>3. Above(n) \ {n} = Family(n) \ {n}
  <2>1. Above(n) \subseteq Family(n)
    BY AboveIsFamily
  <2>2. Family(n) \subseteq {n} \cup Above(n)
    BY Forest, LineageSplits DEF Family, Above
  <2>3. QED
    BY <2>1, <2>2
<1>4. /\ IsFiniteSet(Family(n) \ {n})
      /\ Cardinality(Family(n) \ {n}) = Cardinality(Family(n)) - 1
  BY <1>1, <1>2, FS_RemoveElement
<1>5. Cardinality(Family(n)) \in Nat /\ Depth(n) \in Nat
  BY <1>2, <1>3, <1>4, FS_CardinalityType DEF Depth
<1>6. QED
  BY <1>2, <1>3, <1>4, <1>5 DEF Depth

\* An ancestor is less deep.
LEMMA AncestorIsLessDeep ==
  ASSUME TypeOK, NEW n \in Nodes, NEW a \in Family(n), a # n
  PROVE  a \in Nodes /\ Depth(a) < Depth(n)
<1>1. Family(n) \in SUBSET Nodes /\ n \in Family(n)
  BY Forest, LineageIsClosed DEF Family
<1>2. Family(a) \subseteq Family(n)
  BY Forest, LineageOfMember DEF Family
<1>3. n \notin Family(a)
  BY <1>1, Forest
<1>4. /\ Cardinality(Family(a)) <= Cardinality(Family(n))
      /\ Cardinality(Family(n)) # Cardinality(Family(a))
  BY <1>1, <1>2, <1>3, DepthCounts, FS_Subset
<1>5. QED
  BY <1>1, <1>4, DepthCounts

\* The parent of a Node is less deep by one, the parent of a root is the root.
LEMMA ParentIsLessDeep ==
  ASSUME TypeOK, NEW n \in Nodes
  PROVE  /\ parent[n] # n => Depth(parent[n]) = Depth(n) - 1
         /\ parent[n] = n => Depth(n) = 0
<1> DEFINE p == parent[n]
<1>1. /\ Family(n) \in SUBSET Nodes /\ n \in Family(n) /\ p \in Nodes
      /\ p \in Family(n)
  BY Forest, LineageIsClosed DEF Family
<1>2. Family(p) \subseteq Family(n) /\ Family(n) \subseteq {n} \cup Family(p)
  BY <1>1, Forest, LineageOfMember, LineageSplits DEF Family
<1>3. CASE p # n
  <2>1. n \notin Family(p)
    BY <1>1, <1>3, Forest
  <2>2. Family(p) = Family(n) \ {n}
    BY <1>2, <2>1
  <2>3. Cardinality(Family(p)) = Cardinality(Family(n)) - 1
    BY <1>1, <2>2, DepthCounts, FS_RemoveElement
  <2>4. Depth(p) \in Nat /\ Cardinality(Family(p)) = Depth(p) + 1
    BY <1>1, DepthCounts
  <2>5. Depth(n) \in Nat /\ Cardinality(Family(n)) = Depth(n) + 1
    BY DepthCounts
  <2>6. QED
    BY <1>3, <2>3, <2>4, <2>5
<1>4. CASE p = n
  <2>1. {n} \in SUBSET Nodes /\ n \in {n} /\ \A m \in {n} : parent[m] \in {n}
    BY <1>4
  <2>2. Lineage(parent, n) \subseteq {n}
    BY <2>1, LineageIsLeast
  <2>3. Above(n) \ {n} = {}
    BY <1>4, <2>2 DEF Above
  <2>4. QED
    BY <1>4, <2>3, FS_EmptySet DEF Depth
<1>5. QED
  BY <1>3, <1>4

-----------------------------------------------------------------------------
(* Why the nearest one is found *)

Running == pc \in {"first", "second"}

\* All that a search has passed is known.
Remembered ==
  /\ \A m \in Family(this) : first \in Family(m) => m \in known
  /\ \A m \in Family(other) : second \in Family(m) => m \in known

\* The two searches have not both passed a common ancestor.
Apart == \A c \in Common : ~ (first \in Family(c) /\ second \in Family(c))

\* The two searches take turns: they have come up by the same number of Nodes,
\* or the first by one more.
Balanced ==
  Depth(this) - Depth(first)
    = Depth(other) - Depth(second) + (IF pc = "second" THEN 1 ELSE 0)

Searching == Running => Remembered /\ Apart /\ Balanced

SInv == Searching /\ NearestUnlessSteep

\* A climber that has not passed c, which lies on its way, is below c.
LEMMA NotYetPassed ==
  ASSUME TypeOK, NEW x \in Nodes, NEW a \in Family(x), NEW c \in Family(x),
         a \notin Family(c)
  PROVE  /\ a \in Nodes /\ c \in Nodes
         /\ c \in Family(parent[a])
         /\ Depth(c) < Depth(a)
<1>1. a \in Nodes /\ c \in Nodes /\ c \in Family(c)
  BY Forest, LineageIsClosed DEF Family
<1>2. c \in Family(a)
  BY Forest, LineageIsLinear DEF Family
<1>3. c # a
  BY <1>1
<1>4. c \in Family(parent[a])
  BY <1>1, <1>2, <1>3, Forest, LineageSplits DEF Family
<1>5. QED
  BY <1>1, <1>2, <1>3, <1>4, AncestorIsLessDeep

\* The climber from x comes to a Node it has just passed if it passes it now.
LEMMA PassesOneNode ==
  ASSUME TypeOK, NEW x \in Nodes, NEW a \in Family(x), NEW c \in Family(x),
         parent[a] \in Family(c)
  PROVE  a \in Family(c) \/ c = parent[a]
<1>1. a \in Nodes /\ c \in Nodes /\ parent[a] \in Nodes
  BY Forest, LineageIsClosed DEF Family
<1>2. QED
  BY <1>1, Forest, NotYetPassed

\* Where a search ends that has come from x to a, while the other one has come
\* from y to b: at the nearest common ancestor, or at the root, which it has
\* reached before, while the other one is still below the nearest.
LEMMA WhereItEnds ==
  ASSUME TypeOK,
         NEW x \in Nodes, NEW y \in Nodes, NEW a \in Family(x), NEW b \in Family(y),
         Common = Family(x) \cap Family(y), parent[a] \in Common,
         \A c \in Common : ~ (a \in Family(c) /\ b \in Family(c)),
         a \in Family(parent[a]) \/ b \in Family(parent[a])
  PROVE  /\ Nearest \in Nodes
         /\ \/ parent[a] = Nearest
            \/ Depth(a) = 0 /\ Depth(Nearest) < Depth(b)
<1> DEFINE n == parent[a]
           N == Nearest
<1>1. /\ a \in Nodes /\ n \in Nodes /\ n \in Family(a)
      /\ Family(x) \in SUBSET Nodes
  BY Forest, LineageIsClosed DEF Family
<1>2. N \in Common /\ n \in Family(N) /\ N \in Nodes
  BY <1>1, NearestIsLeast
<1>3. Family(n) \subseteq Family(N)
  BY <1>2, Forest, LineageOfMember DEF Family
<1>4. CASE a \in Family(n)
  <2>1. n = a
    BY <1>1, <1>4, Forest
  <2>2. Depth(a) = 0
    BY <1>1, <2>1, ParentIsLessDeep
  <2>3. b \notin Family(N)
    BY <1>2, <1>3, <1>4
  <2>4. Depth(N) < Depth(b)
    BY <1>2, <2>3, NotYetPassed
  <2>5. QED
    BY <1>2, <2>2, <2>4
<1>5. CASE b \in Family(n)
  <2>1. a \notin Family(N)
    BY <1>2, <1>3, <1>5
  <2>2. N \in Family(n)
    BY <1>2, <2>1, NotYetPassed
  <2>3. n = N
    BY <1>1, <1>2, <2>2, Forest
  <2>4. QED
    BY <1>2, <2>3
<1>6. QED
  BY <1>4, <1>5

\* The families, and what is defined by them, stay what they are.
LEMMA SameFamilies ==
  ASSUME parent' = parent, this' = this, other' = other
  PROVE  /\ \A n : Family(n)' = Family(n)
         /\ \A n : Depth(n)' = Depth(n)
         /\ Common' = Common /\ Nearest' = Nearest
<1>1. \A n : Family(n)' = Family(n) /\ Above(n)' = Above(n)
  BY DEF Family, Above, Lineage
<1>2. Common' = Common
  BY <1>1 DEF Common
<1>3. \A n : Depth(n)' = Depth(n)
  BY <1>1 DEF Depth
<1>4. Nearest' = Nearest
  BY <1>1, <1>2 DEF Nearest
<1>5. QED
  BY <1>1, <1>2, <1>3, <1>4

LEMMA InitSearching == Init => SInv
<1> SUFFICES ASSUME Init PROVE SInv
  OBVIOUS
<1>1. TypeOK
  BY InitInvariant DEF IInv
<1>2. /\ this \in Nodes /\ other \in Nodes
      /\ this \in Family(this) /\ other \in Family(other)
      /\ Family(this) \in SUBSET Nodes /\ Family(other) \in SUBSET Nodes
  BY <1>1, Forest, LineageIsClosed DEF TypeOK, Family
<1>3. first = this /\ second = other /\ known = {this, other}
  BY DEF Init
<1>4. CASE this # other
  <2>1. pc = "first"
    BY <1>4 DEF Init
  <2>2. Remembered
    BY <1>2, <1>3, Forest, <1>1 DEF Remembered
  <2>3. Apart
    BY <1>2, <1>3, <1>4, Forest, <1>1 DEF Apart, Common
  <2>4. Balanced
    BY <1>1, <1>2, <1>3, <2>1, DepthCounts DEF Balanced
  <2>5. QED
    BY <2>1, <2>2, <2>3, <2>4 DEF SInv, Searching, NearestUnlessSteep
<1>5. CASE this = other
  <2>1. pc = "found" /\ result = this
    BY <1>5 DEF Init
  <2>2. this \in Common /\ Common \subseteq Family(this)
    BY <1>2, <1>5 DEF Common
  <2>3. this = Nearest
    BY <1>1, <2>2, NearestIsLeast
  <2>4. QED
    BY <2>1, <2>3 DEF SInv, Searching, Running, NearestUnlessSteep
<1>6. QED
  BY <1>4, <1>5

LEMMA ClimbFirstKeepsSearching == IInv /\ SInv /\ ClimbFirst => SInv'
<1> SUFFICES ASSUME IInv, SInv, ClimbFirst PROVE SInv'
  OBVIOUS
<1> DEFINE n == parent[first]
<1>1. /\ TypeOK /\ Climbed /\ Remembered /\ Apart /\ Balanced
      /\ this \in Nodes /\ other \in Nodes /\ first \in Nodes /\ second \in Nodes
      /\ first \in Family(this) /\ second \in Family(other)
      /\ pc = "first"
  BY DEF IInv, TypeOK, SInv, Searching, Running, ClimbFirst, Climbed
<1>2. n \in Nodes /\ n \in Family(this) /\ first \in Family(first)
  BY <1>1, Climb, Forest, LineageIsClosed DEF Family
<1>3. /\ first' = n /\ second' = second /\ this' = this /\ other' = other
      /\ parent' = parent
  BY DEF ClimbFirst
<1>4. CASE n \notin known
  <2>1. known' = known \cup {n} /\ pc' = "second"
    BY <1>4 DEF ClimbFirst, Meet
  <2>2. Remembered'
    <3>1. ASSUME NEW m \in Family(this), n \in Family(m)
          PROVE  m \in known'
      BY <1>1, <2>1, <3>1, PassesOneNode DEF Remembered
    <3>2. ASSUME NEW m \in Family(other), second \in Family(m)
          PROVE  m \in known'
      BY <1>1, <2>1, <3>2 DEF Remembered
    <3>3. QED
      BY <1>3, <3>1, <3>2, SameFamilies DEF Remembered
  <2>3. Apart'
    <3>1. ASSUME NEW c \in Common, n \in Family(c), second \in Family(c)
          PROVE  FALSE
      <4>1. c = n
        BY <1>1, <3>1, PassesOneNode DEF Apart, Common
      <4>2. c \in known
        BY <1>1, <3>1 DEF Remembered, Common
      <4>3. QED
        BY <1>4, <4>1, <4>2
    <3>2. QED
      BY <1>3, <3>1, SameFamilies DEF Apart
  <2>4. Balanced'
    <3>1. first \in known
      BY <1>1, <1>2 DEF Remembered
    <3>2. Depth(n) = Depth(first) - 1
      BY <1>1, <1>4, <3>1, ParentIsLessDeep
    <3>3. Depth(this) - Depth(first) = Depth(other) - Depth(second)
      BY <1>1, DepthCounts DEF Balanced
    <3>4. Depth(this) - Depth(n) = Depth(other) - Depth(second) + 1
      BY <1>1, <1>2, <3>2, <3>3, DepthCounts
    <3>5. QED
      BY <1>3, <2>1, <3>4, SameFamilies DEF Balanced
  <2>5. QED
    BY <2>1, <2>2, <2>3, <2>4 DEF SInv, Searching, NearestUnlessSteep
<1>5. CASE n \in known /\ n \notin Above(other)
  <2>1. pc' = "failed"
    BY <1>5 DEF ClimbFirst, Meet, HasAncestor
  <2>2. QED
    BY <2>1 DEF SInv, Searching, Running, NearestUnlessSteep
<1>6. CASE n \in known /\ n \in Above(other)
  <2>1. pc' = "found" /\ result' = n
    BY <1>6 DEF ClimbFirst, Meet, HasAncestor
  <2>2. n \in Common
    BY <1>1, <1>2, <1>6, AboveIsFamily DEF Common
  <2>3. first \in Family(n) \/ second \in Family(n)
    BY <1>1, <1>6 DEF Climbed
  <2>4. /\ Nearest \in Nodes
        /\ n = Nearest \/ (Depth(first) = 0 /\ Depth(Nearest) < Depth(second))
    <3>1. Common = Family(this) \cap Family(other)
      BY DEF Common
    <3>2. \A c \in Common : ~ (first \in Family(c) /\ second \in Family(c))
      BY <1>1 DEF Apart
    <3>3. QED
      BY <1>1, <2>2, <2>3, <3>1, <3>2, WhereItEnds
  <2>5. ASSUME n # Nearest
        PROVE  Depth(other) - Depth(Nearest) > Depth(this)
    <3>1. Depth(this) - Depth(first) = Depth(other) - Depth(second)
      BY <1>1, DepthCounts DEF Balanced
    <3>2. QED
      BY <1>1, <2>4, <2>5, <3>1, DepthCounts
  <2>6. Depth(other) - Depth(Nearest) <= Depth(this) => n = Nearest
    BY <1>1, <2>4, <2>5, DepthCounts
  <2>7. NearestUnlessSteep'
    BY <1>3, <2>1, <2>6, SameFamilies DEF NearestUnlessSteep
  <2>8. QED
    BY <2>1, <2>7 DEF SInv, Searching, Running
<1>7. QED
  BY <1>4, <1>5, <1>6

LEMMA ClimbSecondKeepsSearching == IInv /\ SInv /\ ClimbSecond => SInv'
<1> SUFFICES ASSUME IInv, SInv, ClimbSecond PROVE SInv'
  OBVIOUS
<1> DEFINE n == parent[second]
<1>1. /\ TypeOK /\ Climbed /\ Remembered /\ Apart /\ Balanced
      /\ this \in Nodes /\ other \in Nodes /\ first \in Nodes /\ second \in Nodes
      /\ first \in Family(this) /\ second \in Family(other)
      /\ pc = "second"
  BY DEF IInv, TypeOK, SInv, Searching, Running, ClimbSecond, Climbed
<1>2. n \in Nodes /\ n \in Family(other) /\ second \in Family(second)
  BY <1>1, Climb, Forest, LineageIsClosed DEF Family
<1>3. /\ first' = first /\ second' = n /\ this' = this /\ other' = other
      /\ parent' = parent
  BY DEF ClimbSecond
<1>4. CASE n \notin known
  <2>1. known' = known \cup {n} /\ pc' = "first"
    BY <1>4 DEF ClimbSecond, Meet
  <2>2. Remembered'
    <3>1. ASSUME NEW m \in Family(other), n \in Family(m)
          PROVE  m \in known'
      BY <1>1, <2>1, <3>1, PassesOneNode DEF Remembered
    <3>2. ASSUME NEW m \in Family(this), first \in Family(m)
          PROVE  m \in known'
      BY <1>1, <2>1, <3>2 DEF Remembered
    <3>3. QED
      BY <1>3, <3>1, <3>2, SameFamilies DEF Remembered
  <2>3. Apart'
    <3>1. ASSUME NEW c \in Common, first \in Family(c), n \in Family(c)
          PROVE  FALSE
      <4>1. c = n
        BY <1>1, <3>1, PassesOneNode DEF Apart, Common
      <4>2. c \in known
        BY <1>1, <3>1 DEF Remembered, Common
      <4>3. QED
        BY <1>4, <4>1, <4>2
    <3>2. QED
      BY <1>3, <3>1, SameFamilies DEF Apart
  <2>4. Balanced'
    <3>1. second \in known
      BY <1>1, <1>2 DEF Remembered
    <3>2. Depth(n) = Depth(second) - 1
      BY <1>1, <1>4, <3>1, ParentIsLessDeep
    <3>3. Depth(this) - Depth(first) = Depth(other) - Depth(second) + 1
      BY <1>1 DEF Balanced
    <3>4. Depth(this) - Depth(first) = Depth(other) - Depth(n)
      BY <1>1, <1>2, <3>2, <3>3, DepthCounts
    <3>5. Depth(other) - Depth(n) + 0 = Depth(other) - Depth(n)
      BY <1>1, <1>2, DepthCounts
    <3>6. QED
      BY <1>3, <2>1, <3>4, <3>5, SameFamilies DEF Balanced
  <2>5. QED
    BY <2>1, <2>2, <2>3, <2>4 DEF SInv, Searching, NearestUnlessSteep
<1>5. CASE n \in known /\ n \notin Above(this)
  <2>1. pc' = "failed"
    BY <1>5 DEF ClimbSecond, Meet, HasAncestor
  <2>2. QED
    BY <2>1 DEF SInv, Searching, Running, NearestUnlessSteep
<1>6. CASE n \in known /\ n \in Above(this)
  <2>1. pc' = "found" /\ result' = n
    BY <1>6 DEF ClimbSecond, Meet, HasAncestor
  <2>2. n \in Common
    BY <1>1, <1>2, <1>6, AboveIsFamily DEF Common
  <2>3. second \in Family(n) \/ first \in Family(n)
    BY <1>1, <1>6 DEF Climbed
  <2>4. /\ Nearest \in Nodes
        /\ n = Nearest \/ (Depth(second) = 0 /\ Depth(Nearest) < Depth(first))
    <3>1. Common = Family(other) \cap Family(this)
      BY DEF Common
    <3>2. \A c \in Common : ~ (second \in Family(c) /\ first \in Family(c))
      BY <1>1 DEF Apart
    <3>3. QED
      BY <1>1, <2>2, <2>3, <3>1, <3>2, WhereItEnds
  <2>5. ASSUME n # Nearest
        PROVE  Depth(this) - Depth(Nearest) > Depth(other) + 1
    <3>1. Depth(this) - Depth(first) = Depth(other) - Depth(second) + 1
      BY <1>1 DEF Balanced
    <3>2. QED
      BY <1>1, <2>4, <2>5, <3>1, DepthCounts
  <2>6. Depth(this) - Depth(Nearest) <= Depth(other) + 1 => n = Nearest
    BY <1>1, <2>4, <2>5, DepthCounts
  <2>7. NearestUnlessSteep'
    BY <1>3, <2>1, <2>6, SameFamilies DEF NearestUnlessSteep
  <2>8. QED
    BY <2>1, <2>7 DEF SInv, Searching, Running
<1>7. QED
  BY <1>4, <1>5, <1>6

\* The invariant of the search is inductive.
LEMMA SearchInvariance == Spec => [](IInv /\ SInv)
<1>1. ASSUME SInv, UNCHANGED vars
      PROVE  SInv'
  <2>1. /\ parent' = parent /\ this' = this /\ other' = other /\ first' = first
        /\ second' = second /\ known' = known /\ result' = result /\ pc' = pc
    BY <1>1 DEF vars
  <2>2. QED
    BY <1>1, <2>1, SameFamilies DEF SInv, Searching, Running, Remembered,
       Apart, Balanced, NearestUnlessSteep
<1>2. IInv /\ SInv /\ [Next]_vars => SInv'
  BY <1>1, ClimbFirstKeepsSearching, ClimbSecondKeepsSearching DEF Next
<1>3. QED
  BY Invariance, InitSearching, <1>2, PTL DEF Spec

-----------------------------------------------------------------------------
(* Theorems *)

\* Every variable keeps its type, for every set of forests.
THEOREM Typing == Spec => []TypeOK
<1>1. IInv => TypeOK
  BY DEF IInv
<1>2. QED
  BY Invariance, <1>1, PTL

\* get_common_ancestor returns ancestors of both Nodes only, and throws only for
\* Nodes of different trees or Nodes of which one is an ancestor of the other.
THEOREM AnswersAreCommon == Spec => []AnswerIsCommon
<1>1. IInv => AnswerIsCommon
  BY DEF IInv
<1>2. QED
  BY Invariance, <1>1, PTL

\* "Finds and returns the first common ancestor of two Nodes" (any_node.hpp:295)
\* is what get_common_ancestor does, for Nodes of every tree, as long as neither
\* Node is deeper below it than the other one is below the root.
THEOREM TheNearestIsFound == Spec => []NearestUnlessSteep
<1>1. SInv => NearestUnlessSteep
  BY DEF SInv
<1>2. QED
  BY SearchInvariance, <1>1, PTL

\* How many Nodes the search has not met yet
ToMeet == Cardinality(Nodes \ known)

\* The loop of get_common_ancestor cannot go on forever, for any tree: a step that
\* does not end it leaves a Node fewer to be met.
THEOREM EveryStepCounts ==
  Spec => [][pc' \in {"found", "failed"} \/ (ToMeet' \in Nat /\ ToMeet' < ToMeet)]_vars
<1>1. ASSUME IInv, [Next]_vars
      PROVE  [pc' \in {"found", "failed"} \/ (ToMeet' \in Nat /\ ToMeet' < ToMeet)]_vars
  <2>1. SUFFICES ASSUME Next, pc' \notin {"found", "failed"}
                 PROVE  ToMeet' \in Nat /\ ToMeet' < ToMeet
    BY <1>1
  <2>2. first \in Nodes /\ second \in Nodes /\ parent \in [Nodes -> Nodes]
    BY <1>1, Forest DEF IInv, TypeOK
  <2>3. PICK n \in Nodes : n \notin known /\ known' = known \cup {n}
    <3>1. CASE ClimbFirst
      BY <2>1, <2>2, <3>1 DEF ClimbFirst, Meet
    <3>2. CASE ClimbSecond
      BY <2>1, <2>2, <3>2 DEF ClimbSecond, Meet
    <3>3. QED
      BY <2>1, <3>1, <3>2 DEF Next
  <2>4. IsFiniteSet(Nodes \ known) /\ n \in Nodes \ known
    BY <2>3, FiniteAssumption, FS_Difference
  <2>5. /\ Nodes \ known' = (Nodes \ known) \ {n}
        /\ Cardinality(Nodes \ known) \in Nat
    BY <2>3, <2>4, FS_CardinalityType
  <2>6. /\ IsFiniteSet(Nodes \ known')
        /\ Cardinality(Nodes \ known') = Cardinality(Nodes \ known) - 1
    BY <2>4, <2>5, FS_RemoveElement
  <2>7. Cardinality(Nodes \ known') \in Nat
    BY <2>6, FS_CardinalityType
  <2>8. QED
    BY <2>5, <2>6, <2>7 DEF ToMeet
<1>2. QED
  BY Invariance, <1>1, PTL DEF Spec
=============================================================================
