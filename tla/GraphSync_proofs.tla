-------------------------- MODULE GraphSync_proofs --------------------------
(***************************************************************************)
(* Proofs about GraphSync for every set of Nodes, Properties and values.   *)
(*                                                                         *)
(* That the hierarchy stays a tree in which nothing that is reachable was  *)
(* destroyed holds whoever stores whose NodeOwner.  The theorems on what   *)
(* the two threads see are for Graphs in which nobody stores the NodeOwner *)
(* of another Node (Unowned): with one, TLC finds a change that            *)
(* synchronize loses, so they need it.                                     *)
(*                                                                         *)
(* The lemmas about sequences of children serve the z-order as well, whose *)
(* theorems about MCZOrder are at the end.                                 *)
(***************************************************************************)
EXTENDS GraphSync, MCZOrder, FiniteSetTheorems, FunctionTheorems, SequenceTheorems, TLAPS

\* Nobody stores the NodeOwner of another Node.
Unowned == Owner = [n \in Nodes |-> None]

-----------------------------------------------------------------------------
(* Sequences of children *)

\* No element is there twice.
Distinct(s) == \A i, j \in 1 .. Len(s) : s[i] = s[j] => i = j

\* A new child is added to the others.
LEMMA AppendElements ==
  ASSUME NEW S, NEW s \in Seq(S), NEW c \in S
  PROVE  /\ Append(s, c) \in Seq(S)
         /\ Elements(Append(s, c)) = Elements(s) \cup {c}
<1>1. Append(s, c) \in Seq(S) /\ Len(Append(s, c)) = Len(s) + 1 /\ Len(s) \in Nat
  BY AppendProperties, LenProperties
<1>2. \A i \in 1 .. Len(s) : Append(s, c)[i] = s[i] BY AppendProperties
<1>3. Append(s, c)[Len(s) + 1] = c BY AppendProperties
<1>4. 1 .. Len(s) + 1 = (1 .. Len(s)) \cup {Len(s) + 1} BY <1>1
<1> QED BY <1>1, <1>2, <1>3, <1>4 DEF Elements

\* Induction over the natural numbers, for a set: the numbers up to n that are not
\* in it would be mapped into themselves by m - 1, and n would be no image.
LEMMA Induction ==
  ASSUME NEW S \in SUBSET Nat, 0 \in S, \A n \in S : n + 1 \in S
  PROVE  S = Nat
<1> SUFFICES ASSUME NEW n \in Nat, n \notin S PROVE FALSE
  OBVIOUS
<1> DEFINE C == {m \in 0 .. n : m \notin S}
           f == [m \in C |-> m - 1]
<1>1. C \in SUBSET (0 .. n) /\ n \in C
  OBVIOUS
<1>2. IsFiniteSet(C)
  <2>1. IsFiniteSet(0 .. n)
    BY FS_Interval
  <2> HIDE DEF C
  <2> QED
    BY <1>1, <2>1, FS_Subset
<1>3. ASSUME NEW m \in C PROVE m - 1 \in C /\ m - 1 < n
  OBVIOUS
<1>4. f \in Injection(C, C)
  BY <1>3, Fun_IsInj
<1>5. f \in Surjection(C, C)
  BY <1>2, <1>4, FS_Injection
<1>6. PICK m \in C : f[m] = n
  BY <1>1, <1>5 DEF Surjection
<1>7. QED
  BY <1>3, <1>6

\* A new element is not among the others.
LEMMA AppendDistinct ==
  ASSUME NEW S, NEW s \in Seq(S), NEW c \in S, c \notin Elements(s), Distinct(s)
  PROVE  Distinct(Append(s, c))
<1>1. Len(Append(s, c)) = Len(s) + 1 /\ Len(s) \in Nat
  BY AppendProperties, LenProperties
<1>2. \A i \in 1 .. Len(s) : Append(s, c)[i] = s[i] /\ s[i] # c
  BY AppendProperties DEF Elements
<1>3. Append(s, c)[Len(s) + 1] = c
  BY AppendProperties
<1>4. 1 .. Len(s) + 1 = (1 .. Len(s)) \cup {Len(s) + 1}
  BY <1>1
<1> QED
  BY <1>1, <1>2, <1>3, <1>4 DEF Distinct

\* Append and \o under names of their own: the provers take an equation between
\* two of them apart, place by place, unless they are told nothing about them.
Add(s, x) == Append(s, x)
Join(s, t) == s \o t

LEMMA AddSeq ==
  ASSUME NEW S
  PROVE  \A s \in Seq(S), c \in S :
           /\ Add(s, c) \in Seq(S)
           /\ Elements(Add(s, c)) = Elements(s) \cup {c}
           /\ Distinct(s) /\ c \notin Elements(s) => Distinct(Add(s, c))
BY AppendElements, AppendDistinct DEF Add

LEMMA JoinSeq ==
  ASSUME NEW S
  PROVE  /\ \A s, t \in Seq(S) : Join(s, t) \in Seq(S)
         /\ \A s \in Seq(S) : Join(s, <<>>) = s
BY ConcatProperties, ConcatEmptySeq DEF Join

LEMMA JoinAdd ==
  ASSUME NEW S
  PROVE  \A s, t \in Seq(S) : \A x \in S : Add(Join(s, t), x) = Join(s, Add(t, x))
<1> SUFFICES ASSUME NEW s \in Seq(S), NEW t \in Seq(S), NEW x \in S
             PROVE  Add(Join(s, t), x) = Join(s, Add(t, x))
  OBVIOUS
<1>1. PICK c \in Seq(S) : c = <<x>>
  <2>1. <<x>> \in Seq(S)
    OBVIOUS
  <2> QED
    BY <2>1
<1>2. \A q \in Seq(S) : Add(q, x) = Join(q, c)
  BY <1>1, AppendIsConcat DEF Add, Join
<1>3. Join(Join(s, t), c) = Join(s, Join(t, c))
  BY ConcatAssociative DEF Join
<1>4. Join(s, t) \in Seq(S)
  BY JoinSeq
<1> QED
  BY <1>2, <1>3, <1>4

\* Kept is a run of the loop that Without describes.
Kept(s, L, n, F) ==
  /\ F[0] = <<>>
  /\ \A i \in 1 .. n :
       F[i] = IF s[i] \in L THEN F[i - 1] ELSE Add(F[i - 1], s[i])

\* There is one, and Without is its result.
LEMMA KeptExists ==
  ASSUME NEW S, NEW s \in Seq(S), NEW L
  PROVE  \E F \in [0 .. Len(s) -> Seq(S)] :
           Kept(s, L, Len(s), F) /\ Without(s, L) = F[Len(s)]
<1> DEFINE N == Len(s)
           P == {n \in Nat : n <= N => \E F \in [0 .. n -> Seq(S)] : Kept(s, L, n, F)}
<1>1. N \in Nat /\ \A i \in 1 .. N : s[i] \in S
  BY LenProperties, ElementOfSeq
<1>2. 0 \in P
  <2> DEFINE F == [i \in 0 .. 0 |-> <<>>]
  <2>1. F \in [0 .. 0 -> Seq(S)] /\ Kept(s, L, 0, F)
    BY EmptySeq DEF Kept
  <2> QED
    BY <2>1
<1> HIDE DEF N
<1>3. ASSUME NEW n \in P PROVE n + 1 \in P
  <2> SUFFICES ASSUME n + 1 <= N
               PROVE  \E F \in [0 .. n + 1 -> Seq(S)] : Kept(s, L, n + 1, F)
    OBVIOUS
  <2>1. n \in Nat /\ n <= N
    BY <1>1
  <2>2. PICK F \in [0 .. n -> Seq(S)] : Kept(s, L, n, F)
    BY <2>1
  <2> DEFINE t == IF s[n + 1] \in L THEN F[n] ELSE Add(F[n], s[n + 1])
             G == [i \in 0 .. n + 1 |-> IF i = n + 1 THEN t ELSE F[i]]
  <2>3. s[n + 1] \in S /\ F[n] \in Seq(S)
    BY <1>1, <2>1, <2>2
  <2>4. t \in Seq(S)
    BY <2>3, AddSeq
  <2>5. G \in [0 .. n + 1 -> Seq(S)]
    <3> HIDE DEF t
    <3> QED BY <2>1, <2>2, <2>4
  <2>6. \A i \in 0 .. n : G[i] = F[i]
    BY <2>1
  <2>7. G[n + 1] = t
    BY <2>1
  <2> HIDE DEF G
  <2>8. Kept(s, L, n + 1, G)
    <3>1. ASSUME NEW i \in 1 .. n + 1
          PROVE  G[i] = IF s[i] \in L THEN G[i - 1] ELSE Add(G[i - 1], s[i])
      <4>1. CASE i = n + 1
        BY <2>1, <2>6, <2>7, <4>1
      <4>2. CASE i # n + 1
        <5>1. i \in 1 .. n /\ i \in 0 .. n /\ i - 1 \in 0 .. n
          BY <2>1, <4>2
        <5>2. G[i] = F[i] /\ G[i - 1] = F[i - 1]
          BY <2>6, <5>1
        <5> QED
          BY <2>2, <5>1, <5>2 DEF Kept
      <4> QED
        BY <4>1, <4>2
    <3>2. G[0] = <<>>
      <4>1. 0 \in 0 .. n
        BY <2>1
      <4>2. F[0] = <<>>
        BY <2>2 DEF Kept
      <4> QED
        BY <2>6, <4>1, <4>2
    <3> QED
      BY <3>1, <3>2 DEF Kept
  <2> QED
    BY <2>5, <2>8
<1>4. P \in SUBSET Nat
  OBVIOUS
<1> HIDE DEF P
<1>5. P = Nat
  BY <1>2, <1>3, <1>4, Induction
<1>6. PICK F \in [0 .. N -> Seq(S)] : Kept(s, L, N, F)
  <2>1. N \in P /\ N <= N
    BY <1>1, <1>5
  <2> QED
    BY <2>1 DEF P
<1> DEFINE R(g) == g = [i \in 0 .. N |-> IF i = 0 THEN <<>>
                          ELSE IF s[i] \in L THEN g[i - 1] ELSE Add(g[i - 1], s[i])]
           K == CHOOSE g : R(g)
<1>7. R(F)
  <2>1. F = [i \in 0 .. N |-> F[i]]
    BY <1>6
  <2>2. \A i \in 0 .. N : F[i] = IF i = 0 THEN <<>>
                          ELSE IF s[i] \in L THEN F[i - 1] ELSE Add(F[i - 1], s[i])
    <3>1. \A i \in 0 .. N : i = 0 \/ i \in 1 .. N
      BY <1>1
    <3> QED
      BY <1>1, <1>6, <3>1 DEF Kept
  <2> QED
    BY <2>1, <2>2
<1>8. R(K)
  <2> HIDE DEF R
  <2> QED BY <1>7
<1>9. Without(s, L) = K[N]
  BY DEF Without, N, Add
<1> HIDE DEF K
<1>10. DOMAIN K = 0 .. N /\ Kept(s, L, N, K)
  <2>1. DOMAIN K = 0 .. N
    BY <1>8
  <2>2. \A i \in 0 .. N : K[i] = IF i = 0 THEN <<>>
                          ELSE IF s[i] \in L THEN K[i - 1] ELSE Add(K[i - 1], s[i])
    BY <1>8
  <2>3. 0 \in 0 .. N /\ \A i \in 1 .. N : i \in 0 .. N /\ i # 0
    BY <1>1
  <2> QED
    BY <2>1, <2>2, <2>3 DEF Kept
<1>a. \A q \in Seq(S), c \in S : Add(q, c) \in Seq(S)
  BY AddSeq
<1>11. \A i \in 0 .. N : K[i] \in Seq(S)
  <2> DEFINE Q == {i \in Nat : i <= N => K[i] \in Seq(S)}
  <2>1. 0 \in Q
    BY <1>10, EmptySeq DEF Kept
  <2>2. ASSUME NEW i \in Q PROVE i + 1 \in Q
    <3> SUFFICES ASSUME i + 1 <= N PROVE K[i + 1] \in Seq(S)
      OBVIOUS
    <3>1. i \in Nat /\ i + 1 \in 1 .. N /\ (i + 1) - 1 = i /\ K[i] \in Seq(S)
      BY <1>1
    <3>2. K[i + 1] = IF s[i + 1] \in L THEN K[i] ELSE Add(K[i], s[i + 1])
      BY <1>10, <3>1 DEF Kept
    <3> QED
      BY <1>1, <1>a, <3>1, <3>2
  <2>3. Q \in SUBSET Nat
    OBVIOUS
  <2> HIDE DEF Q
  <2>4. Q = Nat
    BY <2>1, <2>2, <2>3, Induction
  <2>5. \A i \in 0 .. N : i \in Q /\ i <= N
    BY <1>1, <2>4
  <2> QED
    BY <2>5 DEF Q
<1>12. K \in [0 .. N -> Seq(S)]
  BY <1>8, <1>11
<1> QED
  BY <1>9, <1>10, <1>12 DEF N

\* Without leaves out the members of L and nothing else.
LEMMA WithoutElements ==
  ASSUME NEW S, NEW s \in Seq(S), NEW L
  PROVE  /\ Without(s, L) \in Seq(S)
         /\ Elements(Without(s, L)) = Elements(s) \ L
         /\ Distinct(s) => Distinct(Without(s, L))
<1> DEFINE N == Len(s)
<1>1. PICK F \in [0 .. N -> Seq(S)] : Kept(s, L, N, F) /\ Without(s, L) = F[N]
  BY KeptExists
<1>2. N \in Nat /\ \A i \in 1 .. N : s[i] \in S
  BY LenProperties, ElementOfSeq
<1> DEFINE Upto(i) == {s[j] : j \in 1 .. i}
           R(i) == Elements(F[i]) = Upto(i) \ L /\ (Distinct(s) => Distinct(F[i]))
           Q == {i \in Nat : i <= N => R(i)}
<1>3. Upto(N) = Elements(s)
  BY DEF Elements
<1>4. 0 \in Q
  <2>1. F[0] = <<>> /\ Len(F[0]) = 0
    BY <1>1, EmptySeq DEF Kept
  <2>2. 1 .. 0 = {}
    OBVIOUS
  <2>3. Elements(F[0]) = {} /\ Distinct(F[0]) /\ Upto(0) = {}
    BY <2>1, <2>2 DEF Elements, Distinct
  <2> QED
    BY <2>3
<1> HIDE DEF N
<1>5. ASSUME NEW i \in Q PROVE i + 1 \in Q
  <2> SUFFICES ASSUME i + 1 <= N
               PROVE  /\ Elements(F[i + 1]) = Upto(i + 1) \ L
                      /\ Distinct(s) => Distinct(F[i + 1])
    BY <1>2
  <2>1. i \in Nat /\ i <= N /\ i + 1 \in 1 .. N /\ i \in 0 .. N /\ (i + 1) - 1 = i
    BY <1>2
  <2>2. F[i + 1] = IF s[i + 1] \in L THEN F[i] ELSE Add(F[i], s[i + 1])
    BY <1>1, <2>1 DEF Kept
  <2>3. F[i] \in Seq(S) /\ s[i + 1] \in S
    BY <1>1, <1>2, <2>1
  <2>8. Elements(F[i]) = Upto(i) \ L /\ (Distinct(s) => Distinct(F[i]))
    BY <2>1
  <2> HIDE DEF Q
  <2>4. Upto(i + 1) = Upto(i) \cup {s[i + 1]}
    <3>1. 1 .. i + 1 = (1 .. i) \cup {i + 1}
      BY <2>1
    <3> QED
      BY <3>1
  <2>5. ASSUME Distinct(s) PROVE s[i + 1] \notin Upto(i)
    <3>1. \A j \in 1 .. i : j \in 1 .. N /\ j # i + 1
      BY <1>2, <2>1
    <3> QED
      BY <1>2, <2>1, <2>5, <3>1 DEF Distinct, N
  <2> HIDE DEF Upto
  <2>6. CASE s[i + 1] \in L
    BY <2>2, <2>3, <2>4, <2>6, <2>8
  <2>7. CASE s[i + 1] \notin L
    <3>1. F[i + 1] = Add(F[i], s[i + 1])
      BY <2>2, <2>7
    <3>2. Elements(F[i + 1]) = Elements(F[i]) \cup {s[i + 1]}
      BY <2>3, <3>1, AddSeq
    <3>3. Distinct(s) => Distinct(F[i + 1])
      <4>1. \A q \in Seq(S), c \in S :
              Distinct(q) /\ c \notin Elements(q) => Distinct(Add(q, c))
        BY AddSeq
      <4>2. Distinct(s) => s[i + 1] \notin Elements(F[i])
        BY <2>5, <2>8
      <4> QED
        BY <2>3, <2>8, <3>1, <4>1, <4>2
    <3> QED
      BY <2>8, <2>4, <2>7, <3>2, <3>3
  <2> QED
    BY <2>6, <2>7
<1>6. Q \in SUBSET Nat
  OBVIOUS
<1> HIDE DEF Q
<1>7. Q = Nat
  BY <1>4, <1>5, <1>6, Induction
<1>8. N \in Q /\ N <= N /\ N \in 0 .. N
  BY <1>2, <1>7
<1> HIDE DEF Upto
<1>9. Elements(F[N]) = Upto(N) \ L /\ (Distinct(s) => Distinct(F[N]))
  BY <1>8 DEF Q
<1> QED
  BY <1>1, <1>3, <1>8, <1>9

\* What is left of two sequences in a row
LEMMA WithoutConcat ==
  ASSUME NEW S, NEW s \in Seq(S), NEW t \in Seq(S), NEW L
  PROVE  Without(Join(s, t), L) = Join(Without(s, L), Without(t, L))
<1> DEFINE u == Join(s, t)
           M == Len(s)
           N == Len(t)
<1>1. /\ M \in Nat /\ N \in Nat /\ u \in Seq(S) /\ Len(u) = M + N
      /\ \A i \in 1 .. M : u[i] = s[i]
      /\ \A i \in 1 .. N : u[M + i] = t[i] /\ t[i] \in S
  <2>1. M \in Nat /\ N \in Nat /\ u \in Seq(S) /\ Len(u) = M + N
    BY LenProperties, ConcatProperties DEF Join
  <2>2. \A i \in 1 .. M + N : u[i] = IF i <= M THEN s[i] ELSE t[i - M]
    BY ConcatProperties DEF Join
  <2>3. \A i \in 1 .. N : t[i] \in S
    BY ElementOfSeq
  <2> HIDE DEF M, N, u
  <2>4. \A i \in 1 .. M : i \in 1 .. M + N /\ i <= M
    BY <2>1
  <2>5. \A i \in 1 .. N : M + i \in 1 .. M + N /\ ~ (M + i <= M) /\ (M + i) - M = i
    BY <2>1
  <2> QED
    BY <2>1, <2>2, <2>3, <2>4, <2>5
<1>2. PICK F \in [0 .. M -> Seq(S)] : Kept(s, L, M, F) /\ Without(s, L) = F[M]
  BY KeptExists
<1>3. PICK G \in [0 .. N -> Seq(S)] : Kept(t, L, N, G) /\ Without(t, L) = G[N]
  BY KeptExists
<1>4. PICK H \in [0 .. M + N -> Seq(S)] : Kept(u, L, M + N, H) /\ Without(u, L) = H[M + N]
  <2>1. \E H \in [0 .. Len(u) -> Seq(S)] : Kept(u, L, Len(u), H) /\ Without(u, L) = H[Len(u)]
    <3>1. u \in Seq(S)
      BY <1>1
    <3> QED
      BY <3>1, KeptExists
  <2> QED
    BY <1>1, <2>1
<1> HIDE DEF u, M, N
<1> DEFINE P == {i \in Nat : i <= M => H[i] = F[i]}
           R(i) == H[M + i] = Join(F[M], G[i])
           Q == {i \in Nat : i <= N => R(i)}
<1>5. P = Nat
  <2>1. 0 \in P
    BY <1>2, <1>4 DEF Kept
  <2>2. ASSUME NEW i \in P PROVE i + 1 \in P
    <3> SUFFICES ASSUME i + 1 <= M PROVE H[i + 1] = F[i + 1]
      OBVIOUS
    <3>0. i \in Nat /\ (i <= M => H[i] = F[i])
      OBVIOUS
    <3> HIDE DEF P
    <3>1. /\ i \in Nat /\ i + 1 \in 1 .. M /\ i + 1 \in 1 .. M + N /\ (i + 1) - 1 = i
          /\ H[i] = F[i]
      <4>1. i \in Nat /\ i <= M
        BY <1>1, <3>0
      <4>2. i + 1 \in 1 .. M /\ i + 1 \in 1 .. M + N /\ (i + 1) - 1 = i
        BY <1>1, <4>1
      <4> QED
        BY <3>0, <4>1, <4>2
    <3>2. H[i + 1] = IF u[i + 1] \in L THEN H[i] ELSE Add(H[i], u[i + 1])
      BY <1>4, <3>1 DEF Kept
    <3>3. F[i + 1] = IF s[i + 1] \in L THEN F[i] ELSE Add(F[i], s[i + 1])
      BY <1>2, <3>1 DEF Kept
    <3> QED
      BY <1>1, <3>1, <3>2, <3>3
  <2>3. P \in SUBSET Nat
    OBVIOUS
  <2> HIDE DEF P
  <2> QED
    BY <2>1, <2>2, <2>3, Induction
<1> HIDE DEF Q
<1>6. H[M] = F[M] /\ F[M] \in Seq(S)
  <2>1. M <= M /\ M \in 0 .. M
    BY <1>1
  <2>2. M \in P
    <3> HIDE DEF P
    <3> QED BY <1>1, <1>5
  <2> QED
    BY <1>2, <2>1, <2>2
<1> HIDE DEF P
<1> USE DEF Q
<1>7. Q = Nat
  <2>1. 0 \in Q
    <3>1. G[0] = <<>> /\ M + 0 = M
      BY <1>1, <1>3 DEF Kept
    <3>2. Join(F[M], <<>>) = F[M]
      BY <1>6, JoinSeq
    <3> QED
      BY <1>6, <3>1, <3>2
  <2>2. ASSUME NEW i \in Q PROVE i + 1 \in Q
    <3> HIDE DEF R
    <3> SUFFICES ASSUME i + 1 <= N PROVE R(i + 1)
      BY <1>1
    <3>0. i \in Nat
      OBVIOUS
    <3>a. R(i)
      <4>1. i <= N
        BY <1>1, <3>0
      <4> QED
        BY <4>1
    <3> HIDE DEF Q
    <3>1. /\ i \in Nat /\ i + 1 \in 1 .. N /\ (i + 1) - 1 = i /\ i \in 0 .. N
          /\ M + (i + 1) \in 1 .. M + N /\ (M + (i + 1)) - 1 = M + i
          /\ H[M + i] = Join(F[M], G[i])
      <4>1. /\ i \in Nat /\ i + 1 \in 1 .. N /\ (i + 1) - 1 = i /\ i \in 0 .. N
            /\ M + (i + 1) \in 1 .. M + N /\ (M + (i + 1)) - 1 = M + i
        BY <1>1, <3>0
      <4>2. H[M + i] = Join(F[M], G[i])
        BY <3>a DEF R
      <4> QED
        BY <4>1, <4>2
    <3> DEFINE x == t[i + 1]
    <3>2. u[M + (i + 1)] = x /\ x \in S /\ G[i] \in Seq(S)
      BY <1>1, <1>3, <3>1
    <3>3. H[M + (i + 1)] = IF x \in L THEN H[M + i] ELSE Add(H[M + i], x)
      BY <1>4, <3>1, <3>2 DEF Kept
    <3>4. G[i + 1] = IF x \in L THEN G[i] ELSE Add(G[i], x)
      BY <1>3, <3>1 DEF Kept
    <3> HIDE DEF x
    <3>5. Add(Join(F[M], G[i]), x) = Join(F[M], Add(G[i], x))
      <4> HIDE DEF R
      <4>1. \A a, b \in Seq(S) : \A z \in S : Add(Join(a, b), z) = Join(a, Add(b, z))
        BY JoinAdd
      <4> QED
        BY <1>6, <3>2, <4>1
    <3>6. H[M + (i + 1)] = Join(F[M], G[i + 1])
      <4>1. CASE x \in L
        BY <4>1, <3>1, <3>3, <3>4
      <4>2. CASE x \notin L
        BY <4>2, <3>1, <3>3, <3>4, <3>5
      <4> QED
        BY <4>1, <4>2
    <3> QED
      BY <3>6 DEF R
  <2>3. Q \in SUBSET Nat
    OBVIOUS
  <2> HIDE DEF Q
  <2> QED
    BY <2>1, <2>2, <2>3, Induction
<1> HIDE DEF Q
<1>8. N \in Q /\ N <= N
  BY <1>1, <1>7
<1> QED
  BY <1>2, <1>3, <1>4, <1>8 DEF u, Q, R

\* An element that is left out leaves nothing.
LEMMA WithoutItself ==
  ASSUME NEW S, NEW x \in S
  PROVE  Without(<<x>>, {x}) = <<>>
<1>1. <<x>> \in Seq(S) /\ Len(<<x>>) = 1 /\ <<x>>[1] = x
  OBVIOUS
<1>2. PICK F \in [0 .. 1 -> Seq(S)] : Kept(<<x>>, {x}, 1, F) /\ Without(<<x>>, {x}) = F[1]
  <2> DEFINE s == <<x>>
  <2>1. s \in Seq(S)
    BY <1>1
  <2>2. Len(s) = 1
    BY <1>1
  <2> HIDE DEF s
  <2>3. \E F \in [0 .. Len(s) -> Seq(S)] : Kept(s, {x}, Len(s), F) /\ Without(s, {x}) = F[Len(s)]
    BY <2>1, KeptExists
  <2> QED
    BY <2>2, <2>3 DEF s
<1>3. 1 \in 1 .. 1 /\ 1 - 1 = 0
  OBVIOUS
<1> QED
  BY <1>1, <1>2, <1>3 DEF Kept

\* A part of a sequence, place by place
LEMMA SubSeqPlaces ==
  ASSUME NEW S, NEW s \in Seq(S), NEW m \in Int, NEW n \in Int,
         1 <= m, m <= n + 1, n <= Len(s)
  PROVE  /\ SubSeq(s, m, n) \in Seq(S)
         /\ Len(SubSeq(s, m, n)) = n - m + 1
         /\ \A i \in 1 .. n - m + 1 : SubSeq(s, m, n)[i] = s[m + i - 1]
<1>1. Len(s) \in Nat /\ \A i \in 1 .. Len(s) : s[i] \in S
  BY LenProperties, ElementOfSeq
<1>2. \A i \in m .. n : s[i] \in S
  BY <1>1
<1>3. /\ SubSeq(s, m, n) \in Seq(S)
      /\ Len(SubSeq(s, m, n)) = IF m <= n THEN n - m + 1 ELSE 0
      /\ \A i \in 1 .. n - m + 1 : SubSeq(s, m, n)[i] = s[m + i - 1]
  BY <1>2, SubSeqProperties
<1> QED
  BY <1>3

\* Two sequences in a row, place by place
Row(s, t, u) ==
  /\ Len(s) \in Nat /\ Len(t) \in Nat
  /\ Len(u) = Len(s) + Len(t)
  /\ \A i \in 1 .. Len(s) : u[i] = s[i]
  /\ \A i \in 1 .. Len(t) : u[Len(s) + i] = t[i]

LEMMA ConcatPlaces ==
  ASSUME NEW S
  PROVE  \A s, t \in Seq(S) :
           Join(s, t) \in Seq(S) /\ Row(s, t, Join(s, t))
<1> SUFFICES ASSUME NEW s \in Seq(S), NEW t \in Seq(S)
             PROVE  Join(s, t) \in Seq(S) /\ Row(s, t, Join(s, t))
  OBVIOUS
<1> DEFINE u == Join(s, t)
           M == Len(s)
           N == Len(t)
<1>1. M \in Nat /\ N \in Nat /\ u \in Seq(S) /\ Len(u) = M + N
  BY LenProperties, ConcatProperties DEF Join
<1>2. \A i \in 1 .. M + N : u[i] = IF i <= M THEN s[i] ELSE t[i - M]
  BY ConcatProperties DEF Join
<1> HIDE DEF M, N, u
<1>3. \A i \in 1 .. M : i \in 1 .. M + N /\ i <= M
  BY <1>1
<1>4. \A i \in 1 .. N : M + i \in 1 .. M + N /\ ~ (M + i <= M) /\ (M + i) - M = i
  BY <1>1
<1>5. (\A i \in 1 .. M : u[i] = s[i]) /\ \A i \in 1 .. N : u[M + i] = t[i]
  BY <1>2, <1>3, <1>4
<1> QED
  BY <1>1, <1>5 DEF u, M, N, Row

\* What stands at each place after place i has been erased
LEMMA ErasePlaces ==
  ASSUME NEW S, NEW s \in Seq(S), NEW i \in 1 .. Len(s)
  PROVE  /\ Erase(s, i) \in Seq(S)
         /\ Len(Erase(s, i)) = Len(s) - 1
         /\ \A k \in 1 .. Len(s) - 1 : Erase(s, i)[k] = s[IF k < i THEN k ELSE k + 1]
<1> DEFINE A == SubSeq(s, 1, i - 1)
           B == SubSeq(s, i + 1, Len(s))
           N == Len(s)
<1>1. N \in Nat /\ i \in Nat /\ 1 <= i /\ i <= N
  BY LenProperties
<1>2. /\ A \in Seq(S) /\ Len(A) = i - 1
      /\ \A k \in 1 .. i - 1 : A[k] = s[k]
  <2>1. /\ A \in Seq(S) /\ Len(A) = i - 1 - 1 + 1
        /\ \A k \in 1 .. i - 1 - 1 + 1 : A[k] = s[1 + k - 1]
    BY <1>1, SubSeqPlaces
  <2> HIDE DEF A
  <2> QED
    BY <1>1, <2>1
<1>3. /\ B \in Seq(S) /\ Len(B) = N - i
      /\ \A k \in 1 .. N - i : B[k] = s[i + k]
  <2>1. /\ B \in Seq(S) /\ Len(B) = N - (i + 1) + 1
        /\ \A k \in 1 .. N - (i + 1) + 1 : B[k] = s[(i + 1) + k - 1]
    BY <1>1, SubSeqPlaces
  <2> HIDE DEF B, N
  <2>2. N - (i + 1) + 1 = N - i /\ \A k \in 1 .. N - i : (i + 1) + k - 1 = i + k
    BY <1>1
  <2> QED
    BY <2>1, <2>2
<1> HIDE DEF A, B, N
<1>4. /\ Join(A, B) \in Seq(S) /\ Len(Join(A, B)) = (i - 1) + (N - i)
      /\ \A k \in 1 .. i - 1 : Join(A, B)[k] = A[k]
      /\ \A k \in 1 .. N - i : Join(A, B)[(i - 1) + k] = B[k]
  <2>1. A \in Seq(S) /\ B \in Seq(S)
    BY <1>2, <1>3
  <2>2. Join(A, B) \in Seq(S) /\ Row(A, B, Join(A, B))
    BY <2>1, ConcatPlaces
  <2> QED
    BY <1>2, <1>3, <2>2 DEF Row
<1> DEFINE E == Join(A, B)
<1> HIDE DEF E
<1>5. ASSUME NEW k \in 1 .. N - 1
      PROVE  E[k] = s[IF k < i THEN k ELSE k + 1]
  <2>1. CASE k < i
    <3>1. k \in 1 .. i - 1
      BY <1>1, <2>1
    <3> QED
      BY <1>2, <1>4, <2>1, <3>1 DEF E
  <2>2. CASE ~ (k < i)
    <3> DEFINE j == k + 1 - i
    <3>1. j \in 1 .. N - i /\ (i - 1) + j = k /\ i + j = k + 1
      BY <1>1, <2>2
    <3> HIDE DEF j
    <3>2. E[(i - 1) + j] = s[i + j]
      BY <1>3, <1>4, <3>1 DEF E
    <3> QED
      BY <2>2, <3>1, <3>2
  <2> QED
    BY <2>1, <2>2
<1>6. E \in Seq(S) /\ Len(E) = N - 1
  BY <1>1, <1>4 DEF E
<1>7. Erase(s, i) = E
  BY DEF Erase, E, A, B, Join
<1> QED
  BY <1>5, <1>6, <1>7 DEF N

\* Erasing the only place of x leaves the others, once each.
LEMMA EraseDistinct ==
  ASSUME NEW S, NEW s \in Seq(S), Distinct(s), NEW x \in Elements(s)
  PROVE  /\ Erase(s, IndexOf(s, x)) \in Seq(S)
         /\ Distinct(Erase(s, IndexOf(s, x)))
         /\ Elements(Erase(s, IndexOf(s, x))) = Elements(s) \ {x}
<1>1. PICK i \in 1 .. Len(s) : i = IndexOf(s, x) /\ s[i] = x
  BY DEF IndexOf, Elements
<1>2. PICK N \in Nat : N = Len(s)
  BY LenProperties
<1>3. PICK E \in Seq(S) : /\ E = Erase(s, i) /\ Len(E) = N - 1
                          /\ \A k \in 1 .. N - 1 : E[k] = s[IF k < i THEN k ELSE k + 1]
  BY <1>2, ErasePlaces
<1> DEFINE g(k) == IF k < i THEN k ELSE k + 1
<1>4. \A k \in 1 .. N - 1 : g(k) \in 1 .. N /\ g(k) # i /\ E[k] = s[g(k)]
  BY <1>1, <1>2, <1>3
<1>5. \A j, k \in 1 .. N - 1 : g(j) = g(k) => j = k
  BY <1>1, <1>2
<1>6. \A j \in 1 .. N : j # i => \E k \in 1 .. N - 1 : g(k) = j
  <2> SUFFICES ASSUME NEW j \in 1 .. N, j # i PROVE \E k \in 1 .. N - 1 : g(k) = j
    OBVIOUS
  <2>1. CASE j < i
    <3>1. j \in 1 .. N - 1 /\ g(j) = j
      BY <1>1, <1>2, <2>1
    <3> QED
      BY <3>1
  <2>2. CASE j > i
    <3>1. j - 1 \in 1 .. N - 1 /\ g(j - 1) = j
      BY <1>1, <1>2, <2>2
    <3> QED
      BY <3>1
  <2> QED
    BY <1>1, <1>2, <2>1, <2>2
<1> HIDE DEF g
<1>7. Distinct(E)
  BY <1>2, <1>3, <1>4, <1>5 DEF Distinct
<1>8. \A j \in 1 .. N : s[j] = x <=> j = i
  BY <1>1, <1>2 DEF Distinct
<1>9. Elements(E) = Elements(s) \ {x}
  BY <1>2, <1>3, <1>4, <1>6, <1>8 DEF Elements
<1> QED
  BY <1>1, <1>3, <1>7, <1>9

\* A sequence that is cut in two is the two parts again.
LEMMA Cut ==
  ASSUME NEW S, NEW s \in Seq(S), NEW i \in Nat, NEW n \in Nat, i <= n, n <= Len(s)
  PROVE  Join(SubSeq(s, 1, i), SubSeq(s, i + 1, n)) = SubSeq(s, 1, n)
<1>1. PICK N \in Nat : N = Len(s)
  BY LenProperties
<1>2. 1 \in 1 .. Len(s) + 1
  <2>1. 1 \in 1 .. N + 1
    OBVIOUS
  <2> QED
    BY <1>1, <2>1
<1>3. i \in 1 - 1 .. Len(s)
  <2>1. i \in 1 - 1 .. N
    BY <1>1
  <2> QED
    BY <1>1, <2>1
<1>4. n \in i .. Len(s)
  <2>1. n \in i .. N
    BY <1>1
  <2> QED
    BY <1>1, <2>1
<1> QED
  BY <1>2, <1>3, <1>4, ConcatAdjacentSubSeq DEF Join

\* The four parts of a sequence that a rotation puts together anew.
Parts(s, f, m, l, A, B, C, D) ==
  /\ Rotate(s, f, m, l) = Join(Join(Join(A, B), C), D)
  /\ s = Join(Join(Join(A, C), B), D)
  /\ Len(A) = f - 1 /\ Len(B) = l - m /\ Len(C) = m - f
  /\ Len(D) = Len(s) - l + 1
  /\ \A k \in 1 .. f - 1 : A[k] = s[k]
  /\ \A k \in 1 .. l - m : B[k] = s[m + k - 1]
  /\ \A k \in 1 .. m - f : C[k] = s[f + k - 1]
  /\ \A k \in 1 .. Len(s) - l + 1 : D[k] = s[l + k - 1]

LEMMA RotateParts ==
  ASSUME NEW S, NEW s \in Seq(S), NEW f \in Nat, NEW m \in Nat, NEW l \in Nat,
         1 <= f, f <= m, m <= l, l <= Len(s) + 1
  PROVE  \E A, B, C, D \in Seq(S) : Parts(s, f, m, l, A, B, C, D)
<1> DEFINE A == SubSeq(s, 1, f - 1)
           B == SubSeq(s, m, l - 1)
           C == SubSeq(s, f, m - 1)
           D == SubSeq(s, l, Len(s))
<1>1. Len(s) \in Nat
  BY LenProperties
<1>2. /\ A \in Seq(S) /\ Len(A) = f - 1
      /\ \A k \in 1 .. f - 1 : A[k] = s[k]
  <2>1. /\ A \in Seq(S) /\ Len(A) = (f - 1) - 1 + 1
        /\ \A k \in 1 .. (f - 1) - 1 + 1 : A[k] = s[1 + k - 1]
    BY <1>1, SubSeqPlaces
  <2>2. (f - 1) - 1 + 1 = f - 1 /\ \A k \in 1 .. f - 1 : 1 + k - 1 = k
    OBVIOUS
  <2> HIDE DEF A
  <2> QED
    BY <2>1, <2>2
<1>3. /\ B \in Seq(S) /\ Len(B) = l - m
      /\ \A k \in 1 .. l - m : B[k] = s[m + k - 1]
  <2>1. /\ B \in Seq(S) /\ Len(B) = (l - 1) - m + 1
        /\ \A k \in 1 .. (l - 1) - m + 1 : B[k] = s[m + k - 1]
    BY <1>1, SubSeqPlaces
  <2>2. (l - 1) - m + 1 = l - m
    OBVIOUS
  <2> HIDE DEF B
  <2> QED
    BY <2>1, <2>2
<1>4. /\ C \in Seq(S) /\ Len(C) = m - f
      /\ \A k \in 1 .. m - f : C[k] = s[f + k - 1]
  <2>1. /\ C \in Seq(S) /\ Len(C) = (m - 1) - f + 1
        /\ \A k \in 1 .. (m - 1) - f + 1 : C[k] = s[f + k - 1]
    BY <1>1, SubSeqPlaces
  <2>2. (m - 1) - f + 1 = m - f
    OBVIOUS
  <2> HIDE DEF C
  <2> QED
    BY <2>1, <2>2
<1>5. /\ D \in Seq(S) /\ Len(D) = Len(s) - l + 1
      /\ \A k \in 1 .. Len(s) - l + 1 : D[k] = s[l + k - 1]
  BY <1>1, SubSeqPlaces
<1>6. s = Join(Join(Join(A, C), B), D)
  <2>1. Join(A, C) = SubSeq(s, 1, m - 1)
    <3>1. f - 1 \in Nat /\ m - 1 \in Nat /\ f - 1 <= m - 1 /\ m - 1 <= Len(s)
      BY <1>1
    <3>2. Join(SubSeq(s, 1, f - 1), SubSeq(s, (f - 1) + 1, m - 1)) = SubSeq(s, 1, m - 1)
      BY <3>1, Cut
    <3>3. (f - 1) + 1 = f
      OBVIOUS
    <3> QED
      BY <3>2, <3>3
  <2>2. Join(SubSeq(s, 1, m - 1), B) = SubSeq(s, 1, l - 1)
    <3>1. m - 1 \in Nat /\ l - 1 \in Nat /\ m - 1 <= l - 1 /\ l - 1 <= Len(s)
      BY <1>1
    <3>2. Join(SubSeq(s, 1, m - 1), SubSeq(s, (m - 1) + 1, l - 1)) = SubSeq(s, 1, l - 1)
      BY <3>1, Cut
    <3>3. (m - 1) + 1 = m
      OBVIOUS
    <3> QED
      BY <3>2, <3>3
  <2>3. Join(SubSeq(s, 1, l - 1), D) = SubSeq(s, 1, Len(s))
    <3>1. l - 1 \in Nat /\ l - 1 <= Len(s) /\ Len(s) <= Len(s)
      BY <1>1
    <3>2. Join(SubSeq(s, 1, l - 1), SubSeq(s, (l - 1) + 1, Len(s))) = SubSeq(s, 1, Len(s))
      BY <1>1, <3>1, Cut
    <3>3. (l - 1) + 1 = l
      OBVIOUS
    <3> QED
      BY <3>2, <3>3
  <2>4. SubSeq(s, 1, Len(s)) = s
    BY SubSeqFull
  <2> HIDE DEF A, B, C, D
  <2> QED
    BY <2>1, <2>2, <2>3, <2>4
<1>7. Rotate(s, f, m, l) = Join(Join(Join(A, B), C), D)
  BY DEF Rotate, Join
<1> HIDE DEF A, B, C, D
<1>8. A \in Seq(S) /\ B \in Seq(S) /\ C \in Seq(S) /\ D \in Seq(S)
  BY <1>2, <1>3, <1>4, <1>5
<1>9. Parts(s, f, m, l, A, B, C, D)
  BY <1>2, <1>3, <1>4, <1>5, <1>6, <1>7 DEF Parts
<1> QED
  BY <1>8, <1>9

\* A rotation takes the block that begins at f behind the one that begins at m.
Rotated(f, m, l, k) ==
  IF k < f \/ l <= k THEN k ELSE IF k < f + (l - m) THEN k - f + m ELSE k - (l - m)

\* What is found in each place after a rotation.
LEMMA RotatePlaces ==
  ASSUME NEW S, NEW s \in Seq(S), NEW f \in Nat, NEW m \in Nat, NEW l \in Nat,
         1 <= f, f <= m, m <= l, l <= Len(s) + 1
  PROVE  /\ Rotate(s, f, m, l) \in Seq(S)
         /\ Len(Rotate(s, f, m, l)) = Len(s)
         /\ \A k \in 1 .. Len(s) : Rotate(s, f, m, l)[k] = s[Rotated(f, m, l, k)]
<1>1. PICK N \in Nat : N = Len(s)
  BY LenProperties
<1>0. PICK A \in Seq(S), B \in Seq(S), C \in Seq(S), D \in Seq(S) :
        Parts(s, f, m, l, A, B, C, D)
  BY RotateParts
<1>2. /\ Rotate(s, f, m, l) = Join(Join(Join(A, B), C), D)
      /\ Len(A) = f - 1 /\ Len(B) = l - m /\ Len(C) = m - f
      /\ Len(D) = N - l + 1
      /\ \A k \in 1 .. f - 1 : A[k] = s[k]
      /\ \A k \in 1 .. l - m : B[k] = s[m + k - 1]
      /\ \A k \in 1 .. m - f : C[k] = s[f + k - 1]
      /\ \A k \in 1 .. N - l + 1 : D[k] = s[l + k - 1]
  BY <1>0, <1>1 DEF Parts
<1>3. PICK E \in Seq(S) : E = Join(A, B)
  BY JoinSeq
<1>4. /\ E \in Seq(S) /\ Len(E) = (f - 1) + (l - m)
      /\ \A k \in 1 .. f - 1 : E[k] = A[k]
      /\ \A k \in 1 .. l - m : E[(f - 1) + k] = B[k]
  <2>1. Row(A, B, E)
    BY <1>3, ConcatPlaces
  <2> QED
    BY <1>2, <1>3, <2>1 DEF Row
<1>5. PICK F \in Seq(S) : F = Join(E, C)
  BY JoinSeq
<1>6. /\ F \in Seq(S) /\ Len(F) = l - 1
      /\ \A k \in 1 .. (f - 1) + (l - m) : F[k] = E[k]
      /\ \A k \in 1 .. m - f : F[(f - 1) + (l - m) + k] = C[k]
  <2>1. Row(E, C, F)
    BY <1>5, ConcatPlaces
  <2>2. (f - 1) + (l - m) + (m - f) = l - 1
    OBVIOUS
  <2> QED
    BY <1>2, <1>4, <1>5, <2>1, <2>2 DEF Row
<1>7. PICK G \in Seq(S) : G = Join(F, D)
  BY JoinSeq
<1>8. /\ G \in Seq(S) /\ Len(G) = N
      /\ \A k \in 1 .. l - 1 : G[k] = F[k]
      /\ \A k \in 1 .. N - l + 1 : G[(l - 1) + k] = D[k]
  <2>1. Row(F, D, G)
    BY <1>7, ConcatPlaces
  <2>2. (l - 1) + (N - l + 1) = N
    OBVIOUS
  <2> QED
    BY <1>2, <1>6, <1>7, <2>1, <2>2 DEF Row
<1>9. Rotate(s, f, m, l) = G
  BY <1>2, <1>3, <1>5, <1>7
<1>10. ASSUME NEW k \in 1 .. N
       PROVE  G[k] = s[Rotated(f, m, l, k)]
  <2>1. CASE k < f
    <3>1. k \in 1 .. f - 1 /\ k \in 1 .. (f - 1) + (l - m) /\ k \in 1 .. l - 1
      BY <2>1
    <3>2. G[k] = F[k] /\ F[k] = E[k] /\ E[k] = A[k] /\ A[k] = s[k]
      BY <1>2, <1>4, <1>6, <1>8, <3>1
    <3> QED
      BY <2>1, <3>2 DEF Rotated
  <2>2. CASE f <= k /\ k < f + (l - m)
    <3>1. PICK j \in 1 .. l - m : k = (f - 1) + j
      <4>1. k - f + 1 \in 1 .. l - m /\ k = (f - 1) + (k - f + 1)
        BY <2>2
      <4> QED
        BY <4>1
    <3>2. k \in 1 .. (f - 1) + (l - m) /\ k \in 1 .. l - 1
      BY <2>2
    <3>3. G[k] = F[k] /\ F[k] = E[k]
      BY <1>6, <1>8, <3>2
    <3>4. E[k] = B[j] /\ B[j] = s[m + j - 1]
      BY <1>2, <1>4, <3>1
    <3>5. Rotated(f, m, l, k) = k - f + m /\ m + j - 1 = k - f + m
      BY <2>2, <3>1 DEF Rotated
    <3> QED
      BY <3>3, <3>4, <3>5
  <2>3. CASE f + (l - m) <= k /\ k < l
    <3>1. PICK j \in 1 .. m - f : k = (f - 1) + (l - m) + j
      <4>1. /\ k - (f - 1) - (l - m) \in 1 .. m - f
            /\ k = (f - 1) + (l - m) + (k - (f - 1) - (l - m))
        BY <2>3
      <4> QED
        BY <4>1
    <3>2. k \in 1 .. l - 1
      BY <2>3
    <3>3. G[k] = F[k] /\ F[k] = C[j] /\ C[j] = s[f + j - 1]
      BY <1>2, <1>6, <1>8, <3>1, <3>2
    <3>4. Rotated(f, m, l, k) = k - (l - m) /\ f + j - 1 = k - (l - m)
      BY <2>3, <3>1 DEF Rotated
    <3> QED
      BY <3>3, <3>4
  <2>4. CASE l <= k
    <3>1. PICK j \in 1 .. N - l + 1 : k = (l - 1) + j
      <4>1. k - l + 1 \in 1 .. N - l + 1 /\ k = (l - 1) + (k - l + 1)
        BY <2>4
      <4> QED
        BY <4>1
    <3>2. G[k] = D[j] /\ D[j] = s[l + j - 1]
      BY <1>2, <1>8, <3>1
    <3>3. Rotated(f, m, l, k) = k /\ l + j - 1 = k
      BY <2>4, <3>1 DEF Rotated
    <3> QED
      BY <3>2, <3>3
  <2>5. k < f \/ (f <= k /\ k < f + (l - m)) \/ (f + (l - m) <= k /\ k < l) \/ l <= k
    OBVIOUS
  <2> QED
    BY <2>1, <2>2, <2>3, <2>4, <2>5
<1> QED
  BY <1>1, <1>8, <1>9, <1>10

\* A rotation neither loses nor doubles an element.
LEMMA RotateDistinct ==
  ASSUME NEW S, NEW s \in Seq(S), NEW f \in Nat, NEW m \in Nat, NEW l \in Nat,
         1 <= f, f <= m, m <= l, l <= Len(s) + 1
  PROVE  /\ Elements(Rotate(s, f, m, l)) = Elements(s)
         /\ Distinct(s) => Distinct(Rotate(s, f, m, l))
<1>1. PICK N \in Nat : N = Len(s)
  BY LenProperties
<1>2. PICK G : G = Rotate(s, f, m, l)
  OBVIOUS
<1>3. Len(G) = N /\ \A k \in 1 .. N : G[k] = s[Rotated(f, m, l, k)]
  BY <1>1, <1>2, RotatePlaces
<1>4. \A k \in 1 .. N : Rotated(f, m, l, k) \in 1 .. N
  BY <1>1 DEF Rotated
<1>5. \A i, k \in 1 .. N : Rotated(f, m, l, i) = Rotated(f, m, l, k) => i = k
  BY <1>1 DEF Rotated
<1>6. \A k \in 1 .. N : \E i \in 1 .. N : Rotated(f, m, l, i) = k
  <2> TAKE k \in 1 .. N
  <2> DEFINE i == IF k < f \/ l <= k THEN k ELSE IF k < m THEN k + (l - m) ELSE k - m + f
  <2>1. i \in 1 .. N
    BY <1>1
  <2>2. Rotated(f, m, l, i) = k
    BY <1>1 DEF Rotated
  <2> HIDE DEF i
  <2> QED
    BY <2>1, <2>2
<1>7. Elements(G) = Elements(s)
  <2>1. \A k \in 1 .. N : G[k] \in Elements(s)
    BY <1>1, <1>3, <1>4 DEF Elements
  <2>2. \A k \in 1 .. N : s[k] \in Elements(G)
    BY <1>3, <1>6 DEF Elements
  <2>3. Elements(G) \subseteq Elements(s)
    BY <1>3, <2>1 DEF Elements
  <2>4. Elements(s) \subseteq Elements(G)
    BY <1>1, <2>2 DEF Elements
  <2> QED
    BY <2>3, <2>4
<1>8. ASSUME Distinct(s)
      PROVE  Distinct(G)
  <2>1. \A i, k \in 1 .. N : G[i] = G[k] => i = k
    BY <1>1, <1>3, <1>4, <1>5, <1>8 DEF Distinct
  <2> QED
    BY <1>3, <2>1 DEF Distinct
<1> QED
  BY <1>2, <1>7, <1>8

LEMMA WithoutFour ==
  ASSUME NEW S, NEW L, NEW A, NEW B, NEW C, NEW D,
         A \in Seq(S), B \in Seq(S), C \in Seq(S), D \in Seq(S)
  PROVE  Without(Join(Join(Join(A, B), C), D), L)
           = Join(Join(Join(Without(A, L), Without(B, L)), Without(C, L)), Without(D, L))
<1>1. Join(A, B) \in Seq(S) /\ Join(Join(A, B), C) \in Seq(S)
  BY JoinSeq
<1>2. Without(Join(A, B), L) = Join(Without(A, L), Without(B, L))
  BY WithoutConcat
<1>3. Without(Join(Join(A, B), C), L) = Join(Without(Join(A, B), L), Without(C, L))
  BY <1>1, WithoutConcat
<1>4. Without(Join(Join(Join(A, B), C), D), L)
        = Join(Without(Join(Join(A, B), C), L), Without(D, L))
  BY <1>1, WithoutConcat
<1> QED
  BY <1>2, <1>3, <1>4

\* Taking a single element past others keeps the order of the others.
LEMMA RotateWithout ==
  ASSUME NEW S, NEW s \in Seq(S), NEW f \in Nat, NEW m \in Nat, NEW l \in Nat,
         NEW x \in S, 1 <= f, f <= m, m <= l, l <= Len(s) + 1,
         \/ m = f + 1 /\ s[f] = x
         \/ l = m + 1 /\ s[m] = x
  PROVE  Without(Rotate(s, f, m, l), {x}) = Without(s, {x})
<1>0. PICK L : L = {x}
  OBVIOUS
<1>p. PICK A \in Seq(S), B \in Seq(S), C \in Seq(S), D \in Seq(S) :
        Parts(s, f, m, l, A, B, C, D)
  BY RotateParts
<1>1. /\ Rotate(s, f, m, l) = Join(Join(Join(A, B), C), D)
      /\ s = Join(Join(Join(A, C), B), D)
      /\ Len(A) = f - 1 /\ Len(B) = l - m /\ Len(C) = m - f
      /\ \A k \in 1 .. l - m : B[k] = s[m + k - 1]
      /\ \A k \in 1 .. m - f : C[k] = s[f + k - 1]
  BY <1>p DEF Parts
<1>2. \A t \in Seq(S) : Without(t, L) \in Seq(S)
  BY WithoutElements
<1>3. PICK a \in Seq(S), b \in Seq(S), c \in Seq(S), d \in Seq(S) :
        a = Without(A, L) /\ b = Without(B, L) /\ c = Without(C, L) /\ d = Without(D, L)
  BY <1>2
<1>4. /\ Without(Join(Join(Join(A, B), C), D), L) = Join(Join(Join(a, b), c), d)
      /\ Without(Join(Join(Join(A, C), B), D), L) = Join(Join(Join(a, c), b), d)
  <2>1. Without(Join(Join(Join(A, B), C), D), L)
          = Join(Join(Join(Without(A, L), Without(B, L)), Without(C, L)), Without(D, L))
    BY WithoutFour
  <2>2. Without(Join(Join(Join(A, C), B), D), L)
          = Join(Join(Join(Without(A, L), Without(C, L)), Without(B, L)), Without(D, L))
    BY WithoutFour
  <2> QED
    BY <1>3, <2>1, <2>2
<1>5. Without(<<x>>, L) = <<>>
  BY <1>0, WithoutItself
<1>6. \A t \in Seq(S) : Len(t) = 1 /\ t[1] = x => Without(t, L) = <<>>
  <2> SUFFICES ASSUME NEW t \in Seq(S), Len(t) = 1, t[1] = x
               PROVE  Without(t, L) = <<>>
    OBVIOUS
  <2>1. t = <<x>>
    <3>1. <<x>> \in Seq(S) /\ Len(<<x>>) = 1 /\ <<x>>[1] = x
      OBVIOUS
    <3>2. Len(t) = Len(<<x>>) /\ \A i \in 1 .. Len(t) : t[i] = <<x>>[i]
      BY <3>1
    <3> QED
      BY <3>1, <3>2, SeqEqual
  <2> QED
    BY <1>5, <2>1
<1>7. b = <<>> \/ c = <<>>
  <2>1. CASE m = f + 1 /\ s[f] = x
    <3>1. Len(C) = 1 /\ C[1] = s[f]
      <4>1. m - f = 1 /\ f + 1 - 1 = f
        BY <2>1
      <4> QED
        BY <1>1, <4>1
    <3> QED
      BY <1>3, <1>6, <2>1, <3>1
  <2>2. CASE l = m + 1 /\ s[m] = x
    <3>1. Len(B) = 1 /\ B[1] = s[m]
      <4>1. l - m = 1 /\ m + 1 - 1 = m
        BY <2>2
      <4> QED
        BY <1>1, <4>1
    <3> QED
      BY <1>3, <1>6, <2>2, <3>1
  <2> QED
    BY <2>1, <2>2
<1>8. Join(Join(a, b), c) = Join(Join(a, c), b)
  <2>1. Join(a, <<>>) = a /\ Join(a, b) \in Seq(S) /\ Join(a, c) \in Seq(S)
    BY JoinSeq
  <2>2. \A t \in Seq(S) : Join(t, <<>>) = t
    BY JoinSeq
  <2> QED
    BY <1>7, <2>1, <2>2
<1> QED
  BY <1>0, <1>1, <1>4, <1>8

\* A child that is among the children has a place.
LEMMA PlaceOf ==
  ASSUME NEW S, NEW s \in Seq(S), NEW x \in Elements(s)
  PROVE  IndexOf(s, x) \in 1 .. Len(s) /\ s[IndexOf(s, x)] = x
BY DEF IndexOf, Elements

\* Erasing adds nothing.
LEMMA EraseElements ==
  ASSUME NEW S, NEW s \in Seq(S), NEW x \in Elements(s)
  PROVE  /\ Erase(s, IndexOf(s, x)) \in Seq(S)
         /\ Elements(Erase(s, IndexOf(s, x))) \subseteq Elements(s)
<1>1. PICK i \in 1 .. Len(s) : i = IndexOf(s, x)
  BY PlaceOf
<1>2. PICK N \in Nat : N = Len(s)
  BY LenProperties
<1>3. PICK E \in Seq(S) : /\ E = Erase(s, i) /\ Len(E) = N - 1
                          /\ \A k \in 1 .. N - 1 : E[k] = s[IF k < i THEN k ELSE k + 1]
  BY <1>2, ErasePlaces
<1>4. \A k \in 1 .. N - 1 : (IF k < i THEN k ELSE k + 1) \in 1 .. N
  BY <1>1, <1>2
<1>5. Elements(E) \subseteq Elements(s)
  BY <1>2, <1>3, <1>4 DEF Elements
<1> QED
  BY <1>1, <1>3, <1>5

\* t is s with x in another place.
Moves(S, s, t, x) ==
  /\ t \in Seq(S) /\ Len(t) = Len(s) /\ Elements(t) = Elements(s)
  /\ Distinct(s) => Distinct(t)
  /\ Without(t, {x}) = Without(s, {x})

\* A rotation that takes one element past others moves that element.
LEMMA RotateMoves ==
  ASSUME NEW S, NEW s \in Seq(S), NEW f \in Nat, NEW m \in Nat, NEW l \in Nat,
         NEW x \in S, 1 <= f, f <= m, m <= l, l <= Len(s) + 1,
         \/ m = f + 1 /\ s[f] = x
         \/ l = m + 1 /\ s[m] = x
  PROVE  Moves(S, s, Rotate(s, f, m, l), x)
<1>1. Rotate(s, f, m, l) \in Seq(S) /\ Len(Rotate(s, f, m, l)) = Len(s)
  BY RotatePlaces
<1>2. /\ Elements(Rotate(s, f, m, l)) = Elements(s)
      /\ Distinct(s) => Distinct(Rotate(s, f, m, l))
  BY RotateDistinct
<1>3. Without(Rotate(s, f, m, l), {x}) = Without(s, {x})
  BY RotateWithout
<1> QED
  BY <1>1, <1>2, <1>3 DEF Moves

\* A Node that moves to an end of the z-order rearranges its siblings.
LEMMA StackEndMoves ==
  ASSUME NEW S, NEW s \in Seq(S), NEW x \in Elements(s)
  PROVE  Moves(S, s, StackFront(s, x), x) /\ Moves(S, s, StackBack(s, x), x)
<1>1. PICK i \in 1 .. Len(s) : i = IndexOf(s, x) /\ s[i] = x
  BY PlaceOf
<1>2. PICK N \in Nat : N = Len(s)
  BY LenProperties
<1>3. x \in S
  BY <1>1, ElementOfSeq
<1>4. /\ i \in Nat /\ i + 1 \in Nat /\ N + 1 \in Nat /\ 1 <= i /\ i <= i + 1
      /\ i + 1 <= N + 1 /\ N + 1 <= N + 1 /\ 1 <= 1
  BY <1>1, <1>2
<1>5. Moves(S, s, Rotate(s, i, i + 1, N + 1), x)
  BY <1>1, <1>2, <1>3, <1>4, RotateMoves
<1>6. Moves(S, s, Rotate(s, 1, i, i + 1), x)
  BY <1>1, <1>2, <1>3, <1>4, RotateMoves
<1> QED
  BY <1>1, <1>2, <1>5, <1>6 DEF StackFront, StackBack, MoveToBack, MoveToFront

\* So does one that moves next to a sibling.
LEMMA StackNextMoves ==
  ASSUME NEW S, NEW s \in Seq(S), NEW x \in Elements(s), NEW y \in Elements(s), x # y
  PROVE  Moves(S, s, StackBefore(s, x, y), x) /\ Moves(S, s, StackBehind(s, x, y), x)
<1>1. PICK i \in 1 .. Len(s) : i = IndexOf(s, x) /\ s[i] = x
  BY PlaceOf
<1>2. PICK j \in 1 .. Len(s) : j = IndexOf(s, y) /\ s[j] = y
  BY PlaceOf
<1>3. PICK N \in Nat : N = Len(s)
  BY LenProperties
<1>4. x \in S /\ i # j /\ i \in Nat /\ j \in Nat
  BY <1>1, <1>2, ElementOfSeq
<1>5. StackBefore(s, x, y) = MoveBehindOf(s, i, j) /\ StackBehind(s, x, y) = MoveInFrontOf(s, i, j)
  BY <1>1, <1>2 DEF StackBefore, StackBehind
<1>6. CASE i > j
  <2>1. /\ MoveBehindOf(s, i, j) = Rotate(s, j + 1, i, i + 1)
        /\ MoveInFrontOf(s, i, j) = Rotate(s, j, i, i + 1)
    BY <1>4, <1>6 DEF MoveBehindOf, MoveInFrontOf
  <2>2. /\ j + 1 \in Nat /\ i + 1 \in Nat /\ 1 <= j /\ 1 <= j + 1 /\ j <= i /\ j + 1 <= i
        /\ i <= i + 1 /\ i + 1 <= N + 1
    BY <1>1, <1>2, <1>3, <1>6
  <2>3. Moves(S, s, Rotate(s, j + 1, i, i + 1), x)
    BY <1>1, <1>3, <1>4, <2>2, RotateMoves
  <2>4. Moves(S, s, Rotate(s, j, i, i + 1), x)
    BY <1>1, <1>3, <1>4, <2>2, RotateMoves
  <2> QED
    BY <1>5, <2>1, <2>3, <2>4
<1>7. CASE i < j
  <2>1. /\ MoveBehindOf(s, i, j) = Rotate(s, i, i + 1, j + 1)
        /\ MoveInFrontOf(s, i, j) = Rotate(s, i, i + 1, j)
    BY <1>4, <1>7 DEF MoveBehindOf, MoveInFrontOf
  <2>2. /\ j + 1 \in Nat /\ i + 1 \in Nat /\ 1 <= i /\ i <= i + 1 /\ i + 1 <= j /\ i + 1 <= j + 1
        /\ j <= N + 1 /\ j + 1 <= N + 1
    BY <1>1, <1>2, <1>3, <1>7
  <2>3. Moves(S, s, Rotate(s, i, i + 1, j + 1), x)
    BY <1>1, <1>3, <1>4, <2>2, RotateMoves
  <2>4. Moves(S, s, Rotate(s, i, i + 1, j), x)
    BY <1>1, <1>3, <1>4, <2>2, RotateMoves
  <2> QED
    BY <1>5, <2>1, <2>3, <2>4
<1> QED
  BY <1>1, <1>2, <1>4, <1>6, <1>7

-----------------------------------------------------------------------------
(* Where the stacking functions put a Node *)

\* An element that is there once has one place.
LEMMA OnlyPlace ==
  ASSUME NEW S, NEW s \in Seq(S), Distinct(s), NEW i \in 1 .. Len(s)
  PROVE  IndexOf(s, s[i]) = i
<1>1. s[i] \in Elements(s) BY DEF Elements
<1>2. IndexOf(s, s[i]) \in 1 .. Len(s) /\ s[IndexOf(s, s[i])] = s[i] BY <1>1, PlaceOf
<1> QED BY <1>2 DEF Distinct

\* In front is the last place, in the back the first.
LEMMA StackEndPlace ==
  ASSUME NEW S, NEW s \in Seq(S), NEW x \in Elements(s)
  PROVE  StackFront(s, x)[Len(s)] = x /\ StackBack(s, x)[1] = x /\ Len(s) >= 1
<1>1. PICK i \in 1 .. Len(s) : i = IndexOf(s, x) /\ s[i] = x
  BY PlaceOf
<1>2. PICK N \in Nat : N = Len(s)
  BY LenProperties
<1>3. /\ i \in Nat /\ i + 1 \in Nat /\ N + 1 \in Nat /\ 1 <= i /\ i <= i + 1
      /\ i + 1 <= N + 1 /\ N + 1 <= N + 1 /\ 1 <= 1 /\ 1 \in 1 .. N /\ N \in 1 .. N
  BY <1>1, <1>2
<1>4. Rotate(s, i, i + 1, N + 1)[N] = s[Rotated(i, i + 1, N + 1, N)]
  <2>1. PICK m \in Nat, l \in Nat : m = i + 1 /\ l = N + 1
    BY <1>3
  <2>2. 1 <= i /\ i <= m /\ m <= l /\ l <= Len(s) + 1
    BY <1>1, <1>2, <2>1
  <2>3. \A k \in 1 .. Len(s) : Rotate(s, i, m, l)[k] = s[Rotated(i, m, l, k)]
    BY <1>3, <2>2, RotatePlaces
  <2> QED
    BY <1>2, <1>3, <2>1, <2>3
<1>5. Rotated(i, i + 1, N + 1, N) = i
  BY <1>1, <1>2 DEF Rotated
<1>6. Rotate(s, 1, i, i + 1)[1] = s[Rotated(1, i, i + 1, 1)]
  <2>1. 1 \in Nat /\ i <= i + 1 /\ i + 1 <= Len(s) + 1
    BY <1>2, <1>3
  <2>2. \A k \in 1 .. Len(s) : Rotate(s, 1, i, i + 1)[k] = s[Rotated(1, i, i + 1, k)]
    BY <1>3, <2>1, RotatePlaces
  <2> QED
    BY <1>2, <1>3, <2>2
<1>7. Rotated(1, i, i + 1, 1) = i
  BY <1>1, <1>2 DEF Rotated
<1> QED
  BY <1>1, <1>2, <1>3, <1>4, <1>5, <1>6, <1>7 DEF StackFront, StackBack, MoveToBack, MoveToFront

\* y is just before x.
Neighbours(s, y, x) == \E k \in 1 .. Len(s) - 1 : s[k] = y /\ s[k + 1] = x

\* "Before" is one place nearer to the front, "behind" one place nearer to the back.
LEMMA StackNextPlace ==
  ASSUME NEW S, NEW s \in Seq(S), NEW x \in Elements(s), NEW y \in Elements(s), x # y
  PROVE  Neighbours(StackBefore(s, x, y), y, x) /\ Neighbours(StackBehind(s, x, y), x, y)
<1>1. PICK i \in 1 .. Len(s) : i = IndexOf(s, x) /\ s[i] = x
  BY PlaceOf
<1>2. PICK j \in 1 .. Len(s) : j = IndexOf(s, y) /\ s[j] = y
  BY PlaceOf
<1>3. PICK N \in Nat : N = Len(s)
  BY LenProperties
<1>4. x \in S /\ i # j /\ i \in Nat /\ j \in Nat
  BY <1>1, <1>2, ElementOfSeq
<1>5. StackBefore(s, x, y) = MoveBehindOf(s, i, j) /\ StackBehind(s, x, y) = MoveInFrontOf(s, i, j)
  BY <1>1, <1>2 DEF StackBefore, StackBehind
<1>6. ASSUME NEW f \in Nat, NEW m \in Nat, NEW l \in Nat, 1 <= f, f <= m, m <= l, l <= N + 1,
             NEW a, NEW b, NEW k \in 1 .. N - 1,
             s[Rotated(f, m, l, k)] = a, s[Rotated(f, m, l, k + 1)] = b
      PROVE  Neighbours(Rotate(s, f, m, l), a, b)
  <2>1. k \in 1 .. N /\ k + 1 \in 1 .. N
    BY <1>3
  <2>2. /\ Len(Rotate(s, f, m, l)) = N
        /\ \A n \in 1 .. N : Rotate(s, f, m, l)[n] = s[Rotated(f, m, l, n)]
    <3>1. l <= Len(s) + 1
      BY <1>3, <1>6
    <3>2. /\ Len(Rotate(s, f, m, l)) = Len(s)
          /\ \A n \in 1 .. Len(s) : Rotate(s, f, m, l)[n] = s[Rotated(f, m, l, n)]
      BY <1>6, <3>1, RotatePlaces
    <3> QED
      BY <1>3, <3>2
  <2> QED
    BY <1>6, <2>1, <2>2 DEF Neighbours
<1>7. CASE i > j
  <2>1. /\ MoveBehindOf(s, i, j) = Rotate(s, j + 1, i, i + 1)
        /\ MoveInFrontOf(s, i, j) = Rotate(s, j, i, i + 1)
    BY <1>4, <1>7 DEF MoveBehindOf, MoveInFrontOf
  <2>2. /\ j + 1 \in Nat /\ i + 1 \in Nat /\ 1 <= j /\ 1 <= j + 1 /\ j <= i /\ j + 1 <= i
        /\ i <= i + 1 /\ i + 1 <= N + 1 /\ j \in 1 .. N - 1
    BY <1>1, <1>2, <1>3, <1>7
  <2>3. Rotated(j + 1, i, i + 1, j) = j /\ Rotated(j + 1, i, i + 1, j + 1) = i
    BY <1>4, <1>7 DEF Rotated
  <2>4. Neighbours(Rotate(s, j + 1, i, i + 1), y, x)
    BY <1>1, <1>2, <1>4, <1>6, <2>2, <2>3
  <2>5. Rotated(j, i, i + 1, j) = i /\ Rotated(j, i, i + 1, j + 1) = j
    BY <1>4, <1>7 DEF Rotated
  <2>6. Neighbours(Rotate(s, j, i, i + 1), x, y)
    BY <1>1, <1>2, <1>4, <1>6, <2>2, <2>5
  <2> QED
    BY <1>5, <2>1, <2>4, <2>6
<1>8. CASE i < j
  <2>1. /\ MoveBehindOf(s, i, j) = Rotate(s, i, i + 1, j + 1)
        /\ MoveInFrontOf(s, i, j) = Rotate(s, i, i + 1, j)
    BY <1>4, <1>8 DEF MoveBehindOf, MoveInFrontOf
  <2> DEFINE k == j - 1
  <2>2. /\ j + 1 \in Nat /\ i + 1 \in Nat /\ 1 <= i /\ i <= i + 1 /\ i + 1 <= j /\ i + 1 <= j + 1
        /\ j <= N + 1 /\ j + 1 <= N + 1 /\ k \in 1 .. N - 1 /\ k + 1 = j
    BY <1>1, <1>2, <1>3, <1>8
  <2>3. Rotated(i, i + 1, j + 1, k) = j /\ Rotated(i, i + 1, j + 1, j) = i
    BY <1>4, <1>8 DEF Rotated
  <2>4. Rotated(i, i + 1, j, k) = i /\ Rotated(i, i + 1, j, j) = j
    BY <1>4, <1>8 DEF Rotated
  <2> HIDE DEF k
  <2>5. Neighbours(Rotate(s, i, i + 1, j + 1), y, x)
    BY <1>1, <1>2, <1>4, <1>6, <2>2, <2>3
  <2>6. Neighbours(Rotate(s, i, i + 1, j), x, y)
    BY <1>1, <1>2, <1>4, <1>6, <2>2, <2>4
  <2> QED
    BY <1>5, <2>1, <2>5, <2>6
<1> QED
  BY <1>1, <1>2, <1>4, <1>7, <1>8

\* The queries agree with the places.
LEMMA NextPlaces ==
  ASSUME NEW S, NEW s \in Seq(S), Distinct(s), NEW x, NEW y, x # y, Neighbours(s, y, x)
  PROVE  IndexOf(s, x) = IndexOf(s, y) + 1 /\ IsBefore(s, x, y) /\ IsBehind(s, y, x)
<1>1. PICK k \in 1 .. Len(s) - 1 : s[k] = y /\ s[k + 1] = x
  BY DEF Neighbours
<1>2. Len(s) \in Nat
  BY LenProperties
<1>3. k \in 1 .. Len(s) /\ k + 1 \in 1 .. Len(s) /\ k \in Nat
  BY <1>1, <1>2
<1>4. IndexOf(s, y) = k /\ IndexOf(s, x) = k + 1
  BY <1>1, <1>3, OnlyPlace
<1>5. \A j \in 1 .. k : s[j] # x
  <2> TAKE j \in 1 .. k
  <2>1. j \in 1 .. Len(s) /\ j # k + 1
    BY <1>2, <1>3
  <2> QED
    BY <1>1, <1>3, <2>1 DEF Distinct
<1>6. IsBefore(s, x, y)
  BY <1>1, <1>3, <1>5 DEF IsBefore
<1>7. IsBehind(s, y, x)
  BY <1>1, <1>3, <1>5 DEF IsBehind
<1> QED
  BY <1>4, <1>6, <1>7

\* A sequence without repetition is as long as it has elements.
LEMMA DistinctLength ==
  ASSUME NEW S, NEW s \in Seq(S), Distinct(s)
  PROVE  Len(s) = Cardinality(Elements(s))
<1>1. PICK N \in Nat : N = Len(s) /\ DOMAIN s = 1 .. N
  BY LenProperties
<1>2. s \in [1 .. N -> S]
  BY <1>1, LenProperties
<1>3. s \in [1 .. N -> Elements(s)]
  BY <1>1, <1>2 DEF Elements
<1>4. s \in Injection(1 .. N, Elements(s))
  BY <1>1, <1>3 DEF Injection, IsInjective, Distinct
<1>5. s \in Surjection(1 .. N, Elements(s))
  BY <1>1, <1>3 DEF Surjection, Elements
<1>6. ExistsBijection(1 .. N, Elements(s))
  BY <1>4, <1>5 DEF ExistsBijection, Bijection
<1> QED
  BY <1>1, <1>6, FS_CountingElements

-----------------------------------------------------------------------------
(* The inductive invariant, for every Owner *)

\* What the ui thread would see of Node n with the copies cop.
Seen(cop, n) == IF cop[n] = None THEN data[n] ELSE cop[n]

\* A Node that is not alive has no copy, no flag and no children.
GoneIsBlank ==
  \A n \in Nodes : state[n] # "alive" =>
    copy[n] = None /\ ~ data[n].dirty /\ Elements(data[n].children) = {}

\* The children of a Node that is alive are alive, for both threads.
HeldIsAlive == Root \in Alive /\ \A n \in Alive : Held(data, copy, n) \subseteq Alive

\* With the copies cop a child is there once, and its parent is the Node that has it.
KinOf(cop) ==
  \A n \in Alive :
    /\ Distinct(Seen(cop, n).children)
    /\ \A c \in Nodes : c \in Elements(Seen(cop, n).children) => Seen(cop, c).parent = n

Kin == KinOf(copy)

Sound == TypeOK /\ GoneIsBlank /\ HeldIsAlive /\ Kin

LEMMA SeenIsView == \A n : Seen(copy, n) = View(n)
BY DEF Seen, View

\* What a thread sees among the children of a Node is held by the Node.
LEMMA SeenIsHeld ==
  ASSUME NEW dat, NEW cop, NEW n
  PROVE  /\ Elements(dat[n].children) \subseteq Held(dat, cop, n)
         /\ cop[n] # None => Elements(cop[n].children) \subseteq Held(dat, cop, n)
BY DEF Held

LEMMA BlankType == Blank \in Data /\ ~ Blank.dirty /\ Elements(Blank.children) = {}
<1>1. Root \in Nodes BY NodesAssumption
<1>2. <<>> \in Seq(Nodes) BY EmptySeq
<1>3. Elements(<<>>) = {} BY EmptySeq DEF Elements
<1> QED BY <1>1, <1>2, <1>3 DEF Blank, Data

LEMMA ViewType ==
  ASSUME Sound, NEW n \in Nodes
  PROVE  /\ View(n) \in Data
         /\ View(n).children \in Seq(Nodes) /\ View(n).parent \in Nodes
         /\ IsDirty(copy, n) = View(n).dirty
         /\ n \in Alive => Elements(View(n).children) \subseteq Alive
<1>1. data[n] \in Data /\ copy[n] \in Data \cup {None} BY DEF Sound, TypeOK
<1>2. View(n) \in Data BY <1>1 DEF View
<1>3. IsDirty(copy, n) = View(n).dirty BY DEF IsDirty, View
<1>4. n \in Alive => Elements(View(n).children) \subseteq Alive
  BY SeenIsHeld DEF Sound, HeldIsAlive, View
<1> QED BY <1>2, <1>3, <1>4 DEF Data

LEMMA DirtyType == Sound => dirty \in SUBSET Nodes
BY DEF Sound, TypeOK

-----------------------------------------------------------------------------
(* Destruction *)

\* Data and copies in which nobody that is alive holds a Node that is not, and in
\* which only the data of Nodes that have a copy differ from what they were.
Steady(dat, cop) ==
  /\ dat \in [Nodes -> Data] /\ cop \in [Nodes -> Data \cup {None}]
  /\ Root \in Alive
  /\ \A n \in Alive : Held(dat, cop, n) \subseteq Alive
  /\ \A n \in Nodes : cop[n] = None => dat[n] = data[n]

\* The children that Node n loses when the owners D of their NodeOwners go.
Gone(cop, D, n) ==
  {o \in Elements(Seen(cop, n).children) : Owner[o] \in D /\ View(o).parent = n}

\* The same copies with fewer children.
Thinned(cop, kept) ==
  /\ kept \in [Nodes -> Data \cup {None}]
  /\ \A n \in Nodes \ Alive : kept[n] = cop[n]
  /\ \A n \in Nodes :
       /\ kept[n] = None => cop[n] = None
       /\ Seen(kept, n).parent = Seen(cop, n).parent
       /\ Elements(Seen(kept, n).children) \subseteq Elements(Seen(cop, n).children)
       /\ Distinct(Seen(cop, n).children) => Distinct(Seen(kept, n).children)

LEMMA SteadySeen ==
  ASSUME Sound, NEW dat, NEW cop, Steady(dat, cop), NEW n \in Nodes
  PROVE  /\ Seen(cop, n) \in Data /\ Seen(cop, n).children \in Seq(Nodes)
         /\ n \in Alive => Elements(Seen(cop, n).children) \subseteq Held(dat, cop, n)
         /\ n \in Alive => Elements(Seen(cop, n).children) \subseteq Alive
<1>1. data[n] \in Data /\ cop[n] \in Data \cup {None} BY DEF Sound, TypeOK, Steady
<1>2. Seen(cop, n) \in Data BY <1>1 DEF Seen
<1>3. Elements(Seen(cop, n).children) \subseteq Held(dat, cop, n)
  <2>1. cop[n] = None => dat[n] = data[n] BY DEF Steady
  <2> QED BY <2>1, SeenIsHeld DEF Seen
<1> QED BY <1>2, <1>3 DEF Data, Steady

\* What a Node that stays still has of its children.
LEMMA EvictedSeen ==
  ASSUME Sound, NEW dat, NEW cop, Steady(dat, cop), NEW D \in SUBSET Alive, NEW busy,
         NEW n \in Nodes
  PROVE  LET new == Evict(cop, D, busy)[n]
             lost == IF n \in Alive \ (D \cup {busy}) THEN Gone(cop, D, n) ELSE {}
         IN \/ new = cop[n] /\ lost = {}
            \/ /\ new \in Data /\ new.parent = Seen(cop, n).parent
               /\ new.children = Without(Seen(cop, n).children, lost)
               /\ n \in Alive
<1> DEFINE lost == IF n \in Alive \ (D \cup {busy}) THEN Gone(cop, D, n) ELSE {}
           d == [Seen(cop, n) EXCEPT !.children = Without(@, Gone(cop, D, n)), !.dirty = TRUE]
<1>1. /\ Seen(cop, n) \in Data /\ Seen(cop, n).children \in Seq(Nodes)
      /\ n \in Alive => Elements(Seen(cop, n).children) \subseteq Alive
  BY SteadySeen
<1>2. CASE \A o \in Alive : Owner[o] \notin D
  <2>1. Evict(cop, D, busy) = cop BY <1>2 DEF Evict
  <2>2. lost = {} BY <1>1, <1>2 DEF Gone
  <2> QED BY <2>1, <2>2
<1>3. CASE ~ \A o \in Alive : Owner[o] \notin D
  <2>1. Evict(cop, D, busy)[n] = IF n \in Alive \ (D \cup {busy}) /\ Gone(cop, D, n) # {} THEN d ELSE cop[n]
    BY <1>3 DEF Evict, Gone, Seen
  <2>2. CASE n \in Alive \ (D \cup {busy}) /\ Gone(cop, D, n) # {}
    <3>1. Evict(cop, D, busy)[n] = d BY <2>1, <2>2
    <3>2. Without(Seen(cop, n).children, Gone(cop, D, n)) \in Seq(Nodes)
      BY <1>1, WithoutElements
    <3>3. /\ d \in Data /\ d.parent = Seen(cop, n).parent
          /\ d.children = Without(Seen(cop, n).children, Gone(cop, D, n))
      BY <1>1, <3>2 DEF Data
    <3> HIDE DEF d
    <3> QED BY <2>2, <3>1, <3>3
  <2>3. CASE ~ (n \in Alive \ (D \cup {busy}) /\ Gone(cop, D, n) # {})
    BY <2>1, <2>3
  <2> QED BY <2>2, <2>3
<1> QED BY <1>2, <1>3

LEMMA Thinning ==
  ASSUME Sound, NEW dat, NEW cop, Steady(dat, cop), NEW D \in SUBSET Alive, NEW busy
  PROVE  Thinned(cop, Evict(cop, D, busy))
<1> DEFINE kept == Evict(cop, D, busy)
<1>0. DOMAIN kept = Nodes /\ cop \in [Nodes -> Data \cup {None}]
      /\ kept = [n \in Nodes |-> kept[n]]
  BY DEF Evict, Steady
<1>1. ASSUME NEW n \in Nodes
      PROVE  /\ kept[n] \in Data \cup {None}
             /\ n \notin Alive => kept[n] = cop[n]
             /\ kept[n] = None => cop[n] = None
             /\ Seen(kept, n).parent = Seen(cop, n).parent
             /\ Elements(Seen(kept, n).children) \subseteq Elements(Seen(cop, n).children)
             /\ Distinct(Seen(cop, n).children) => Distinct(Seen(kept, n).children)
  <2> DEFINE lost == IF n \in Alive \ (D \cup {busy}) THEN Gone(cop, D, n) ELSE {}
  <2>1. \/ kept[n] = cop[n] /\ lost = {}
        \/ /\ kept[n] \in Data /\ kept[n].parent = Seen(cop, n).parent
           /\ kept[n].children = Without(Seen(cop, n).children, lost)
           /\ n \in Alive
    BY EvictedSeen
  <2> HIDE DEF lost, kept
  <2>2. CASE kept[n] = cop[n] BY <1>0, <2>2 DEF Seen
  <2>3. CASE /\ kept[n] \in Data /\ kept[n].parent = Seen(cop, n).parent
             /\ kept[n].children = Without(Seen(cop, n).children, lost)
             /\ n \in Alive
    <3>1. kept[n] # None /\ Seen(kept, n) = kept[n] BY <2>3, NoneAssumption DEF Seen
    <3>2. Seen(cop, n).children \in Seq(Nodes) BY SteadySeen
    <3> DEFINE s == Seen(cop, n).children
    <3>3. /\ Elements(Without(s, lost)) = Elements(s) \ lost
          /\ Distinct(s) => Distinct(Without(s, lost))
      BY <3>2, WithoutElements
    <3> HIDE DEF s
    <3>4. Seen(kept, n).children = Without(s, lost) BY <2>3, <3>1 DEF s
    <3> QED BY <2>3, <3>1, <3>3, <3>4 DEF s
  <2> QED BY <2>1, <2>2, <2>3
<1> HIDE DEF kept
<1>2. kept \in [Nodes -> Data \cup {None}] BY <1>0, <1>1
<1> QED BY <1>1, <1>2 DEF Thinned, kept

\* What a Node that stays holds.
LEMMA EvictedHeld ==
  ASSUME Sound, NEW dat, NEW cop, Steady(dat, cop), NEW D \in SUBSET Alive, NEW busy,
         NEW h \in Alive, h \notin D
  PROVE  Held(dat, Evict(cop, D, busy), h)
           = Elements(dat[h].children) \cup
               (Elements(Seen(cop, h).children) \ (IF h = busy THEN {} ELSE Gone(cop, D, h)))
<1> DEFINE kept == Evict(cop, D, busy)
           lost == IF h \in Alive \ (D \cup {busy}) THEN Gone(cop, D, h) ELSE {}
           s == Seen(cop, h).children
<1>1. h \in Nodes BY DEF Alive
<1>2. \/ kept[h] = cop[h] /\ lost = {}
      \/ /\ kept[h] \in Data /\ kept[h].parent = Seen(cop, h).parent
         /\ kept[h].children = Without(Seen(cop, h).children, lost)
         /\ h \in Alive
  BY <1>1, EvictedSeen
<1>3. lost = IF h = busy THEN {} ELSE Gone(cop, D, h) OBVIOUS
<1>4. s \in Seq(Nodes) BY <1>1, SteadySeen
<1>5. cop[h] = None => dat[h] = data[h] BY <1>1 DEF Steady
<1> HIDE DEF lost, kept
<1>6. CASE kept[h] = cop[h] /\ lost = {}
  <2>1. CASE cop[h] = None
    <3>1. s = dat[h].children BY <1>5, <2>1 DEF Seen
    <3>2. Held(dat, kept, h) = Elements(dat[h].children) BY <1>6, <2>1 DEF Held
    <3> HIDE DEF s
    <3> QED BY <1>3, <1>6, <3>1, <3>2 DEF s, kept
  <2>2. CASE cop[h] # None
    <3>1. s = cop[h].children BY <2>2 DEF Seen
    <3>2. Held(dat, kept, h) = Elements(dat[h].children) \cup Elements(cop[h].children)
      BY <1>6, <2>2 DEF Held
    <3> HIDE DEF s
    <3> QED BY <1>3, <1>6, <3>1, <3>2 DEF s, kept
  <2> QED BY <2>1, <2>2
<1>7. CASE kept[h] \in Data /\ kept[h].children = Without(s, lost)
  <2>1. kept[h] # None BY <1>7, NoneAssumption
  <2>2. Elements(Without(s, lost)) = Elements(s) \ lost BY <1>4, WithoutElements
  <2>3. Elements(kept[h].children) = Elements(s) \ lost BY <1>7, <2>2
  <2>4. Held(dat, kept, h) = Elements(dat[h].children) \cup Elements(kept[h].children)
    BY <2>1 DEF Held
  <2> HIDE DEF s
  <2>5. Held(dat, kept, h) = Elements(dat[h].children) \cup (Elements(s) \ lost) BY <2>3, <2>4
  <2> QED BY <1>3, <2>5 DEF s, kept
<1> QED BY <1>2, <1>6, <1>7

\* What is left after a destruction holds nothing that was destroyed.
LEMMA Survivors ==
  ASSUME Sound, NEW dat, NEW cop, NEW busy, Steady(dat, cop)
  PROVE  LET D == Destroyed(dat, cop, busy)
         IN /\ D \subseteq Alive \ {Root}
            /\ \A n \in Alive \ D : Held(dat, Evict(cop, D, busy), n) \subseteq Alive \ D
<1> DEFINE D == Destroyed(dat, cop, busy)
           Keeps(X, h) == Elements(dat[h].children) \cup
               (Elements(Seen(cop, h).children) \ (IF h = busy THEN {} ELSE Gone(cop, X, h)))
           F(X) == (Alive \ {Root}) \ UNION {Keeps(X, h) : h \in Alive \ X}
<1>1. \A X \in SUBSET Alive : \A h \in Alive \ X : Held(dat, Evict(cop, X, busy), h) = Keeps(X, h)
  BY EvictedHeld
<1>2. \A X \in SUBSET Alive : Freed(dat, cop, busy, X) = F(X)
  <2> TAKE X \in SUBSET Alive
  <2> HIDE DEF Keeps
  <2>1. {Held(dat, Evict(cop, X, busy), h) : h \in Alive \ X} = {Keeps(X, h) : h \in Alive \ X}
    BY <1>1
  <2> QED BY <2>1 DEF Freed
<1>3. \A X \in SUBSET Alive : F(X) \in SUBSET Alive OBVIOUS
<1>4. \A X, Y \in SUBSET Alive : X \subseteq Y => F(X) \subseteq F(Y)
  <2> TAKE X, Y \in SUBSET Alive
  <2> HAVE X \subseteq Y
  <2>1. \A h : Gone(cop, X, h) \subseteq Gone(cop, Y, h) BY DEF Gone
  <2>2. \A h : Keeps(Y, h) \subseteq Keeps(X, h) BY <2>1
  <2> HIDE DEF Keeps
  <2>3. UNION {Keeps(Y, h) : h \in Alive \ Y} \subseteq UNION {Keeps(X, h) : h \in Alive \ X}
    BY <2>2
  <2> QED BY <2>3
<1>5. D = {n \in Alive : \A X \in SUBSET Alive : F(X) \subseteq X => n \in X}
  BY <1>2 DEF Destroyed
<1>6. \A h \in Alive : Keeps(D, h) \subseteq Alive
  <2> TAKE h \in Alive
  <2>1. h \in Nodes BY DEF Alive
  <2>2. Elements(Seen(cop, h).children) \subseteq Alive BY <2>1, SteadySeen
  <2>3. Elements(dat[h].children) \subseteq Alive BY SeenIsHeld DEF Steady
  <2> QED BY <2>2, <2>3
<1> HIDE DEF Keeps, F
<1>7. D \in SUBSET Alive BY <1>5
<1>8. \A X \in SUBSET Alive : F(X) \subseteq X => D \subseteq X BY <1>5
<1>9. F(D) \subseteq D
  <2>1. \A X \in SUBSET Alive : F(X) \subseteq X => F(D) \subseteq X BY <1>4, <1>7, <1>8
  <2>2. F(D) \subseteq Alive BY <1>3, <1>7
  <2> QED BY <2>1, <2>2, <1>5
<1>10. D \subseteq F(D)
  <2>1. F(D) \in SUBSET Alive BY <1>3, <1>7
  <2>2. F(F(D)) \subseteq F(D) BY <1>4, <1>7, <1>9, <2>1
  <2> QED BY <2>1, <2>2, <1>8
<1> HIDE DEF D
<1>11. D \subseteq Alive \ {Root} BY <1>10 DEF F
<1>12. \A n \in Alive \ D : Keeps(D, n) \cap D = {} BY <1>10 DEF F
<1>13. \A n \in Alive \ D : Held(dat, Evict(cop, D, busy), n) \subseteq Alive \ D
  BY <1>1, <1>6, <1>7, <1>12
<1> QED BY <1>11, <1>13 DEF D

\* Fewer children are still a tree.
LEMMA KinThinned ==
  ASSUME NEW cop, NEW kept, KinOf(cop), Thinned(cop, kept)
  PROVE  KinOf(kept)
<1> SUFFICES ASSUME NEW n \in Alive
             PROVE  /\ Distinct(Seen(kept, n).children)
                    /\ \A c \in Nodes : c \in Elements(Seen(kept, n).children) => Seen(kept, c).parent = n
  BY DEF KinOf
<1>1. n \in Nodes BY DEF Alive
<1>2. Distinct(Seen(cop, n).children) BY DEF KinOf
<1>3. Distinct(Seen(kept, n).children) BY <1>1, <1>2 DEF Thinned
<1>4. ASSUME NEW c \in Nodes, c \in Elements(Seen(kept, n).children)
      PROVE  Seen(kept, c).parent = n
  <2>1. c \in Elements(Seen(cop, n).children) BY <1>1, <1>4 DEF Thinned
  <2>2. Seen(cop, c).parent = n BY <2>1 DEF KinOf
  <2> QED BY <2>2 DEF Thinned
<1> QED BY <1>3, <1>4

\* A step that changes data and copies to dat and cop and destroys the Nodes D.
Rewrites(dat, cop, D) ==
  /\ state' = [n \in Nodes |-> IF n \in D THEN "dead" ELSE state[n]]
  /\ data' = [n \in Nodes |-> IF n \in D THEN Blank ELSE dat[n]]
  /\ copy' = [n \in Nodes |-> IF n \in D THEN None ELSE cop[n]]

\* The Nodes D can go: nothing that stays holds one of them.
Closed(dat, cop, D) ==
  /\ D \subseteq Alive \ {Root}
  /\ \A n \in Alive \ D : Held(dat, cop, n) \subseteq Alive \ D

\* What Settle does.
Settles(dat, cop, marked, kept, D) ==
  /\ Rewrites(dat, kept, D) /\ Closed(dat, kept, D)
  /\ dirty' = marked \cup {n \in Alive \ D : kept[n] # cop[n] /\ ~ IsDirty(cop, n)}

LEMMA Settled ==
  ASSUME Sound, NEW dat, NEW cop, NEW marked, NEW busy, Steady(dat, cop),
         Settle(dat, cop, marked, busy)
  PROVE  \E D \in SUBSET Nodes : Settles(dat, cop, marked, Evict(cop, D, busy), D)
                                   /\ Thinned(cop, Evict(cop, D, busy))
<1> DEFINE D == Destroyed(dat, cop, busy)
           kept == Evict(cop, D, busy)
<1>1. Closed(dat, kept, D) BY Survivors DEF Closed
<1>2. D \in SUBSET Alive BY DEF Destroyed
<1>3. Thinned(cop, kept) BY <1>2, Thinning
<1>4. /\ state' = [n \in Nodes |-> IF n \in D THEN "dead" ELSE state[n]]
      /\ data' = [n \in Nodes |-> IF n \in D THEN Blank ELSE dat[n]]
      /\ copy' = [n \in Nodes |-> IF n \in D THEN None ELSE kept[n]]
      /\ dirty' = marked \cup {n \in Alive \ D : kept[n] # cop[n] /\ ~ IsDirty(cop, n)}
  BY DEF Settle
<1>5. D \in SUBSET Nodes BY <1>2 DEF Alive
<1> HIDE DEF D
<1>6. Settles(dat, cop, marked, kept, D) BY <1>1, <1>4 DEF Settles, Rewrites
<1> QED BY <1>3, <1>5, <1>6

LEMMA RewriteTypes ==
  ASSUME TypeOK, NEW dat \in [Nodes -> Data], NEW cop \in [Nodes -> Data \cup {None}],
         NEW D, Rewrites(dat, cop, D)
  PROVE  /\ state' \in [Nodes -> {"unborn", "alive", "dead"}]
         /\ data' \in [Nodes -> Data]
         /\ copy' \in [Nodes -> Data \cup {None}]
BY BlankType DEF TypeOK, Rewrites

LEMMA RewriteHeld ==
  ASSUME Root \in Alive, NEW dat, NEW cop, NEW D, Rewrites(dat, cop, D), Closed(dat, cop, D)
  PROVE  HeldIsAlive' /\ Alive' = Alive \ D
<1>1. Alive' = Alive \ D BY DEF Alive, Rewrites, Closed
<1>2. Root \in Alive' BY <1>1 DEF Closed
<1>3. ASSUME NEW n \in Alive' PROVE Held(data', copy', n) \subseteq Alive'
  <2>1. n \in Alive \ D /\ n \in Nodes BY <1>1 DEF Alive
  <2>2. data'[n] = dat[n] /\ copy'[n] = cop[n] BY <2>1 DEF Rewrites
  <2>3. Held(data', copy', n) = Held(dat, cop, n) BY <2>2 DEF Held
  <2> QED BY <1>1, <2>1, <2>3 DEF Closed
<1> QED BY <1>1, <1>2, <1>3 DEF HeldIsAlive

LEMMA RewriteGone ==
  ASSUME TypeOK, GoneIsBlank, NEW dat, NEW cop, NEW D \in SUBSET Nodes, Rewrites(dat, cop, D),
         \A n \in Nodes \ Alive : cop[n] = copy[n] /\ dat[n] = data[n]
  PROVE  GoneIsBlank'
<1> SUFFICES ASSUME NEW n \in Nodes, state'[n] # "alive"
             PROVE  copy'[n] = None /\ ~ data'[n].dirty /\ Elements(data'[n].children) = {}
  BY DEF GoneIsBlank
<1>1. CASE n \in D BY <1>1, BlankType DEF Rewrites
<1>2. CASE n \notin D
  <2>1. state[n] # "alive" BY <1>2 DEF Rewrites
  <2>2. n \in Nodes \ Alive BY <2>1 DEF Alive
  <2>3. copy'[n] = cop[n] /\ data'[n] = dat[n] BY <1>2 DEF Rewrites
  <2> QED BY <2>1, <2>2, <2>3 DEF GoneIsBlank
<1> QED BY <1>1, <1>2

LEMMA RewriteKin ==
  ASSUME Root \in Alive, NEW dat, NEW cop, NEW D, Rewrites(dat, cop, D), Closed(dat, cop, D),
         KinOf(cop), \A n \in Nodes : cop[n] = None => dat[n] = data[n]
  PROVE  Kin'
<1>1. Alive' = Alive \ D BY RewriteHeld
<1>2. ASSUME NEW n \in Nodes, n \notin D PROVE Seen(copy, n)' = Seen(cop, n)
  <2>1. data'[n] = dat[n] /\ copy'[n] = cop[n] BY <1>2 DEF Rewrites
  <2> QED BY <2>1 DEF Seen
<1> SUFFICES ASSUME NEW n \in Alive'
             PROVE  /\ Distinct(Seen(copy, n)'.children)
                    /\ \A c \in Nodes : c \in Elements(Seen(copy, n)'.children) => Seen(copy, c)'.parent = n
  BY DEF Kin, KinOf
<1>3. n \in Alive /\ n \notin D /\ n \in Nodes BY <1>1 DEF Alive
<1>4. Seen(copy, n)' = Seen(cop, n) BY <1>2, <1>3
<1>5. Distinct(Seen(copy, n)'.children) BY <1>3, <1>4 DEF KinOf
<1>6. ASSUME NEW c \in Nodes, c \in Elements(Seen(copy, n)'.children)
      PROVE  Seen(copy, c)'.parent = n
  <2>1. c \in Elements(Seen(cop, n).children) BY <1>4, <1>6
  <2>2. c \in Held(dat, cop, n) BY <2>1, <1>3, SeenIsHeld DEF Seen
  <2>3. c \notin D BY <2>2, <1>3 DEF Closed
  <2>4. Seen(copy, c)' = Seen(cop, c) BY <1>2, <2>3
  <2> QED BY <1>3, <2>1, <2>4 DEF KinOf
<1> QED BY <1>5, <1>6

\* All of Sound that is about the Graph itself.
Solid ==
  /\ state \in [Nodes -> {"unborn", "alive", "dead"}]
  /\ data \in [Nodes -> Data]
  /\ copy \in [Nodes -> Data \cup {None}]
  /\ GoneIsBlank /\ HeldIsAlive /\ Kin

LEMMA RewriteSound ==
  ASSUME Sound, NEW dat, NEW cop, NEW D \in SUBSET Nodes, Rewrites(dat, cop, D),
         Closed(dat, cop, D), KinOf(cop),
         dat \in [Nodes -> Data], cop \in [Nodes -> Data \cup {None}],
         \A n \in Nodes : cop[n] = None => dat[n] = data[n],
         \A n \in Nodes \ Alive : cop[n] = copy[n] /\ dat[n] = data[n]
  PROVE  Solid'
<1>1. TypeOK /\ GoneIsBlank /\ Root \in Alive BY DEF Sound, HeldIsAlive
<1>2. /\ state' \in [Nodes -> {"unborn", "alive", "dead"}]
      /\ data' \in [Nodes -> Data]
      /\ copy' \in [Nodes -> Data \cup {None}]
  BY <1>1, RewriteTypes
<1>3. HeldIsAlive' BY <1>1, RewriteHeld
<1>4. GoneIsBlank' BY <1>1, RewriteGone
<1>5. Kin' BY <1>1, RewriteKin
<1> QED BY <1>2, <1>3, <1>4, <1>5 DEF Solid

\* Whatever is destroyed, and whatever the destroyed Nodes remove in turn.
LEMMA SettleSound ==
  ASSUME Sound, NEW dat, NEW cop, NEW marked \in SUBSET Nodes, NEW busy, Steady(dat, cop),
         KinOf(cop), \A n \in Nodes \ Alive : cop[n] = copy[n] /\ dat[n] = data[n],
         Settle(dat, cop, marked, busy)
  PROVE  Solid' /\ marked \subseteq dirty' /\ dirty' \subseteq Nodes
<1>1. PICK D \in SUBSET Nodes : /\ Settles(dat, cop, marked, Evict(cop, D, busy), D)
                                /\ Thinned(cop, Evict(cop, D, busy))
  BY Settled
<1> DEFINE kept == Evict(cop, D, busy)
<1>2. Settles(dat, cop, marked, kept, D) /\ Thinned(cop, kept) BY <1>1
<1> HIDE DEF kept
<1>3. KinOf(kept) BY <1>2, KinThinned
<1>4. \A n \in Nodes : kept[n] = None => dat[n] = data[n] BY <1>2 DEF Thinned, Steady
<1>5. \A n \in Nodes \ Alive : kept[n] = copy[n] /\ dat[n] = data[n] BY <1>2 DEF Thinned
<1>6. dat \in [Nodes -> Data] /\ kept \in [Nodes -> Data \cup {None}] BY <1>2 DEF Thinned, Steady
<1>7. Rewrites(dat, kept, D) /\ Closed(dat, kept, D) BY <1>2 DEF Settles
<1>8. Solid' BY <1>3, <1>4, <1>5, <1>6, <1>7, RewriteSound
<1>9. marked \subseteq dirty' /\ dirty' \subseteq Nodes BY <1>2 DEF Settles, Alive
<1> QED BY <1>8, <1>9

\* Two views with the same children in a closed set of Nodes have the same tree.
LEMMA SameTree ==
  ASSUME NEW K, NEW L, NEW S \in SUBSET Nodes, Root \in S,
         \A n \in S : K[n] = L[n] /\ K[n] \subseteq S
  PROVE  Tree(K) = Tree(L) /\ Tree(K) \subseteq S
<1>1. Tree(K) \subseteq S /\ Tree(L) \subseteq S BY DEF Tree
<1>2. ASSUME NEW n \in Tree(K), NEW T \in SUBSET Nodes, Root \in T, \A m \in T : L[m] \subseteq T
      PROVE  n \in T
  <2>1. S \cap T \in SUBSET Nodes /\ Root \in S \cap T BY <1>2
  <2>2. \A m \in S \cap T : K[m] \subseteq S \cap T BY <1>2
  <2>3. n \in S \cap T BY <2>1, <2>2, <1>2 DEF Tree
  <2> QED BY <2>3
<1>3. ASSUME NEW n \in Tree(L), NEW T \in SUBSET Nodes, Root \in T, \A m \in T : K[m] \subseteq T
      PROVE  n \in T
  <2>1. S \cap T \in SUBSET Nodes /\ Root \in S \cap T BY <1>3
  <2>2. \A m \in S \cap T : L[m] \subseteq S \cap T BY <1>3
  <2>3. n \in S \cap T BY <2>1, <2>2, <1>3 DEF Tree
  <2> QED BY <2>3
<1>4. Tree(K) \subseteq Tree(L) BY <1>2 DEF Tree
<1>5. Tree(L) \subseteq Tree(K) BY <1>3 DEF Tree
<1> QED BY <1>1, <1>4, <1>5

\* A change of the copies shows nothing to the render thread, whatever is
\* destroyed.
LEMMA RenderKept ==
  ASSUME Root \in Alive, NEW cop, NEW D \in SUBSET Nodes,
         Rewrites(data, cop, D), Closed(data, cop, D), value' = value
  PROVE  RenderGraph' = RenderGraph
<1> DEFINE S == Alive \ D
           K == [n \in Nodes |-> Elements(data[n].children)]
           L == [n \in Nodes |-> Elements(data'[n].children)]
<1>1. S \in SUBSET Nodes /\ Root \in S BY DEF Closed, Alive
<1>2. \A n \in S : data'[n] = data[n] BY <1>1 DEF Rewrites
<1>3. \A n \in S : K[n] = L[n] /\ K[n] \subseteq S
  BY <1>1, <1>2, SeenIsHeld DEF Closed
<1>4. RenderTree = Tree(K) /\ RenderTree' = Tree(L) BY DEF RenderTree
<1>5. Alive' = S BY RewriteHeld
<1> HIDE DEF S, K, L
<1>6. RenderTree' = RenderTree /\ RenderTree \subseteq S BY <1>1, <1>3, <1>4, SameTree
<1>7. [n \in RenderTree |-> Shape(n, data[n])]' = [n \in RenderTree |-> Shape(n, data[n])]
  BY <1>2, <1>6
<1>8. S \subseteq Alive BY DEF S
<1>9. {q \in VisibleProps : NodeOf[q] \in RenderTree \cap Alive}'
        = {q \in VisibleProps : NodeOf[q] \in RenderTree \cap Alive}
  BY <1>5, <1>6, <1>8
<1> QED BY <1>7, <1>9 DEF RenderGraph

-----------------------------------------------------------------------------
(* Copies that are changed *)

\* Copies to which the ui thread can move on: nobody in them holds a Node that is
\* not alive, only marked Nodes carry the flag, and only Nodes that are alive
\* have changed.
Good(cop, marked) ==
  /\ cop \in [Nodes -> Data \cup {None}]
  /\ \A n \in Alive : Held(data, cop, n) \subseteq Alive
  /\ \A n \in Nodes : IsDirty(cop, n) => n \in marked
  /\ \A n \in Nodes \ Alive : cop[n] = copy[n]

LEMMA GoodStart ==
  ASSUME Sound
  PROVE  Good(copy, Nodes) /\ KinOf(copy)
BY DEF Good, Sound, TypeOK, HeldIsAlive, Kin

LEMMA GoodSteady ==
  ASSUME Sound, NEW cop, NEW marked, Good(cop, marked)
  PROVE  Steady(data, cop)
BY DEF Good, Sound, TypeOK, HeldIsAlive, Steady

\* The data of one Node p are replaced.
LEMMA GoodUpdate ==
  ASSUME Sound, NEW cop, NEW marked, Good(cop, marked), NEW p \in Alive, NEW d \in Data,
         Elements(d.children) \subseteq Alive, d.dirty => p \in marked
  PROVE  Good([cop EXCEPT ![p] = d], marked)
<1> DEFINE new == [cop EXCEPT ![p] = d]
<1>1. cop \in [Nodes -> Data \cup {None}] /\ p \in Nodes BY DEF Good, Alive
<1>2. new \in [Nodes -> Data \cup {None}] BY <1>1
<1>3. new[p] = d /\ \A n \in Nodes : n # p => new[n] = cop[n] BY <1>1
<1> HIDE DEF new
<1>4. ASSUME NEW n \in Alive PROVE Held(data, new, n) \subseteq Alive
  <2>1. Held(data, copy, n) \subseteq Alive /\ Held(data, cop, n) \subseteq Alive /\ n \in Nodes
    BY DEF Sound, HeldIsAlive, Alive, Good
  <2>2. CASE n = p BY <2>1, <2>2, <1>3 DEF Held
  <2>3. CASE n # p
    <3>1. Held(data, new, n) = Held(data, cop, n) BY <2>1, <2>3, <1>3 DEF Held
    <3> QED BY <3>1, <2>1
  <2> QED BY <2>2, <2>3
<1>5. ASSUME NEW n \in Nodes, IsDirty(new, n) PROVE n \in marked
  <2>1. CASE n = p
    <3>1. d # None BY NoneAssumption
    <3> QED BY <3>1, <2>1, <1>3, <1>5 DEF IsDirty
  <2>2. CASE n # p
    <3>1. IsDirty(cop, n) BY <1>3, <1>5, <2>2 DEF IsDirty
    <3> QED BY <3>1 DEF Good
  <2> QED BY <2>1, <2>2
<1>6. \A n \in Nodes \ Alive : new[n] = copy[n] BY <1>3 DEF Good
<1> QED BY <1>2, <1>4, <1>5, <1>6 DEF Good, new

LEMMA KinUpdate ==
  ASSUME NEW cop \in [Nodes -> Data \cup {None}], KinOf(cop), NEW p \in Alive, NEW d \in Data,
         d.parent = Seen(cop, p).parent, Distinct(d.children),
         Elements(d.children) \subseteq Elements(Seen(cop, p).children)
  PROVE  KinOf([cop EXCEPT ![p] = d])
<1> DEFINE new == [cop EXCEPT ![p] = d]
<1>1. p \in Nodes /\ d # None BY NoneAssumption DEF Alive
<1>2. new[p] = d /\ \A n \in Nodes : n # p => new[n] = cop[n] BY <1>1
<1> HIDE DEF new
<1>3. Seen(new, p) = d /\ \A n \in Nodes : n # p => Seen(new, n) = Seen(cop, n)
  BY <1>1, <1>2 DEF Seen
<1>4. \A n \in Nodes : Seen(new, n).parent = Seen(cop, n).parent BY <1>3
<1>5. \A n \in Nodes : Elements(Seen(new, n).children) \subseteq Elements(Seen(cop, n).children)
  BY <1>3
<1> SUFFICES ASSUME NEW n \in Alive
             PROVE  /\ Distinct(Seen(new, n).children)
                    /\ \A c \in Nodes : c \in Elements(Seen(new, n).children) => Seen(new, c).parent = n
  BY DEF KinOf, new
<1>6. n \in Nodes BY DEF Alive
<1>7. Distinct(Seen(new, n).children) BY <1>3, <1>6 DEF KinOf
<1> QED BY <1>4, <1>5, <1>6, <1>7 DEF KinOf

LEMMA WithChildrenType ==
  ASSUME Sound, NEW p \in Nodes, NEW t \in Seq(Nodes)
  PROVE  /\ WithChildren(p, t) \in Data /\ WithChildren(p, t).children = t
         /\ WithChildren(p, t).parent = View(p).parent
<1>1. View(p) \in Data BY ViewType
<1> QED BY <1>1 DEF WithChildren, Data

LEMMA MarkBounds ==
  ASSUME NEW p \in Nodes, NEW marked \in SUBSET Nodes
  PROVE  Mark(p, marked) \in SUBSET Nodes /\ marked \subseteq Mark(p, marked)
BY DEF Mark

LEMMA GoodReparent ==
  ASSUME Sound, NEW c \in Alive, NEW p \in Alive, NEW q \in Alive, p # q, NEW marked,
         Good(copy, marked), q \in marked,
         c \in Elements(View(p).children) => p \in marked
  PROVE  Good(Reparent(c, p, q), marked)
<1> DEFINE dq == WithChildren(q, Append(View(q).children, c))
           added == [copy EXCEPT ![q] = dq]
           s == View(p).children
           dp == WithChildren(p, Erase(s, IndexOf(s, c)))
           removed == IF c \in Elements(s) THEN [added EXCEPT ![p] = dp] ELSE added
           moved == IF removed[c] = None THEN data[c] ELSE removed[c]
           dc == [moved EXCEPT !.parent = q]
<1>0. c \in Nodes /\ p \in Nodes /\ q \in Nodes BY DEF Alive
<1>1. Good(added, marked)
  <2>1. /\ View(q).children \in Seq(Nodes)
        /\ Elements(View(q).children) \subseteq Alive
    BY <1>0, ViewType
  <2>2. /\ Append(View(q).children, c) \in Seq(Nodes)
        /\ Elements(Append(View(q).children, c)) \subseteq Alive
    BY <1>0, <2>1, AppendElements
  <2>3. dq \in Data /\ Elements(dq.children) \subseteq Alive BY <1>0, <2>2, WithChildrenType
  <2> HIDE DEF dq
  <2> QED BY <2>3, GoodUpdate
<1> HIDE DEF added
<1>2. Good(removed, marked)
  <2>1. CASE c \in Elements(s)
    <3>1. s \in Seq(Nodes) /\ Elements(s) \subseteq Alive BY <1>0, ViewType
    <3>2. /\ Erase(s, IndexOf(s, c)) \in Seq(Nodes)
          /\ Elements(Erase(s, IndexOf(s, c))) \subseteq Alive
      BY <2>1, <3>1, EraseElements
    <3>3. dp \in Data /\ Elements(dp.children) \subseteq Alive BY <1>0, <3>2, WithChildrenType
    <3> HIDE DEF dp
    <3>4. Good([added EXCEPT ![p] = dp], marked) BY <1>1, <2>1, <3>3, GoodUpdate
    <3> QED BY <2>1, <3>4
  <2>2. CASE c \notin Elements(s) BY <1>1, <2>2
  <2> QED BY <2>1, <2>2
<1> HIDE DEF removed
<1>3. moved \in Data
  <2>1. removed[c] \in Data \cup {None} /\ data[c] \in Data BY <1>0, <1>2 DEF Good, Sound, TypeOK
  <2> QED BY <2>1
<1>4. Elements(moved.children) \subseteq Alive
  <2>1. Held(data, removed, c) \subseteq Alive BY <1>2 DEF Good
  <2> QED BY <2>1, SeenIsHeld
<1>5. moved.dirty => c \in marked
  <2>1. IsDirty(removed, c) = moved.dirty BY DEF IsDirty
  <2> QED BY <1>0, <1>2, <2>1 DEF Good
<1>6. dc \in Data /\ dc.children = moved.children /\ dc.dirty = moved.dirty
  BY <1>0, <1>3 DEF Data
<1>7. Reparent(c, p, q) = [removed EXCEPT ![c] = dc] BY DEF Reparent, removed, added
<1> HIDE DEF moved, dc
<1>8. Elements(dc.children) \subseteq Alive BY <1>4, <1>6
<1>9. dc.dirty => c \in marked BY <1>5, <1>6
<1>10. Good([removed EXCEPT ![c] = dc], marked) BY <1>2, <1>6, <1>8, <1>9, GoodUpdate
<1> QED BY <1>7, <1>10

\* The children and the parents after Node c moved from p to q.
LEMMA ReparentSeen ==
  ASSUME Sound, NEW c \in Nodes, NEW p \in Nodes, NEW q \in Nodes, p # q, NEW n \in Nodes
  PROVE  /\ Seen(Reparent(c, p, q), n).parent = IF n = c THEN q ELSE View(n).parent
         /\ Seen(Reparent(c, p, q), n).children =
              IF n = q THEN Append(View(q).children, c)
              ELSE IF n = p /\ c \in Elements(View(p).children)
              THEN Erase(View(p).children, IndexOf(View(p).children, c))
              ELSE View(n).children
<1> DEFINE dq == WithChildren(q, Append(View(q).children, c))
           added == [copy EXCEPT ![q] = dq]
           s == View(p).children
           dp == WithChildren(p, Erase(s, IndexOf(s, c)))
           removed == IF c \in Elements(s) THEN [added EXCEPT ![p] = dp] ELSE added
           moved == IF removed[c] = None THEN data[c] ELSE removed[c]
           dc == [moved EXCEPT !.parent = q]
           new == [removed EXCEPT ![c] = dc]
<1>1. copy \in [Nodes -> Data \cup {None}] /\ data \in [Nodes -> Data] BY DEF Sound, TypeOK
<1>2. /\ dq \in Data /\ dq.parent = View(q).parent
      /\ dq.children = Append(View(q).children, c)
  <2>1. Append(View(q).children, c) \in Seq(Nodes) BY ViewType, AppendElements
  <2> QED BY <2>1, WithChildrenType
<1>3. c \in Elements(s) => /\ dp \in Data /\ dp.parent = View(p).parent
                           /\ dp.children = Erase(s, IndexOf(s, c))
  <2> SUFFICES ASSUME c \in Elements(s)
               PROVE  dp \in Data /\ dp.parent = View(p).parent /\ dp.children = Erase(s, IndexOf(s, c))
    OBVIOUS
  <2>1. s \in Seq(Nodes) BY ViewType
  <2> HIDE DEF s
  <2>2. Erase(s, IndexOf(s, c)) \in Seq(Nodes) BY <2>1, EraseElements
  <2> QED BY <2>2, WithChildrenType
<1> HIDE DEF dq, dp
<1>4. added \in [Nodes -> Data \cup {None}] BY <1>1, <1>2
<1>5. removed \in [Nodes -> Data \cup {None}] BY <1>3, <1>4
<1>6. \A m \in Nodes :
        /\ Seen(added, m).parent = View(m).parent
        /\ Seen(added, m).children = IF m = q THEN dq.children ELSE View(m).children
  <2>1. dq # None BY <1>2, NoneAssumption
  <2>2. \A m \in Nodes : added[m] = IF m = q THEN dq ELSE copy[m] BY <1>1
  <2> HIDE DEF added
  <2> QED BY <1>2, <2>1, <2>2 DEF Seen, View
<1> HIDE DEF added
<1>7. \A m \in Nodes :
        /\ Seen(removed, m).parent = View(m).parent
        /\ Seen(removed, m).children = IF m = p /\ c \in Elements(s) THEN dp.children
                                       ELSE Seen(added, m).children
  <2>1. CASE c \in Elements(s)
    <3>1. dp # None BY <1>3, <2>1, NoneAssumption
    <3>2. \A m \in Nodes : removed[m] = IF m = p THEN dp ELSE added[m] BY <1>4, <2>1
    <3> HIDE DEF removed, s
    <3> QED BY <1>3, <1>6, <2>1, <3>1, <3>2 DEF Seen
  <2>2. CASE c \notin Elements(s) BY <1>6, <2>2
  <2> QED BY <2>1, <2>2
<1> HIDE DEF removed
<1>8. moved \in Data /\ moved = Seen(removed, c) BY <1>1, <1>5 DEF Seen
<1> HIDE DEF moved
<1>9. dc \in Data /\ dc.parent = q /\ dc.children = moved.children BY <1>8 DEF Data
<1> HIDE DEF dc
<1>10. /\ Seen(new, n).parent = IF n = c THEN q ELSE View(n).parent
       /\ Seen(new, n).children = Seen(removed, n).children
  <2>1. dc # None BY <1>9, NoneAssumption
  <2>2. new[n] = IF n = c THEN dc ELSE removed[n] BY <1>5
  <2> HIDE DEF new
  <2> QED BY <1>7, <1>8, <1>9, <2>1, <2>2 DEF Seen
<1>11. new = Reparent(c, p, q) BY DEF Reparent, removed, added, dq, dp, moved, dc
<1> HIDE DEF new, s
<1> QED BY <1>2, <1>3, <1>6, <1>7, <1>10, <1>11 DEF s

\* A Node that moves leaves its old parent before it is among the children of another.
LEMMA KinReparent ==
  ASSUME Sound, NEW c \in Alive, NEW p \in Alive, NEW q \in Alive, p # q, View(c).parent = p
  PROVE  KinOf(Reparent(c, p, q))
<1> DEFINE new == Reparent(c, p, q)
<1>0. c \in Nodes /\ p \in Nodes /\ q \in Nodes BY DEF Alive
<1>1. \A n \in Nodes :
        /\ Seen(new, n).parent = IF n = c THEN q ELSE View(n).parent
        /\ Seen(new, n).children =
              IF n = q THEN Append(View(q).children, c)
              ELSE IF n = p /\ c \in Elements(View(p).children)
              THEN Erase(View(p).children, IndexOf(View(p).children, c))
              ELSE View(n).children
  BY <1>0, ReparentSeen
<1> HIDE DEF new
<1>2. \A n \in Alive : /\ Distinct(View(n).children)
                       /\ \A o \in Nodes : o \in Elements(View(n).children) => View(o).parent = n
  BY SeenIsView DEF Sound, Kin, KinOf
<1>3. \A n \in Alive : n # p => c \notin Elements(View(n).children) BY <1>0, <1>2
<1> SUFFICES ASSUME NEW n \in Alive
             PROVE  /\ Distinct(Seen(new, n).children)
                    /\ \A o \in Nodes : o \in Elements(Seen(new, n).children) => Seen(new, o).parent = n
  BY DEF KinOf, new
<1>4. n \in Nodes /\ View(n).children \in Seq(Nodes) BY ViewType DEF Alive
<1>5. CASE n = q
  <2>1. Seen(new, n).children = Append(View(n).children, c) BY <1>1, <1>4, <1>5
  <2>2. Elements(Append(View(n).children, c)) = Elements(View(n).children) \cup {c}
    BY <1>0, <1>4, AppendElements
  <2>3. Distinct(Append(View(n).children, c)) BY <1>0, <1>2, <1>3, <1>4, <1>5, AppendDistinct
  <2> QED BY <1>1, <1>2, <1>5, <2>1, <2>2, <2>3
<1>6. CASE n # q /\ n = p /\ c \in Elements(View(p).children)
  <2> DEFINE s == View(n).children
  <2>1. Seen(new, n).children = Erase(s, IndexOf(s, c)) BY <1>1, <1>4, <1>6
  <2>2. s \in Seq(Nodes) /\ Distinct(s) /\ c \in Elements(s) BY <1>2, <1>4, <1>6
  <2> HIDE DEF s
  <2>3. /\ Distinct(Erase(s, IndexOf(s, c)))
        /\ Elements(Erase(s, IndexOf(s, c))) = Elements(s) \ {c}
    BY <2>2, EraseDistinct
  <2>4. \A o \in Nodes : o \in Elements(s) => View(o).parent = n BY <1>2 DEF s
  <2> QED BY <1>1, <2>1, <2>3, <2>4
<1>7. CASE n # q /\ ~ (n = p /\ c \in Elements(View(p).children))
  <2>1. Seen(new, n).children = View(n).children BY <1>1, <1>4, <1>7
  <2>2. c \notin Elements(View(n).children) BY <1>3, <1>7
  <2> QED BY <1>1, <1>2, <2>1, <2>2
<1> QED BY <1>5, <1>6, <1>7

-----------------------------------------------------------------------------
(* Every step keeps the Graph sound, for every Owner *)

\* The copies of Nodes that are alive are changed.
LEMMA SoundChange ==
  ASSUME Sound, ~ syncing, NEW cop, Good(cop, Nodes), KinOf(cop), copy' = cop,
         UNCHANGED <<state, data, value, todo, syncing, frame>>,
         dirty \subseteq dirty', dirty' \subseteq Nodes,
         modified' \in [Props -> Values \cup {None}]
  PROVE  Sound' /\ RenderGraph' = RenderGraph
<1>1. TypeOK /\ Root \in Alive BY DEF Sound, HeldIsAlive
<1>2. Rewrites(data, cop, {}) BY <1>1 DEF Rewrites, TypeOK, Good
<1>3. Closed(data, cop, {}) BY <1>1 DEF Closed, Good
<1>4. data \in [Nodes -> Data] /\ cop \in [Nodes -> Data \cup {None}] BY <1>1 DEF TypeOK, Good
<1>5. Solid' BY <1>2, <1>3, <1>4, RewriteSound DEF Good
<1>6. TypeOK' BY <1>1, <1>5 DEF Solid, TypeOK
<1>7. RenderGraph' = RenderGraph BY <1>1, <1>2, <1>3, RenderKept
<1> QED BY <1>5, <1>6, <1>7 DEF Solid, Sound

\* The same, and Nodes that nobody holds any more are destroyed.
LEMMA SoundSettle ==
  ASSUME Sound, Ui, NEW cop, Good(cop, Nodes), KinOf(cop), NEW marked \in SUBSET Nodes,
         dirty \subseteq marked, Settle(data, cop, marked, None)
  PROVE  Sound' /\ RenderGraph' = RenderGraph
<1>1. TypeOK BY DEF Sound
<1>2. Steady(data, cop) BY GoodSteady
<1>3. \A n \in Nodes \ Alive : cop[n] = copy[n] /\ data[n] = data[n] BY DEF Good
<1>4. Solid' /\ marked \subseteq dirty' /\ dirty' \subseteq Nodes BY <1>2, <1>3, SettleSound
<1>5. UNCHANGED <<value, modified, todo, syncing, frame>> BY DEF Ui
<1>6. TypeOK' BY <1>1, <1>4, <1>5 DEF Solid, TypeOK
<1>7. RenderGraph' = RenderGraph
  <2>1. PICK D \in SUBSET Nodes : Settles(data, cop, marked, Evict(cop, D, None), D)
    BY <1>2, Settled
  <2> DEFINE kept == Evict(cop, D, None)
  <2>2. Rewrites(data, kept, D) /\ Closed(data, kept, D) BY <2>1 DEF Settles
  <2>3. Root \in Alive BY DEF Sound, HeldIsAlive
  <2> HIDE DEF kept
  <2> QED BY <1>5, <2>2, <2>3, RenderKept
<1> QED BY <1>4, <1>6, <1>7 DEF Solid, Sound

\* The data of one Node are replaced by data with no other children.
LEMMA SoundUpdate ==
  ASSUME Sound, NEW p \in Alive, NEW d \in Data, d.parent = View(p).parent,
         Distinct(d.children), Elements(d.children) \subseteq Elements(View(p).children)
  PROVE  Good([copy EXCEPT ![p] = d], Nodes) /\ KinOf([copy EXCEPT ![p] = d])
<1>1. p \in Nodes BY DEF Alive
<1>2. Good(copy, Nodes) /\ KinOf(copy) BY GoodStart
<1>3. Elements(d.children) \subseteq Alive BY <1>1, ViewType
<1>4. Good([copy EXCEPT ![p] = d], Nodes) BY <1>1, <1>2, <1>3, GoodUpdate
<1>5. copy \in [Nodes -> Data \cup {None}] BY DEF Sound, TypeOK
<1>6. Seen(copy, p) = View(p) BY SeenIsView
<1>7. KinOf([copy EXCEPT ![p] = d]) BY <1>2, <1>5, <1>6, KinUpdate
<1> QED BY <1>4, <1>7

LEMMA ViewKin ==
  ASSUME Sound, NEW n \in Alive
  PROVE  Distinct(View(n).children)
BY SeenIsView DEF Sound, Kin, KinOf

\* The children of a Node that is alive are replaced by some of them.
LEMMA FewerChildren ==
  ASSUME Sound, NEW p \in Alive, NEW t \in Seq(Nodes), Distinct(t),
         Elements(t) \subseteq Elements(View(p).children)
  PROVE  /\ Good([copy EXCEPT ![p] = WithChildren(p, t)], Nodes)
         /\ KinOf([copy EXCEPT ![p] = WithChildren(p, t)])
<1> DEFINE d == WithChildren(p, t)
<1>1. p \in Nodes BY DEF Alive
<1>2. d \in Data /\ d.children = t /\ d.parent = View(p).parent BY <1>1, WithChildrenType
<1> HIDE DEF d
<1>3. Good([copy EXCEPT ![p] = d], Nodes) /\ KinOf([copy EXCEPT ![p] = d])
  BY <1>2, SoundUpdate
<1> QED BY <1>3 DEF d

LEMMA RemoveChildSound ==
  ASSUME Sound, NEW c \in Nodes, RemoveChild(c)
  PROVE  Sound' /\ RenderGraph' = RenderGraph
<1> DEFINE p == View(c).parent
           s == View(p).children
           t == Erase(s, IndexOf(s, c))
           cop == [copy EXCEPT ![p] = WithChildren(p, t)]
           marked == Mark(p, dirty)
<1>1. p \in Nodes /\ p \in Alive BY ViewType DEF RemoveChild, Alive
<1>2. s \in Seq(Nodes) /\ Distinct(s) BY <1>1, ViewType, ViewKin
<1>3. c \in Elements(s) BY DEF RemoveChild
<1>4. Ui /\ Settle(data, cop, marked, None) BY DEF RemoveChild
<1> HIDE DEF p
<1>5. t \in Seq(Nodes) /\ Distinct(t) /\ Elements(t) \subseteq Elements(s)
  <2> HIDE DEF s
  <2> QED BY <1>2, <1>3, EraseDistinct
<1> HIDE DEF t
<1>6. Good(cop, Nodes) /\ KinOf(cop) BY <1>1, <1>5, FewerChildren
<1>7. marked \in SUBSET Nodes /\ dirty \subseteq marked BY <1>1, DirtyType, MarkBounds
<1> HIDE DEF cop, marked
<1> QED BY <1>4, <1>6, <1>7, SoundSettle

LEMMA ClearChildrenSound ==
  ASSUME Sound, NEW p \in Nodes, ClearChildren(p)
  PROVE  Sound' /\ RenderGraph' = RenderGraph
<1> DEFINE cop == [copy EXCEPT ![p] = WithChildren(p, <<>>)]
           marked == Mark(p, dirty)
<1>1. <<>> \in Seq(Nodes) /\ Elements(<<>>) = {} /\ Distinct(<<>>) BY EmptySeq DEF Elements, Distinct
<1>2. p \in Alive BY DEF ClearChildren, Alive
<1>3. Ui /\ Settle(data, cop, marked, None) BY DEF ClearChildren
<1>4. Good(cop, Nodes) /\ KinOf(cop) BY <1>1, <1>2, FewerChildren
<1>5. marked \in SUBSET Nodes /\ dirty \subseteq marked BY DirtyType, MarkBounds
<1> HIDE DEF cop, marked
<1> QED BY <1>3, <1>4, <1>5, SoundSettle

LEMMA RestackSound ==
  ASSUME Sound, NEW c \in Nodes, Stackable(c), NEW t, Moves(Nodes, Siblings(c), t, c),
         Restack(c, t)
  PROVE  Sound' /\ RenderGraph' = RenderGraph
<1> DEFINE p == View(c).parent
           cop == [copy EXCEPT ![p] = WithChildren(p, t)]
           marked == Mark(p, dirty)
<1>1. p \in Nodes /\ p \in Alive BY ViewType DEF Stackable, Alive
<1>2. ~ syncing /\ UNCHANGED <<state, data, value, modified, todo, syncing, frame>>
  BY DEF Restack, Ui
<1>3. copy' = cop /\ dirty' = marked BY DEF Restack
<1>4. Distinct(Siblings(c)) BY <1>1, ViewKin DEF Siblings
<1>5. t \in Seq(Nodes) /\ Distinct(t) /\ Elements(t) \subseteq Elements(View(p).children)
  BY <1>4 DEF Moves, Siblings
<1> HIDE DEF p
<1>6. Good(cop, Nodes) /\ KinOf(cop) BY <1>1, <1>5, FewerChildren
<1>7. marked \in SUBSET Nodes /\ dirty \subseteq marked BY <1>1, DirtyType, MarkBounds
<1>8. modified' \in [Props -> Values \cup {None}] BY <1>2 DEF Sound, TypeOK
<1> HIDE DEF cop, marked
<1> QED BY <1>2, <1>3, <1>6, <1>7, <1>8, SoundChange

\* What the stacking functions make of the siblings.
LEMMA Stackings ==
  ASSUME Sound, NEW c \in Nodes,
         StackFrontOf(c) \/ StackBackOf(c) \/ \E d \in Nodes : StackNextTo(c, d)
  PROVE  \E t \in Seq(Nodes) : Stackable(c) /\ Moves(Nodes, Siblings(c), t, c) /\ Restack(c, t)
<1>1. ASSUME Stackable(c) PROVE Siblings(c) \in Seq(Nodes) /\ c \in Elements(Siblings(c))
  BY <1>1, ViewType DEF Stackable, Siblings
<1>2. CASE StackFrontOf(c)
  <2>1. Stackable(c) /\ Restack(c, StackFront(Siblings(c), c)) BY <1>2 DEF StackFrontOf
  <2>2. Moves(Nodes, Siblings(c), StackFront(Siblings(c), c), c) BY <2>1, <1>1, StackEndMoves
  <2>3. StackFront(Siblings(c), c) \in Seq(Nodes) BY <2>2 DEF Moves
  <2> QED BY <2>1, <2>2, <2>3
<1>3. CASE StackBackOf(c)
  <2>1. Stackable(c) /\ Restack(c, StackBack(Siblings(c), c)) BY <1>3 DEF StackBackOf
  <2>2. Moves(Nodes, Siblings(c), StackBack(Siblings(c), c), c) BY <2>1, <1>1, StackEndMoves
  <2>3. StackBack(Siblings(c), c) \in Seq(Nodes) BY <2>2 DEF Moves
  <2> QED BY <2>1, <2>2, <2>3
<1>4. CASE \E d \in Nodes : StackNextTo(c, d)
  <2>1. PICK d \in Nodes : StackNextTo(c, d) BY <1>4
  <2>2. Stackable(c) /\ c # d /\ d \in Elements(Siblings(c))
    BY <2>1 DEF StackNextTo, Stackable, Siblings
  <2>3. \/ Restack(c, StackBefore(Siblings(c), c, d))
        \/ Restack(c, StackBehind(Siblings(c), c, d))
    BY <2>1 DEF StackNextTo
  <2>4. /\ Moves(Nodes, Siblings(c), StackBefore(Siblings(c), c, d), c)
        /\ Moves(Nodes, Siblings(c), StackBehind(Siblings(c), c, d), c)
    BY <1>1, <2>2, StackNextMoves
  <2>5. /\ StackBefore(Siblings(c), c, d) \in Seq(Nodes)
        /\ StackBehind(Siblings(c), c, d) \in Seq(Nodes)
    BY <2>4 DEF Moves
  <2> QED BY <2>2, <2>3, <2>4, <2>5
<1> QED BY <1>2, <1>3, <1>4

LEMMA StackSound ==
  ASSUME Sound, NEW c \in Nodes,
         StackFrontOf(c) \/ StackBackOf(c) \/ \E d \in Nodes : StackNextTo(c, d)
  PROVE  Sound' /\ RenderGraph' = RenderGraph
BY Stackings, RestackSound

\* The data of one Node change, but for its parent and its children.
LEMMA OtherData ==
  ASSUME Sound, NEW n \in Alive, NEW d \in Data,
         d.parent = View(n).parent, d.children = View(n).children
  PROVE  /\ Good([copy EXCEPT ![n] = d], Nodes) /\ KinOf([copy EXCEPT ![n] = d])
         /\ Mark(n, dirty) \in SUBSET Nodes /\ dirty \subseteq Mark(n, dirty)
<1>1. Distinct(d.children) BY ViewKin
<1>2. Good([copy EXCEPT ![n] = d], Nodes) /\ KinOf([copy EXCEPT ![n] = d])
  BY <1>1, SoundUpdate
<1>3. n \in Nodes BY DEF Alive
<1> QED BY <1>2, <1>3, DirtyType, MarkBounds

LEMMA SetFlagSound ==
  ASSUME Sound, NEW n \in Nodes, SetFlag(n)
  PROVE  Sound' /\ RenderGraph' = RenderGraph
<1>1. PICK b \in BOOLEAN : copy' = [copy EXCEPT ![n] = [View(n) EXCEPT !.flag = b, !.dirty = TRUE]]
  BY DEF SetFlag
<1> DEFINE d == [View(n) EXCEPT !.flag = b, !.dirty = TRUE]
<1>2. n \in Alive BY DEF SetFlag, Alive
<1>3. ~ syncing /\ UNCHANGED <<state, data, value, modified, todo, syncing, frame>>
  BY DEF SetFlag, Ui
<1>4. View(n) \in Data BY ViewType
<1>5. d \in Data /\ d.children = View(n).children /\ d.parent = View(n).parent BY <1>4 DEF Data
<1>6. copy' = [copy EXCEPT ![n] = d] /\ dirty' = Mark(n, dirty) BY <1>1 DEF SetFlag
<1>7. modified' \in [Props -> Values \cup {None}] BY <1>3 DEF Sound, TypeOK
<1> HIDE DEF d
<1>8. /\ Good([copy EXCEPT ![n] = d], Nodes) /\ KinOf([copy EXCEPT ![n] = d])
      /\ Mark(n, dirty) \in SUBSET Nodes /\ dirty \subseteq Mark(n, dirty)
  BY <1>2, <1>5, OtherData
<1> QED BY <1>3, <1>6, <1>7, <1>8, SoundChange

LEMMA SetPropertySound ==
  ASSUME Sound, NEW p \in Props, NEW v \in Values, SetProperty(p, v)
  PROVE  Sound' /\ RenderGraph' = RenderGraph
<1> DEFINE n == NodeOf[p]
           d == [View(n) EXCEPT !.dirty = TRUE]
<1>1. n \in Nodes BY PropsAssumption
<1>2. n \in Alive BY <1>1 DEF SetProperty, Alive
<1>3. ~ syncing /\ UNCHANGED <<state, data, value, todo, syncing, frame>> BY DEF SetProperty
<1>4. modified' \in [Props -> Values \cup {None}] BY DEF SetProperty, Sound, TypeOK
<1>5. View(n) \in Data BY <1>1, ViewType
<1>6. d \in Data /\ d.children = View(n).children /\ d.parent = View(n).parent BY <1>5 DEF Data
<1>7. \/ copy' = [copy EXCEPT ![n] = d] /\ dirty' = Mark(n, dirty)
      \/ copy' = copy /\ dirty' = dirty
  BY DEF SetProperty
<1> HIDE DEF d, n
<1>8. CASE copy' = [copy EXCEPT ![n] = d] /\ dirty' = Mark(n, dirty)
  <2>1. /\ Good([copy EXCEPT ![n] = d], Nodes) /\ KinOf([copy EXCEPT ![n] = d])
        /\ Mark(n, dirty) \in SUBSET Nodes /\ dirty \subseteq Mark(n, dirty)
    BY <1>2, <1>6, OtherData
  <2> QED BY <1>3, <1>4, <1>8, <2>1, SoundChange
<1>9. CASE copy' = copy /\ dirty' = dirty
  <2>1. Good(copy, Nodes) /\ KinOf(copy) BY GoodStart
  <2> QED BY <1>3, <1>4, <1>9, <2>1, DirtyType, SoundChange
<1> QED BY <1>7, <1>8, <1>9

LEMMA SetParentSound ==
  ASSUME Sound, NEW c \in Nodes, NEW q \in Nodes, SetParent(c, q)
  PROVE  Sound' /\ RenderGraph' = RenderGraph
<1> DEFINE p == View(c).parent
           cop == Reparent(c, p, q)
           marked == IF c \in Elements(View(p).children) THEN Mark(p, Mark(q, dirty))
                     ELSE Mark(q, dirty)
<1>1. p \in Nodes /\ p # q /\ p \in Alive /\ q \in Alive /\ c \in Alive
  BY ViewType DEF SetParent, Alive
<1>2. Ui /\ Settle(data, cop, marked, None) BY DEF SetParent
<1>3. Mark(q, dirty) \in SUBSET Nodes /\ dirty \subseteq Mark(q, dirty) BY DirtyType, MarkBounds
<1>4. /\ Mark(p, Mark(q, dirty)) \in SUBSET Nodes
      /\ Mark(q, dirty) \subseteq Mark(p, Mark(q, dirty))
  BY <1>1, <1>3, MarkBounds
<1>5. marked \in SUBSET Nodes /\ dirty \subseteq marked BY <1>3, <1>4
<1>6. KinOf(cop)
  <2>1. View(c).parent = p OBVIOUS
  <2> HIDE DEF p
  <2> QED BY <1>1, <2>1, KinReparent
<1>7. Good(cop, Nodes)
  <2>1. Good(copy, Nodes) BY GoodStart
  <2> HIDE DEF p
  <2> QED BY <1>1, <2>1, GoodReparent
<1> HIDE DEF cop, marked
<1> QED BY <1>2, <1>5, <1>6, <1>7, SoundSettle

\* A new Node is nobody's child but its parent's, and has none itself.
LEMMA CreateChildSound ==
  ASSUME Sound, NEW p \in Nodes, NEW c \in Nodes, CreateChild(p, c)
  PROVE  Sound' /\ RenderGraph' = RenderGraph
<1> DEFINE d == WithChildren(p, Append(View(p).children, c))
           marked == Mark(p, dirty \cup {c})
<1>1. ~ syncing /\ UNCHANGED <<value, modified, todo, syncing, frame>> BY DEF CreateChild, Ui
<1>2. p \in Alive /\ c \notin Alive /\ p # c BY DEF CreateChild, Alive
<1>3. /\ state' = [state EXCEPT ![c] = "alive"]
      /\ data' = [data EXCEPT ![c].parent = p]
      /\ copy' = [copy EXCEPT ![p] = d]
      /\ dirty' = marked
  BY DEF CreateChild
<1>4. TypeOK /\ GoneIsBlank /\ HeldIsAlive BY DEF Sound
<1>5. View(p).children \in Seq(Nodes) /\ Elements(View(p).children) \subseteq Alive
  BY <1>2, ViewType
<1>6. /\ Append(View(p).children, c) \in Seq(Nodes)
      /\ Elements(Append(View(p).children, c)) = Elements(View(p).children) \cup {c}
  BY <1>5, AppendElements
<1>7. Distinct(Append(View(p).children, c)) BY <1>2, <1>5, AppendDistinct, ViewKin
<1>8. /\ d \in Data /\ d # None /\ d.children = Append(View(p).children, c)
      /\ d.parent = View(p).parent
  BY <1>6, WithChildrenType, NoneAssumption
<1> HIDE DEF d
<1>9. marked \in SUBSET Nodes /\ dirty \subseteq marked
  BY DirtyType, MarkBounds
<1> HIDE DEF marked
<1>10. /\ \A n \in Nodes \ {c} : data'[n] = data[n] /\ state'[n] = state[n]
       /\ data'[c] \in Data /\ data'[c].children = data[c].children /\ data'[c].parent = p
       /\ data'[c].dirty = data[c].dirty /\ state'[c] = "alive"
  BY <1>3, <1>4 DEF TypeOK, Data
<1>11. copy'[p] = d /\ \A n \in Nodes \ {p} : copy'[n] = copy[n] BY <1>3, <1>4 DEF TypeOK
<1>12. TypeOK'
  <2>1. state' \in [Nodes -> {"unborn", "alive", "dead"}] BY <1>3, <1>4 DEF TypeOK
  <2>2. data' \in [Nodes -> Data] BY <1>3, <1>4, <1>10 DEF TypeOK
  <2>3. copy' \in [Nodes -> Data \cup {None}] BY <1>3, <1>4, <1>8 DEF TypeOK
  <2> QED BY <1>1, <1>3, <1>4, <1>9, <2>1, <2>2, <2>3 DEF TypeOK
<1>13. GoneIsBlank'
  <2> SUFFICES ASSUME NEW n \in Nodes, state'[n] # "alive"
               PROVE  copy'[n] = None /\ ~ data'[n].dirty /\ Elements(data'[n].children) = {}
    BY DEF GoneIsBlank
  <2>1. n # c /\ n # p BY <1>2, <1>10 DEF Alive
  <2> QED BY <2>1, <1>4, <1>10, <1>11 DEF GoneIsBlank
<1>14. Alive' = Alive \cup {c} BY <1>10, <1>2 DEF Alive
<1>15. copy'[c] = None /\ copy[c] = None /\ Elements(data'[c].children) = {}
  <2>1. state[c] # "alive" BY <1>2 DEF Alive
  <2> QED BY <2>1, <1>2, <1>4, <1>10, <1>11 DEF GoneIsBlank
<1>16. HeldIsAlive'
  <2>1. Root \in Alive' BY <1>4, <1>14 DEF HeldIsAlive
  <2>2. ASSUME NEW n \in Alive' PROVE Held(data', copy', n) \subseteq Alive \cup {c}
    <3>1. n \in Nodes BY DEF Alive
    <3>2. CASE n = c BY <3>2, <1>15 DEF Held
    <3>3. CASE n = p
      <4>1. Elements(data'[p].children) \subseteq Alive
        BY <1>2, <1>4, <1>10, SeenIsHeld DEF HeldIsAlive
      <4> QED BY <3>3, <4>1, <1>5, <1>6, <1>8, <1>11 DEF Held
    <3>4. CASE n # c /\ n # p
      <4>1. Held(data', copy', n) = Held(data, copy, n)
        BY <3>1, <3>4, <1>10, <1>11 DEF Held
      <4>2. n \in Alive BY <3>4, <1>14
      <4> QED BY <4>1, <4>2, <1>4 DEF HeldIsAlive
    <3> QED BY <3>2, <3>3, <3>4
  <2> QED BY <2>1, <2>2, <1>14 DEF HeldIsAlive
<1>17. Kin'
  <2>1. \A n \in Nodes : n # c => Seen(copy, n)'.parent = View(n).parent
    BY <1>8, <1>10, <1>11 DEF Seen, View
  <2>2. Seen(copy, c)' = data'[c] BY <1>15 DEF Seen
  <2>3. Seen(copy, p)'.children = Append(View(p).children, c) BY <1>8, <1>11 DEF Seen
  <2>4. \A n \in Nodes : n # c /\ n # p => Seen(copy, n)'.children = View(n).children
    BY <1>10, <1>11 DEF Seen, View
  <2>5. \A n \in Alive : /\ Distinct(View(n).children) /\ c \notin Elements(View(n).children)
                         /\ \A o \in Nodes : o \in Elements(View(n).children) => View(o).parent = n
    <3> TAKE n \in Alive
    <3>1. Distinct(View(n).children) BY ViewKin
    <3>2. \A o \in Nodes : o \in Elements(View(n).children) => View(o).parent = n
      BY SeenIsView DEF Sound, Kin, KinOf
    <3>3. n \in Nodes BY DEF Alive
    <3>4. c \notin Elements(View(n).children) BY <1>2, <3>3, ViewType
    <3> QED BY <3>1, <3>2, <3>4
  <2> SUFFICES ASSUME NEW n \in Alive'
               PROVE  /\ Distinct(Seen(copy, n)'.children)
                      /\ \A o \in Nodes : o \in Elements(Seen(copy, n)'.children)
                                            => Seen(copy, o)'.parent = n
    BY DEF Kin, KinOf
  <2>6. n \in Nodes BY DEF Alive
  <2>7. CASE n = c
    <3> DEFINE s == Seen(copy, n)'.children
    <3>1. Elements(s) = {} BY <1>15, <2>2, <2>7
    <3>2. Distinct(s) BY <3>1 DEF Distinct, Elements
    <3> QED BY <3>1, <3>2
  <2>8. CASE n = p
    <3>1. Distinct(Seen(copy, n)'.children) BY <1>7, <2>3, <2>8
    <3>2. Elements(Seen(copy, n)'.children) = Elements(View(n).children) \cup {c}
      BY <1>6, <2>3, <2>8
    <3>3. Seen(copy, c)'.parent = n BY <1>10, <2>2, <2>8
    <3> QED BY <1>2, <2>1, <2>5, <2>8, <3>1, <3>2, <3>3
  <2>9. CASE n # c /\ n # p
    <3>1. n \in Alive BY <1>14, <2>9
    <3>2. Seen(copy, n)'.children = View(n).children BY <2>4, <2>6, <2>9
    <3> QED BY <2>1, <2>5, <3>1, <3>2
  <2> QED BY <2>7, <2>8, <2>9
<1>18. RenderGraph' = RenderGraph
  <2> DEFINE K == [n \in Nodes |-> Elements(data[n].children)]
             L == [n \in Nodes |-> Elements(data'[n].children)]
  <2>1. \A n \in Alive : data'[n] = data[n] /\ n \in Nodes BY <1>2, <1>10 DEF Alive
  <2>2. \A n \in Alive : K[n] = L[n] /\ K[n] \subseteq Alive
    BY <1>4, <2>1, SeenIsHeld DEF HeldIsAlive
  <2>3. RenderTree = Tree(K) /\ RenderTree' = Tree(L) BY DEF RenderTree
  <2>4. Alive \in SUBSET Nodes /\ Root \in Alive BY <1>4 DEF Alive, HeldIsAlive
  <2> HIDE DEF K, L
  <2>5. RenderTree' = RenderTree /\ RenderTree \subseteq Alive BY <2>2, <2>3, <2>4, SameTree
  <2>6. [n \in RenderTree |-> Shape(n, data[n])]' = [n \in RenderTree |-> Shape(n, data[n])]
    BY <2>1, <2>5
  <2>7. {q \in VisibleProps : NodeOf[q] \in RenderTree \cap Alive}'
          = {q \in VisibleProps : NodeOf[q] \in RenderTree \cap Alive}
    BY <1>14, <2>5
  <2> QED BY <1>1, <2>6, <2>7 DEF RenderGraph
<1> QED BY <1>12, <1>13, <1>16, <1>17, <1>18 DEF Sound

\* The Data of Node n when synchronize moves its copy back.
LEMMA CleanView ==
  ASSUME Sound, NEW n \in Alive
  PROVE  /\ Clean(View(n)) \in Data /\ Clean(View(n)) # None /\ ~ Clean(View(n)).dirty
         /\ Clean(View(n)).children = View(n).children
         /\ Clean(View(n)).parent = View(n).parent
         /\ Shape(n, Clean(View(n))) = Shape(n, View(n))
<1>1. View(n) \in Data BY ViewType DEF Alive
<1> QED BY <1>1, NoneAssumption DEF Clean, Data, Shape

LEMMA ClearSteady ==
  ASSUME Sound, NEW n \in Alive
  PROVE  /\ Steady([data EXCEPT ![n] = View(n)], [copy EXCEPT ![n] = Clean(View(n))])
         /\ KinOf([copy EXCEPT ![n] = Clean(View(n))])
<1> DEFINE d == Clean(View(n))
           dat == [data EXCEPT ![n] = View(n)]
           cop == [copy EXCEPT ![n] = d]
<1>1. TypeOK /\ GoneIsBlank /\ HeldIsAlive BY DEF Sound
<1>2. n \in Nodes /\ Root \in Alive BY <1>1 DEF Alive, HeldIsAlive
<1>3. View(n) \in Data /\ Elements(View(n).children) \subseteq Alive BY <1>2, ViewType
<1>4. d \in Data /\ d # None /\ d.children = View(n).children /\ d.parent = View(n).parent
  BY CleanView
<1> HIDE DEF d
<1>5. dat \in [Nodes -> Data] /\ cop \in [Nodes -> Data \cup {None}]
  BY <1>1, <1>3, <1>4 DEF TypeOK
<1>6. /\ dat[n] = View(n) /\ cop[n] = d
      /\ \A m \in Nodes \ {n} : dat[m] = data[m] /\ cop[m] = copy[m]
  BY <1>1, <1>2 DEF TypeOK
<1>7. KinOf(cop)
  <2>1. Distinct(d.children) BY <1>4, ViewKin
  <2> QED BY <1>4, <2>1, SoundUpdate
<1> HIDE DEF dat, cop
<1>8. ASSUME NEW m \in Alive PROVE Held(dat, cop, m) \subseteq Alive
  <2>1. CASE m = n BY <2>1, <1>3, <1>4, <1>6 DEF Held
  <2>2. CASE m # n
    <3>1. m \in Nodes BY DEF Alive
    <3>2. Held(dat, cop, m) = Held(data, copy, m) BY <3>1, <2>2, <1>6 DEF Held
    <3> QED BY <3>2, <1>1 DEF HeldIsAlive
  <2> QED BY <2>1, <2>2
<1>9. \A m \in Nodes : cop[m] = None => dat[m] = data[m] BY <1>4, <1>6
<1>10. Steady(dat, cop) BY <1>2, <1>5, <1>8, <1>9 DEF Steady
<1> QED BY <1>7, <1>10 DEF dat, cop, d

LEMMA ClearedTypes ==
  ASSUME TypeOK, NEW n \in Nodes, ClearModifiedProperties(n)
  PROVE  value' \in [Props -> Values] /\ modified' \in [Props -> Values \cup {None}]
<1>1. \A p \in Props : Current(p) \in Values BY DEF TypeOK, Current
<1>2. value' \in [Props -> Values] BY <1>1 DEF ClearModifiedProperties, TypeOK
<1>3. modified' \in [Props -> Values \cup {None}] BY DEF ClearModifiedProperties, TypeOK
<1> QED BY <1>2, <1>3

\* The Nodes that the running synchronize has done with.
Visited == dirty \ todo

\* Node n is visited, and no Node that has been is to be visited again.
Visits(n) == Visited \subseteq Visited' /\ n \in Visited' \ Visited

LEMMA SyncNodeSound ==
  ASSUME Sound, NEW n \in Nodes, SyncNode(n)
  PROVE  Sound' /\ Visits(n)
<1>1. TypeOK /\ syncing /\ n \in todo /\ UNCHANGED <<syncing, frame>> BY DEF SyncNode, Sound
<1>2. CASE state[n] = "alive" /\ ClearModifiedData(n)
  <2> DEFINE dat == [data EXCEPT ![n] = View(n)]
             cop == [copy EXCEPT ![n] = Clean(View(n))]
  <2>1. n \in Alive BY <1>2 DEF Alive
  <2>2. Steady(dat, cop) /\ KinOf(cop) BY <2>1, ClearSteady
  <2>3. /\ Settle(dat, cop, dirty, n) /\ ClearModifiedProperties(n)
        /\ \E seen \in SUBSET (dirty' \ dirty) : todo' = (todo \ {n}) \cup seen
    BY <1>2 DEF ClearModifiedData
  <2>4. \A m \in Nodes \ Alive : cop[m] = copy[m] /\ dat[m] = data[m]
    BY <1>1, <2>1 DEF TypeOK
  <2> HIDE DEF dat, cop
  <2>5. Solid' /\ dirty \subseteq dirty' /\ dirty' \subseteq Nodes
    BY <2>2, <2>3, <2>4, DirtyType, SettleSound
  <2>6. value' \in [Props -> Values] /\ modified' \in [Props -> Values \cup {None}]
    BY <1>1, <2>3, ClearedTypes
  <2>7. todo' \subseteq dirty' BY <1>1, <2>3, <2>5 DEF TypeOK
  <2>8. TypeOK' BY <1>1, <2>5, <2>6, <2>7 DEF TypeOK, Solid
  <2>9. Visits(n) BY <1>1, <2>3, <2>5 DEF TypeOK, Visits, Visited
  <2> QED BY <2>5, <2>8, <2>9 DEF Solid, Sound
<1>3. CASE /\ state[n] # "alive" /\ todo' = todo \ {n}
           /\ UNCHANGED <<state, data, copy, value, modified, dirty>>
  <2>1. TypeOK' BY <1>1, <1>3 DEF TypeOK
  <2>2. GoneIsBlank' /\ HeldIsAlive' /\ Kin'
    BY <1>3 DEF Sound, GoneIsBlank, HeldIsAlive, Alive, Held, Kin, KinOf, Seen
  <2>3. Visits(n) BY <1>1, <1>3 DEF TypeOK, Visits, Visited
  <2> QED BY <2>1, <2>2, <2>3 DEF Sound
<1> QED BY <1>1, <1>2, <1>3 DEF SyncNode

\* Steps that leave the Nodes alone.
LEMMA OtherSound ==
  ASSUME Sound, SyncBegin \/ SyncEnd \/ BeginFrame \/ EndFrame \/ UNCHANGED vars
  PROVE  Sound'
<1>1. UNCHANGED <<state, data, copy, value, modified>>
  BY DEF SyncBegin, SyncEnd, BeginFrame, EndFrame, vars
<1>2. GoneIsBlank' /\ HeldIsAlive' /\ Kin'
  BY <1>1 DEF Sound, GoneIsBlank, HeldIsAlive, Alive, Held, Kin, KinOf, Seen
<1>3. TypeOK BY DEF Sound
<1>4. TypeOK'
  <2>1. CASE SyncBegin BY <1>3, <2>1 DEF SyncBegin, TypeOK
  <2>2. CASE SyncEnd BY <1>3, <2>2 DEF SyncEnd, TypeOK
  <2>3. CASE BeginFrame BY <1>3, <2>3 DEF BeginFrame, TypeOK
  <2>4. CASE EndFrame BY <1>3, <2>4 DEF EndFrame, TypeOK
  <2>5. CASE UNCHANGED vars BY <1>3, <2>5 DEF vars, TypeOK
  <2> QED BY <2>1, <2>2, <2>3, <2>4, <2>5
<1> QED BY <1>2, <1>4 DEF Sound

\* Every step of the ui thread outside of synchronize.
Changes ==
  \/ Hierarchy
  \/ \E n \in Nodes : ClearChildren(n) \/ SetFlag(n)
  \/ \E p \in Props, v \in Values : SetProperty(p, v)

LEMMA ChangesAreUi == Changes => ~ syncing /\ UNCHANGED <<syncing, frame>>
<1>1. ASSUME NEW c \in Nodes, RemoveChild(c)
      PROVE  ~ syncing /\ UNCHANGED <<syncing, frame>>
  BY <1>1 DEF RemoveChild, Ui
<1>2. ASSUME NEW c \in Nodes, NEW n \in Nodes, StackFrontOf(c) \/ StackBackOf(c) \/ StackNextTo(c, n)
      PROVE  ~ syncing /\ UNCHANGED <<syncing, frame>>
  BY <1>2 DEF StackFrontOf, StackBackOf, StackNextTo, Restack, Ui
<1>3. ASSUME NEW c \in Nodes, NEW n \in Nodes, CreateChild(n, c)
      PROVE  ~ syncing /\ UNCHANGED <<syncing, frame>>
  BY <1>3 DEF CreateChild, Ui
<1>4. ASSUME NEW c \in Nodes, NEW n \in Nodes, SetParent(c, n)
      PROVE  ~ syncing /\ UNCHANGED <<syncing, frame>>
  BY <1>4 DEF SetParent, Ui
<1>5. Hierarchy => ~ syncing /\ UNCHANGED <<syncing, frame>>
  BY <1>1, <1>2, <1>3, <1>4 DEF Hierarchy
<1>6. (\E n \in Nodes : ClearChildren(n) \/ SetFlag(n)) => ~ syncing /\ UNCHANGED <<syncing, frame>>
  BY DEF ClearChildren, SetFlag, Ui
<1>7. (\E p \in Props, v \in Values : SetProperty(p, v)) => ~ syncing /\ UNCHANGED <<syncing, frame>>
  BY DEF SetProperty
<1> QED
  BY <1>5, <1>6, <1>7 DEF Changes

\* Nothing that the ui thread does outside of synchronize is seen in a frame.
LEMMA ChangesSound ==
  ASSUME Sound, Changes
  PROVE  Sound' /\ RenderGraph' = RenderGraph
<1>1. CASE Hierarchy
  <2>1. PICK c \in Nodes \ {Root} :
          \/ RemoveChild(c) \/ StackFrontOf(c) \/ StackBackOf(c)
          \/ \E n \in Nodes : CreateChild(n, c) \/ SetParent(c, n) \/ StackNextTo(c, n)
    BY <1>1 DEF Hierarchy
  <2> QED BY <2>1, RemoveChildSound, StackSound, CreateChildSound, SetParentSound
<1>2. CASE \E n \in Nodes : ClearChildren(n) \/ SetFlag(n)
  BY <1>2, ClearChildrenSound, SetFlagSound
<1>3. CASE \E p \in Props, v \in Values : SetProperty(p, v)
  BY <1>3, SetPropertySound
<1> QED BY <1>1, <1>2, <1>3 DEF Changes

LEMMA StepSound == Sound /\ [Next]_vars => Sound'
<1> SUFFICES ASSUME Sound, [Next]_vars PROVE Sound'
  OBVIOUS
<1>1. CASE Changes BY <1>1, ChangesSound
<1>2. CASE \E n \in Nodes : SyncNode(n) BY <1>2, SyncNodeSound
<1>3. CASE SyncBegin \/ SyncEnd \/ BeginFrame \/ EndFrame \/ UNCHANGED vars
  BY <1>3, OtherSound
<1> QED BY <1>1, <1>2, <1>3 DEF Next, Synchronize, Changes

LEMMA InitSound == Init => Sound
<1> SUFFICES ASSUME Init PROVE Sound
  OBVIOUS
<1> USE DEF Init
<1>1. state \in [Nodes -> {"unborn", "alive", "dead"}] OBVIOUS
<1>2. data \in [Nodes -> Data] BY BlankType
<1>3. copy \in [Nodes -> Data \cup {None}] OBVIOUS
<1>4. value \in [Props -> Values] BY PropsAssumption
<1>5. modified \in [Props -> Values \cup {None}] OBVIOUS
<1>6. dirty \subseteq Nodes BY NodesAssumption
<1>7. TypeOK BY <1>1, <1>2, <1>3, <1>4, <1>5, <1>6 DEF TypeOK
<1>8. GoneIsBlank BY BlankType DEF GoneIsBlank
<1>9. HeldIsAlive BY BlankType, NodesAssumption DEF HeldIsAlive, Held, Alive
<1>10. \A n \in Nodes : Elements(Seen(copy, n).children) = {} BY BlankType DEF Seen
<1>11. \A n \in Nodes : Distinct(Seen(copy, n).children)
  <2> TAKE n \in Nodes
  <2> DEFINE s == Seen(copy, n).children
  <2>1. Elements(s) = {} BY <1>10
  <2> HIDE DEF s
  <2>2. Distinct(s) BY <2>1 DEF Distinct, Elements
  <2> QED BY <2>2 DEF s
<1>12. Kin BY <1>10, <1>11 DEF Kin, KinOf, Alive
<1> QED BY <1>7, <1>8, <1>9, <1>12 DEF Sound

\* An element of a sequence without repetition is in one place.
LEMMA OnePlace ==
  ASSUME NEW S, NEW s \in Seq(S), Distinct(s), NEW x \in Elements(s)
  PROVE  Cardinality({i \in 1 .. Len(s) : s[i] = x}) = 1
<1>1. PICK k \in 1 .. Len(s) : s[k] = x BY DEF Elements
<1>2. {i \in 1 .. Len(s) : s[i] = x} = {k} BY <1>1 DEF Distinct
<1> QED BY <1>2, FS_Singleton

LEMMA KinImpliesOneParent == Sound => OneParent
<1> SUFFICES ASSUME Sound, NEW n \in Alive, NEW c \in Alive, c \in Elements(View(n).children)
             PROVE  /\ View(c).parent = n
                    /\ Cardinality({i \in 1 .. Len(View(n).children) : View(n).children[i] = c}) = 1
  BY DEF OneParent
<1>1. n \in Nodes /\ c \in Nodes BY DEF Alive
<1>2. View(c).parent = n BY <1>1, SeenIsView DEF Sound, Kin, KinOf
<1> DEFINE s == View(n).children
<1>3. s \in Seq(Nodes) /\ Distinct(s) /\ c \in Elements(s) BY <1>1, ViewType, ViewKin
<1> HIDE DEF s
<1>4. Cardinality({i \in 1 .. Len(s) : s[i] = c}) = 1 BY <1>3, OnePlace
<1> QED BY <1>2, <1>4 DEF s

-----------------------------------------------------------------------------
(* The theorems for every Owner *)

\* No Node that either thread can reach has been destroyed.
LEMMA HeldImpliesReachable == HeldIsAlive => ReachableIsAlive
<1> SUFFICES ASSUME HeldIsAlive PROVE ReachableIsAlive
  OBVIOUS
<1>1. Alive \in SUBSET Nodes /\ Root \in Alive BY DEF Alive, HeldIsAlive
<1>2. ASSUME NEW n \in Alive
      PROVE  Elements(View(n).children) \subseteq Alive /\ Elements(data[n].children) \subseteq Alive
  BY <1>2, SeenIsHeld DEF View, HeldIsAlive
<1>3. UiTree \subseteq Alive
  <2> DEFINE K == [n \in Nodes |-> Elements(View(n).children)]
  <2>1. \A n \in Alive : K[n] = K[n] /\ K[n] \subseteq Alive BY <1>1, <1>2
  <2> HIDE DEF K
  <2>2. Tree(K) \subseteq Alive BY <1>1, <2>1, SameTree
  <2> QED BY <2>2 DEF K, UiTree
<1>4. RenderTree \subseteq Alive
  <2> DEFINE K == [n \in Nodes |-> Elements(data[n].children)]
  <2>1. \A n \in Alive : K[n] = K[n] /\ K[n] \subseteq Alive BY <1>1, <1>2
  <2> HIDE DEF K
  <2>2. Tree(K) \subseteq Alive BY <1>1, <2>1, SameTree
  <2> QED BY <2>2 DEF K, RenderTree
<1> QED BY <1>3, <1>4 DEF ReachableIsAlive

\* The hierarchy stays sound in every reachable state, for every set of Nodes and
\* whoever owns whom.
THEOREM Soundness == Spec => []Sound
BY InitSound, StepSound, PTL DEF Spec

\* The variables keep their types: in particular the Nodes that the loop in
\* synchronize has yet to visit are always registered as dirty, and no frame is
\* drawn meanwhile.
THEOREM Typing == Spec => []TypeOK
<1>1. Sound => TypeOK BY DEF Sound
<1> QED BY <1>1, Soundness, PTL

\* However Nodes are created, moved and removed, and whatever their removal makes
\* the NodeOwners remove in turn, nothing that the ui thread or the render thread
\* can reach is destroyed.
THEOREM Reachability == Spec => []ReachableIsAlive
<1>1. Sound => ReachableIsAlive BY HeldImpliesReachable DEF Sound
<1> QED BY <1>1, Soundness, PTL

\* Nodes that are moved, restacked and removed stay in one place of the hierarchy:
\* a child is there once, and the Node that has it is the one it calls its parent.
THEOREM Hierarchical == Spec => []OneParent
BY KinImpliesOneParent, Soundness, PTL

LEMMA SyncingStep ==
  ASSUME Sound, [Next]_vars, syncing, syncing'
  PROVE  UNCHANGED vars \/ \E n \in Nodes : Visits(n)
<1>1. ~ frame BY DEF Sound, TypeOK
<1>2. ~ Changes BY ChangesAreUi
<1>3. ~ SyncBegin /\ ~ SyncEnd /\ ~ BeginFrame /\ ~ EndFrame
  BY <1>1 DEF SyncBegin, SyncEnd, BeginFrame, EndFrame
<1>4. UNCHANGED vars \/ \E n \in Nodes : SyncNode(n)
  BY <1>2, <1>3 DEF Next, Synchronize, Changes
<1> QED BY <1>4, SyncNodeSound

\* The loop in synchronize visits no Node twice, although the destruction of a Node
\* may register others as dirty while it runs: each step adds to the Nodes that it
\* has done with, of which there are finitely many, so the loop ends.
THEOREM VisitedOnce ==
  Spec => [][syncing /\ syncing' => Visited \subseteq Visited' /\ Visited' # Visited]_vars
<1>1. Sound /\ [Next]_vars
        => [syncing /\ syncing' => Visited \subseteq Visited' /\ Visited' # Visited]_vars
  BY SyncingStep DEF Visits
<1> QED BY <1>1, Soundness, PTL DEF Spec

LEMMA FrameKept ==
  ASSUME Sound, [Next]_vars, frame, frame'
  PROVE  RenderGraph' = RenderGraph
<1>1. ~ syncing BY DEF Sound, TypeOK
<1>2. ~ Synchronize /\ ~ BeginFrame /\ ~ EndFrame
  BY <1>1 DEF Synchronize, SyncBegin, SyncNode, SyncEnd, BeginFrame, EndFrame
<1>3. CASE Changes BY <1>3, ChangesSound
<1>4. CASE UNCHANGED vars
  <2>1. UNCHANGED <<state, data, value>> BY <1>4 DEF vars
  <2> QED BY <2>1 DEF RenderGraph, RenderTree, Alive
<1> QED BY <1>2, <1>3, <1>4 DEF Next, Changes

\* What the render thread sees does not change during a frame, whatever the ui
\* thread creates, moves and removes meanwhile and whatever that destroys.
THEOREM FramesAreStable == Spec => [][frame /\ frame' => RenderGraph' = RenderGraph]_vars
<1>1. Sound /\ [Next]_vars => [frame /\ frame' => RenderGraph' = RenderGraph]_vars
  BY FrameKept
<1> QED BY <1>1, Soundness, PTL DEF Spec

-----------------------------------------------------------------------------
(* When nobody owns another's child: the inductive invariant *)

\* The Nodes that synchronize has yet to visit, or will visit when it runs.
Pending == IF syncing THEN todo ELSE dirty

\* A Node that carries the DIRTY flag will be visited.
FlagsArePending == \A n \in Nodes : IsDirty(copy, n) => n \in Pending

\* Both threads see the same of a Node that synchronize will not visit.
Agrees(n) ==
  /\ Shape(n, View(n)) = Shape(n, data[n])
  /\ \A p \in VisibleProps : NodeOf[p] = n /\ state[n] = "alive" => value[p] = Current(p)

OthersAgree == \A n \in Nodes \ Pending : Agrees(n)

\* What the two threads rely on.
Fresh == FlagsArePending /\ OthersAgree

IInv == Sound /\ Fresh

\* If both threads see the same of every Node, they see the same Graph.
LEMMA AgreeEverywhere ==
  ASSUME TypeOK, \A n \in Nodes : Agrees(n)
  PROVE  RenderGraph = UiGraph
<1>1. \A n \in Nodes : View(n).children = data[n].children BY DEF Agrees, Shape
<1>2. [n \in Nodes |-> Elements(View(n).children)] = [n \in Nodes |-> Elements(data[n].children)]
  BY <1>1
<1>3. UiTree = RenderTree BY <1>2 DEF UiTree, RenderTree
<1>4. UiTree \subseteq Nodes BY DEF UiTree, Tree
<1>5. [n \in UiTree |-> Shape(n, View(n))] = [n \in RenderTree |-> Shape(n, data[n])]
  BY <1>3, <1>4 DEF Agrees
<1> DEFINE Q == {q \in VisibleProps : NodeOf[q] \in UiTree \cap Alive}
<1>6. \A p \in Q : value[p] = Current(p) BY <1>4 DEF Agrees, Alive
<1>7. [p \in Q |-> value[p]] = [p \in Q |-> Current(p)] BY <1>6
<1>8. Q = {q \in VisibleProps : NodeOf[q] \in RenderTree \cap Alive} BY <1>3
<1> QED BY <1>5, <1>7, <1>8 DEF UiGraph, RenderGraph

LEMMA FlagsImplyMarked == TypeOK /\ FlagsArePending => DirtyIsMarked
BY DEF TypeOK, FlagsArePending, DirtyIsMarked, Pending, IsDirty, View, Alive

LEMMA OthersImplyAgreement ==
  ASSUME TypeOK, OthersAgree
  PROVE  Agreement
<1>1. ~ syncing /\ dirty = {} => \A n \in Nodes : Agrees(n) BY DEF OthersAgree, Pending
<1> QED BY <1>1, AgreeEverywhere DEF Agreement

LEMMA InitAgrees == Init => \A n \in Nodes : Agrees(n)
<1> SUFFICES ASSUME Init, NEW n \in Nodes PROVE Agrees(n)
  OBVIOUS
<1>1. View(n) = data[n] BY DEF Init, View
<1>2. \A p \in VisibleProps : value[p] = Current(p)
  BY PropsAssumption DEF Init, Current
<1> QED BY <1>1, <1>2 DEF Agrees

LEMMA InitIInv == Init => IInv
<1> SUFFICES ASSUME Init PROVE IInv
  OBVIOUS
<1>1. Sound BY InitSound
<1>2. FlagsArePending BY BlankType DEF Init, FlagsArePending, IsDirty
<1>3. OthersAgree BY InitAgrees DEF OthersAgree
<1> QED BY <1>1, <1>2, <1>3 DEF IInv, Fresh

\* A destruction removes nothing further.
LEMMA NothingEvicted ==
  ASSUME Unowned, NEW cop, NEW D \in SUBSET Nodes, NEW busy
  PROVE  Evict(cop, D, busy) = cop
<1>1. \A o \in Alive : Owner[o] \notin D BY NoneAssumption DEF Unowned, Alive
<1> QED BY <1>1 DEF Evict

LEMMA SettledUnowned ==
  ASSUME Unowned, Sound, NEW dat, NEW cop, NEW marked, NEW busy, Steady(dat, cop),
         Settle(dat, cop, marked, busy)
  PROVE  \E D \in SUBSET Nodes : Rewrites(dat, cop, D) /\ Closed(dat, cop, D) /\ dirty' = marked
<1>1. PICK D \in SUBSET Nodes : Settles(dat, cop, marked, Evict(cop, D, busy), D)
  BY Settled
<1>2. Evict(cop, D, busy) = cop BY NothingEvicted
<1>3. Settles(dat, cop, marked, cop, D) BY <1>1, <1>2
<1> QED BY <1>3 DEF Settles

\* With the copies cop the ui thread sees the same of Node n as before.
SameShape(n, cop) ==
  Shape(n, IF cop[n] = None THEN data[n] ELSE cop[n]) = Shape(n, View(n))

\* The ui thread changes copies, marks the Nodes and destroys others.
LEMMA UiRewrite ==
  ASSUME Sound, Fresh, ~ syncing, NEW cop, Good(cop, dirty'), NEW D \in SUBSET Nodes,
         Rewrites(data, cop, D), Closed(data, cop, D),
         dirty \subseteq dirty', dirty' \subseteq Nodes,
         UNCHANGED <<value, todo, syncing, frame>>,
         modified' \in [Props -> Values \cup {None}],
         \A p \in VisibleProps : modified'[p] # modified[p] => NodeOf[p] \in dirty',
         \A n \in Nodes \ dirty' : SameShape(n, cop)
  PROVE  Fresh'
<1>1. TypeOK /\ Root \in Alive /\ GoneIsBlank BY DEF Sound, HeldIsAlive
<1>2. FlagsArePending'
  <2> SUFFICES ASSUME NEW n \in Nodes, IsDirty(copy, n)' PROVE n \in dirty'
    BY DEF FlagsArePending, Pending, IsDirty
  <2>1. CASE n \in D BY <2>1, BlankType DEF Rewrites, IsDirty
  <2>2. CASE n \notin D
    <3>1. copy'[n] = cop[n] /\ data'[n] = data[n] BY <2>2 DEF Rewrites
    <3> QED BY <3>1 DEF IsDirty, Good
  <2> QED BY <2>1, <2>2
<1>3. OthersAgree'
  <2> SUFFICES ASSUME NEW n \in Nodes \ dirty' PROVE Agrees(n)'
    BY DEF OthersAgree, Pending
  <2>1. CASE n \in D
    <3>1. copy'[n] = None /\ data'[n] = Blank /\ state'[n] = "dead" BY <2>1 DEF Rewrites
    <3> QED BY <3>1 DEF Agrees, View
  <2>2. CASE n \notin D
    <3>1. copy'[n] = cop[n] /\ data'[n] = data[n] /\ state'[n] = state[n]
      BY <2>2 DEF Rewrites
    <3>2. Agrees(n) BY DEF Fresh, OthersAgree, Pending
    <3>3. \A p \in VisibleProps : NodeOf[p] = n => modified'[p] = modified[p] /\ value'[p] = value[p]
      OBVIOUS
    <3>4. Shape(n, View(n)') = Shape(n, View(n)) BY <3>1 DEF View, SameShape
    <3>5. \A p \in VisibleProps : NodeOf[p] = n => Current(p)' = Current(p)
      BY <3>3 DEF Current
    <3> QED BY <3>1, <3>2, <3>3, <3>4, <3>5 DEF Agrees
  <2> QED BY <2>1, <2>2
<1> QED BY <1>2, <1>3 DEF Fresh

\* The same without a destruction.
LEMMA UiChange ==
  ASSUME Sound, Fresh, ~ syncing, NEW cop, Good(cop, dirty'),
         copy' = cop, UNCHANGED <<state, data, value, todo, syncing, frame>>,
         dirty \subseteq dirty', dirty' \subseteq Nodes,
         modified' \in [Props -> Values \cup {None}],
         \A p \in VisibleProps : modified'[p] # modified[p] => NodeOf[p] \in dirty',
         \A n \in Nodes \ dirty' : SameShape(n, cop)
  PROVE  Fresh'
<1>1. TypeOK /\ Root \in Alive BY DEF Sound, HeldIsAlive
<1>2. Rewrites(data, cop, {}) BY <1>1 DEF Rewrites, TypeOK, Good
<1>3. Closed(data, cop, {}) BY <1>1 DEF Closed, Good
<1> QED BY <1>2, <1>3, UiRewrite

-----------------------------------------------------------------------------
(* The actions of the ui thread *)

LEMMA StartMarked ==
  ASSUME Sound, Fresh, ~ syncing, NEW marked, dirty \subseteq marked
  PROVE  Good(copy, marked)
BY DEF Good, Fresh, Sound, TypeOK, HeldIsAlive, FlagsArePending, Pending

\* A Node that changes is registered.
LEMMA Marked ==
  ASSUME Sound, Fresh, ~ syncing, NEW p \in Nodes, NEW marked \in SUBSET Nodes, dirty \subseteq marked
  PROVE  p \in Mark(p, marked) /\ marked \subseteq Mark(p, marked) /\ Mark(p, marked) \subseteq Nodes
<1>1. View(p).dirty => p \in dirty BY ViewType DEF Fresh, FlagsArePending, Pending
<1> QED BY <1>1 DEF Mark

\* The children of a Node that is alive are replaced, and what they held goes.
LEMMA Unchilded ==
  ASSUME Sound, Fresh, Unowned, Ui, NEW p \in Alive, NEW t \in Seq(Nodes), Elements(t) \subseteq Alive,
         Settle(data, [copy EXCEPT ![p] = WithChildren(p, t)], Mark(p, dirty), None)
  PROVE  Fresh'
<1> DEFINE cop == [copy EXCEPT ![p] = WithChildren(p, t)]
           marked == Mark(p, dirty)
<1>1. ~ syncing /\ UNCHANGED <<value, modified, todo, syncing, frame>> BY DEF Ui
<1>2. p \in Nodes /\ Root \in Alive BY DEF Alive, Sound, HeldIsAlive
<1>3. WithChildren(p, t) \in Data /\ WithChildren(p, t).children = t BY <1>2, WithChildrenType
<1>4. p \in marked /\ dirty \subseteq marked /\ marked \in SUBSET Nodes
  BY <1>1, <1>2, Marked, DirtyType
<1> HIDE DEF marked
<1>5. Good(cop, marked)
  <2> DEFINE d == WithChildren(p, t)
  <2>1. d \in Data /\ Elements(d.children) \subseteq Alive BY <1>3
  <2>2. Good(copy, marked) BY <1>1, <1>4, StartMarked
  <2> HIDE DEF d
  <2>3. Good([copy EXCEPT ![p] = d], marked) BY <1>4, <2>1, <2>2, GoodUpdate
  <2> QED BY <2>3 DEF d
<1>6. Settle(data, cop, marked, None) BY DEF marked
<1>7. \A n \in Nodes \ marked : SameShape(n, cop) BY <1>4 DEF Sound, TypeOK, SameShape, View
<1> HIDE DEF cop
<1>8. PICK D \in SUBSET Nodes : Rewrites(data, cop, D) /\ Closed(data, cop, D) /\ dirty' = marked
  BY <1>5, <1>6, GoodSteady, SettledUnowned
<1>9. modified' \in [Props -> Values \cup {None}] BY <1>1 DEF Sound, TypeOK
<1> QED BY <1>1, <1>4, <1>5, <1>8, <1>9, <1>7, UiRewrite

LEMMA RemoveChildStep ==
  ASSUME Sound, Fresh, Unowned, NEW c \in Nodes, RemoveChild(c)
  PROVE  Fresh'
<1> DEFINE p == View(c).parent
           s == View(p).children
           t == Erase(s, IndexOf(s, c))
<1>1. p \in Nodes /\ p \in Alive BY ViewType DEF RemoveChild, Alive
<1>2. s \in Seq(Nodes) /\ Elements(s) \subseteq Alive BY <1>1, ViewType
<1>3. c \in Elements(s) BY DEF RemoveChild
<1>4. t \in Seq(Nodes) /\ Elements(t) \subseteq Alive BY <1>2, <1>3, EraseElements
<1>5. Ui /\ Settle(data, [copy EXCEPT ![p] = WithChildren(p, t)], Mark(p, dirty), None)
  BY DEF RemoveChild
<1> HIDE DEF p, t
<1> QED BY <1>1, <1>4, <1>5, Unchilded

LEMMA ClearChildrenStep ==
  ASSUME Sound, Fresh, Unowned, NEW p \in Nodes, ClearChildren(p)
  PROVE  Fresh'
<1>1. <<>> \in Seq(Nodes) /\ Elements(<<>>) \subseteq Alive BY EmptySeq DEF Elements
<1>2. p \in Alive BY DEF ClearChildren, Alive
<1> QED BY <1>1, <1>2, Unchilded DEF ClearChildren

LEMMA RestackStep ==
  ASSUME Sound, Fresh, NEW c \in Nodes, Stackable(c), NEW t \in Seq(Nodes),
         Elements(t) \subseteq Elements(Siblings(c)), Restack(c, t)
  PROVE  Fresh'
<1> DEFINE p == View(c).parent
           d == WithChildren(p, t)
           cop == [copy EXCEPT ![p] = d]
           marked == Mark(p, dirty)
<1>1. p \in Nodes /\ p \in Alive BY ViewType DEF Stackable, Alive
<1>2. ~ syncing /\ UNCHANGED <<state, data, value, modified, todo, syncing, frame>>
  BY DEF Restack, Ui
<1>3. copy' = cop /\ dirty' = marked BY DEF Restack
<1>4. Elements(t) \subseteq Alive BY <1>1, ViewType DEF Siblings
<1>5. d \in Data /\ Elements(d.children) \subseteq Alive BY <1>1, <1>4, WithChildrenType
<1> HIDE DEF d
<1>6. p \in marked /\ dirty \subseteq marked /\ marked \in SUBSET Nodes
  BY <1>1, <1>2, Marked, DirtyType
<1> HIDE DEF p, marked
<1>7. Good(copy, marked) BY <1>2, <1>6, StartMarked
<1>8. Good(cop, marked) BY <1>1, <1>5, <1>6, <1>7, GoodUpdate
<1>9. \A n \in Nodes \ marked : SameShape(n, cop) BY <1>6 DEF Sound, TypeOK, SameShape, View
<1>10. modified' \in [Props -> Values \cup {None}] BY <1>2 DEF Sound, TypeOK
<1> HIDE DEF cop
<1> QED BY <1>2, <1>3, <1>6, <1>8, <1>9, <1>10, UiChange

LEMMA StackStep ==
  ASSUME Sound, Fresh, NEW c \in Nodes,
         StackFrontOf(c) \/ StackBackOf(c) \/ \E d \in Nodes : StackNextTo(c, d)
  PROVE  Fresh'
<1>1. PICK t \in Seq(Nodes) : Stackable(c) /\ Moves(Nodes, Siblings(c), t, c) /\ Restack(c, t)
  BY Stackings
<1> QED BY <1>1, RestackStep DEF Moves

LEMMA SetFlagStep ==
  ASSUME Sound, Fresh, NEW n \in Nodes, SetFlag(n)
  PROVE  Fresh'
<1>1. PICK b \in BOOLEAN : copy' = [copy EXCEPT ![n] = [View(n) EXCEPT !.flag = b, !.dirty = TRUE]]
  BY DEF SetFlag
<1> DEFINE d == [View(n) EXCEPT !.flag = b, !.dirty = TRUE]
           cop == [copy EXCEPT ![n] = d]
           marked == Mark(n, dirty)
<1>2. n \in Alive BY DEF SetFlag, Alive
<1>3. ~ syncing /\ UNCHANGED <<state, data, value, modified, todo, syncing, frame>>
  BY DEF SetFlag, Ui
<1>4. copy' = cop /\ dirty' = marked BY <1>1 DEF SetFlag
<1>5. View(n) \in Data /\ Elements(View(n).children) \subseteq Alive BY <1>2, ViewType
<1>6. d \in Data /\ d.children = View(n).children BY <1>5 DEF Data
<1> HIDE DEF d
<1>7. n \in marked /\ dirty \subseteq marked /\ marked \in SUBSET Nodes
  BY <1>3, Marked, DirtyType
<1> HIDE DEF marked
<1>8. Good(copy, marked) BY <1>3, <1>7, StartMarked
<1>9. Good(cop, marked) BY <1>2, <1>5, <1>6, <1>7, <1>8, GoodUpdate
<1>10. \A m \in Nodes \ marked : SameShape(m, cop) BY <1>7 DEF Sound, TypeOK, SameShape, View
<1>11. modified' \in [Props -> Values \cup {None}] BY <1>3 DEF Sound, TypeOK
<1> HIDE DEF cop
<1> QED BY <1>3, <1>4, <1>7, <1>9, <1>10, <1>11, UiChange

LEMMA SetPropertyStep ==
  ASSUME Sound, Fresh, NEW p \in Props, NEW v \in Values, SetProperty(p, v)
  PROVE  Fresh'
<1> DEFINE n == NodeOf[p]
<1>1. n \in Nodes BY PropsAssumption
<1>2. n \in Alive BY <1>1 DEF SetProperty, Alive
<1>3. ~ syncing /\ UNCHANGED <<state, data, value, todo, syncing, frame>> BY DEF SetProperty
<1>4. modified' = [modified EXCEPT ![p] = v] BY DEF SetProperty
<1>5. /\ modified' \in [Props -> Values \cup {None}]
      /\ \A q \in Props : q # p => modified'[q] = modified[q]
  BY <1>4 DEF Sound, TypeOK
<1>6. CASE p \in VisibleProps
  <2> DEFINE d == [View(n) EXCEPT !.dirty = TRUE]
             cop == [copy EXCEPT ![n] = d]
             marked == Mark(n, dirty)
  <2>1. copy' = cop /\ dirty' = marked BY <1>6 DEF SetProperty
  <2>2. View(n) \in Data /\ Elements(View(n).children) \subseteq Alive BY <1>1, <1>2, ViewType
  <2>3. d \in Data /\ d.children = View(n).children BY <2>2 DEF Data
  <2> HIDE DEF d
  <2>4. n \in marked /\ dirty \subseteq marked /\ marked \in SUBSET Nodes
    BY <1>1, <1>3, Marked, DirtyType
  <2> HIDE DEF marked
  <2>5. Good(copy, marked) BY <1>3, <2>4, StartMarked
  <2>6. Good(cop, marked) BY <1>2, <2>2, <2>3, <2>4, <2>5, GoodUpdate
  <2>7. \A m \in Nodes \ marked : SameShape(m, cop) BY <2>4 DEF Sound, TypeOK, SameShape, View
  <2>8. \A q \in VisibleProps : modified'[q] # modified[q] => NodeOf[q] \in marked
    BY <1>5, <2>4, PropsAssumption
  <2> HIDE DEF cop
  <2> QED BY <1>3, <1>5, <2>1, <2>4, <2>6, <2>7, <2>8, UiChange
<1>7. CASE p \notin VisibleProps
  <2>1. copy' = copy /\ dirty' = dirty BY <1>7 DEF SetProperty
  <2>2. Good(copy, dirty) BY <1>3, StartMarked
  <2>3. \A q \in VisibleProps : modified'[q] = modified[q] BY <1>5, <1>7, PropsAssumption
  <2>4. dirty \in SUBSET Nodes BY DirtyType
  <2>5. \A m \in Nodes : SameShape(m, copy) BY DEF SameShape, View
  <2> QED BY <1>3, <1>5, <2>1, <2>2, <2>3, <2>4, <2>5, UiChange
<1> QED BY <1>6, <1>7

\* A Node that moves keeps its children and flags, and nobody else changes but
\* the two parents.
LEMMA ReparentShape ==
  ASSUME Sound, Fresh, NEW c \in Nodes, NEW p \in Nodes, NEW q \in Nodes, c \in Movable, p # q,
         NEW marked, q \in marked,
         c \in Elements(View(p).children) => p \in marked
  PROVE  \A n \in Nodes \ marked : SameShape(n, Reparent(c, p, q))
<1> DEFINE added == [copy EXCEPT ![q] = WithChildren(q, Append(View(q).children, c))]
           removed == IF c \in Elements(View(p).children)
                      THEN [added EXCEPT ![p] = WithChildren(p, Erase(View(p).children,
                                                                IndexOf(View(p).children, c)))]
                      ELSE added
           moved == IF removed[c] = None THEN data[c] ELSE removed[c]
           new == [removed EXCEPT ![c] = [moved EXCEPT !.parent = q]]
<1> SUFFICES ASSUME NEW n \in Nodes \ marked PROVE SameShape(n, new)
  BY DEF Reparent
<1>1. copy \in [Nodes -> Data \cup {None}] /\ data \in [Nodes -> Data] BY DEF Sound, TypeOK
<1>2. DOMAIN added = Nodes /\ added[n] = copy[n] BY <1>1
<1> HIDE DEF added
<1>3. DOMAIN removed = Nodes /\ removed[n] = copy[n] BY <1>2
<1> HIDE DEF removed
<1>4. CASE n # c
  <2>1. new[n] = copy[n] BY <1>3, <1>4
  <2> QED BY <2>1 DEF SameShape, View
<1>5. CASE n = c
  <2>1. moved = View(n) BY <1>3, <1>5 DEF View
  <2>2. View(n) \in Data BY ViewType
  <2>3. new[n] = [View(n) EXCEPT !.parent = q] BY <1>3, <1>5, <2>1
  <2>4. /\ new[n] \in Data /\ new[n].children = View(n).children
        /\ new[n].flag = View(n).flag
    BY <2>2, <2>3 DEF Data
  <2>5. new[n] # None BY <2>4, NoneAssumption
  <2> HIDE DEF new
  <2> QED BY <1>5, <2>4, <2>5 DEF SameShape, Shape
<1> QED BY <1>4, <1>5

LEMMA SetParentStep ==
  ASSUME Sound, Fresh, Unowned, NEW c \in Nodes, NEW q \in Nodes, SetParent(c, q)
  PROVE  Fresh'
<1> DEFINE p == View(c).parent
           cop == Reparent(c, p, q)
           marked == IF c \in Elements(View(p).children) THEN Mark(p, Mark(q, dirty))
                     ELSE Mark(q, dirty)
<1>1. p \in Nodes /\ p # q /\ p \in Alive /\ q \in Alive /\ c \in Alive /\ c \in Movable
  BY ViewType DEF SetParent, Alive
<1>2. ~ syncing /\ UNCHANGED <<value, modified, todo, syncing, frame>> BY DEF SetParent, Ui
<1>3. Settle(data, cop, marked, None) BY DEF SetParent
<1>4. q \in Mark(q, dirty) /\ dirty \subseteq Mark(q, dirty) /\ Mark(q, dirty) \in SUBSET Nodes
  BY <1>2, Marked, DirtyType
<1>5. /\ p \in Mark(p, Mark(q, dirty)) /\ Mark(q, dirty) \subseteq Mark(p, Mark(q, dirty))
      /\ Mark(p, Mark(q, dirty)) \in SUBSET Nodes
  BY <1>1, <1>2, <1>4, Marked
<1>6. /\ q \in marked /\ dirty \subseteq marked /\ marked \in SUBSET Nodes
      /\ c \in Elements(View(p).children) => p \in marked
  BY <1>4, <1>5
<1> HIDE DEF p, marked
<1>7. Good(copy, marked) BY <1>2, <1>6, StartMarked
<1>8. c \in Elements(View(p).children) => p \in marked BY <1>6
<1>9. Good(cop, marked) BY <1>1, <1>6, <1>7, <1>8, GoodReparent
<1> HIDE DEF cop
<1>10. PICK D \in SUBSET Nodes : Rewrites(data, cop, D) /\ Closed(data, cop, D) /\ dirty' = marked
  BY <1>3, <1>9, GoodSteady, SettledUnowned
<1>11. modified' \in [Props -> Values \cup {None}] BY <1>2 DEF Sound, TypeOK
<1>12. \A n \in Nodes \ marked : SameShape(n, cop) BY <1>1, <1>6, <1>8, ReparentShape DEF cop
<1> QED BY <1>2, <1>6, <1>9, <1>10, <1>11, <1>12, UiRewrite

LEMMA CreateChildStep ==
  ASSUME Sound, Fresh, NEW p \in Nodes, NEW c \in Nodes, CreateChild(p, c)
  PROVE  Fresh'
<1> DEFINE d == WithChildren(p, Append(View(p).children, c))
           marked == Mark(p, dirty \cup {c})
<1>1. ~ syncing /\ UNCHANGED <<value, modified, todo, syncing, frame>> BY DEF CreateChild, Ui
<1>2. p \in Alive /\ c \notin Alive /\ p # c BY DEF CreateChild, Alive
<1>3. /\ state' = [state EXCEPT ![c] = "alive"]
      /\ data' = [data EXCEPT ![c].parent = p]
      /\ copy' = [copy EXCEPT ![p] = d]
      /\ dirty' = marked
  BY DEF CreateChild
<1>4. TypeOK /\ GoneIsBlank /\ HeldIsAlive BY DEF Sound
<1>5. /\ View(p).children \in Seq(Nodes)
      /\ Elements(View(p).children) \subseteq Alive
  BY <1>2, ViewType
<1>6. /\ Append(View(p).children, c) \in Seq(Nodes)
      /\ Elements(Append(View(p).children, c)) = Elements(View(p).children) \cup {c}
  BY <1>5, AppendElements
<1>7. d \in Data /\ Elements(d.children) \subseteq Alive \cup {c}
  BY <1>5, <1>6, WithChildrenType
<1> HIDE DEF d
<1>8. p \in marked /\ c \in marked /\ dirty \subseteq marked /\ marked \in SUBSET Nodes
  BY <1>1, Marked, DirtyType
<1> HIDE DEF marked
<1>9. /\ \A n \in Nodes \ {c} : data'[n] = data[n] /\ state'[n] = state[n]
      /\ data'[c] \in Data /\ data'[c].children = data[c].children
      /\ data'[c].dirty = data[c].dirty /\ state'[c] = "alive"
  BY <1>3, <1>4 DEF TypeOK, Data
<1>10. copy'[p] = d /\ \A n \in Nodes \ {p} : copy'[n] = copy[n] BY <1>3, <1>4 DEF TypeOK
<1>11. FlagsArePending'
  <2> SUFFICES ASSUME NEW n \in Nodes, IsDirty(copy, n)' PROVE n \in marked
    BY <1>1, <1>3 DEF FlagsArePending, Pending
  <2>1. CASE n = p \/ n = c BY <2>1, <1>8
  <2>2. CASE n # p /\ n # c
    <3>1. IsDirty(copy, n) BY <2>2, <1>9, <1>10 DEF IsDirty
    <3> QED BY <3>1, <1>1, <1>8 DEF Fresh, FlagsArePending, Pending
  <2> QED BY <2>1, <2>2
<1>12. Alive' = Alive \cup {c} BY <1>9, <1>2 DEF Alive
<1>13. OthersAgree'
  <2> SUFFICES ASSUME NEW n \in Nodes \ marked PROVE Agrees(n)'
    BY <1>1, <1>3 DEF OthersAgree, Pending
  <2>1. n # p /\ n # c /\ n \notin dirty BY <1>8
  <2>2. Agrees(n) BY <2>1, <1>1 DEF Fresh, OthersAgree, Pending
  <2>3. View(n)' = View(n) BY <2>1, <1>9, <1>10 DEF View
  <2>4. \A q \in VisibleProps : Current(q)' = Current(q) BY <1>1 DEF Current
  <2> QED BY <2>1, <2>2, <2>3, <2>4, <1>1, <1>9 DEF Agrees
<1> QED BY <1>11, <1>13 DEF Fresh

-----------------------------------------------------------------------------
(* synchronize and the frames *)

\* Moving the values back changes nothing for the ui thread.
LEMMA ClearedProperties ==
  ASSUME TypeOK, NEW n \in Nodes, ClearModifiedProperties(n)
  PROVE  /\ value' \in [Props -> Values] /\ modified' \in [Props -> Values \cup {None}]
         /\ \A p \in Props : Current(p)' = Current(p)
         /\ \A p \in Props : IF NodeOf[p] = n THEN value'[p] = Current(p)' ELSE value'[p] = value[p]
<1>1. value' = [p \in Props |-> IF NodeOf[p] = n THEN Current(p) ELSE value[p]]
  BY DEF ClearModifiedProperties
<1>2. modified' = [p \in Props |-> IF NodeOf[p] = n THEN None ELSE modified[p]]
  BY DEF ClearModifiedProperties
<1>3. \A p \in Props : Current(p) \in Values BY DEF TypeOK, Current
<1>4. value' \in [Props -> Values] BY <1>1, <1>3 DEF TypeOK
<1>5. modified' \in [Props -> Values \cup {None}] BY <1>2 DEF TypeOK
<1>6. ASSUME NEW p \in Props
      PROVE  /\ Current(p)' = Current(p)
             /\ IF NodeOf[p] = n THEN value'[p] = Current(p)' ELSE value'[p] = value[p]
  <2>1. CASE NodeOf[p] = n
    <3>1. value'[p] = Current(p) /\ modified'[p] = None BY <1>1, <1>2, <2>1
    <3> QED BY <2>1, <3>1 DEF Current
  <2>2. CASE NodeOf[p] # n
    <3>1. value'[p] = value[p] /\ modified'[p] = modified[p] BY <1>1, <1>2, <2>2
    <3> QED BY <2>2, <3>1 DEF Current
  <2> QED BY <2>1, <2>2
<1> QED BY <1>4, <1>5, <1>6

\* The Data of a dirty Node are moved back.
LEMMA ClearStep ==
  ASSUME Sound, Fresh, Unowned, syncing, NEW n \in todo, state[n] = "alive", ClearModifiedData(n),
         UNCHANGED <<syncing, frame>>
  PROVE  Fresh' /\ UiGraph' = UiGraph
<1> DEFINE d == Clean(View(n))
           dat == [data EXCEPT ![n] = View(n)]
           cop == [copy EXCEPT ![n] = d]
<1>1. TypeOK /\ GoneIsBlank /\ HeldIsAlive BY DEF Sound
<1>2. n \in Nodes /\ n \in Alive /\ todo \subseteq dirty /\ dirty \subseteq Nodes /\ ~ frame
  BY <1>1 DEF TypeOK, Alive
<1>3. View(n) \in Data /\ Elements(View(n).children) \subseteq Alive BY <1>2, ViewType
<1>4. /\ d \in Data /\ ~ d.dirty /\ d.children = View(n).children
      /\ Shape(n, d) = Shape(n, View(n)) /\ d # None
  BY <1>2, CleanView
<1> HIDE DEF d
<1>5. dat \in [Nodes -> Data] /\ cop \in [Nodes -> Data \cup {None}]
  BY <1>1, <1>3, <1>4 DEF TypeOK
<1>6. /\ dat[n] = View(n) /\ cop[n] = d
      /\ \A m \in Nodes \ {n} : dat[m] = data[m] /\ cop[m] = copy[m]
  BY <1>1, <1>2 DEF TypeOK
<1>7. Settle(dat, cop, dirty, n) /\ ClearModifiedProperties(n)
  BY DEF ClearModifiedData, d
<1>8. PICK seen \in SUBSET (dirty' \ dirty) : todo' = (todo \ {n}) \cup seen
  BY DEF ClearModifiedData
<1> HIDE DEF dat, cop
<1>9. PICK D \in SUBSET Nodes : Rewrites(dat, cop, D) /\ Closed(dat, cop, D) /\ dirty' = dirty
  <2>1. Steady(dat, cop) BY <1>2, ClearSteady DEF dat, cop, d
  <2> QED BY <2>1, <1>7, SettledUnowned
<1>10. todo' = todo \ {n} /\ syncing' = TRUE /\ frame' = frame BY <1>8, <1>9, <1>1 DEF TypeOK
<1>11. /\ value' \in [Props -> Values] /\ modified' \in [Props -> Values \cup {None}]
       /\ \A p \in Props : Current(p)' = Current(p)
       /\ \A p \in Props : IF NodeOf[p] = n THEN value'[p] = Current(p)' ELSE value'[p] = value[p]
  BY <1>1, <1>2, <1>7, ClearedProperties
<1>12. HeldIsAlive' /\ Alive' = Alive \ D
  <2>1. Root \in Alive BY <1>1 DEF HeldIsAlive
  <2> QED BY <1>9, <2>1, RewriteHeld
<1>13. FlagsArePending'
  <2> SUFFICES ASSUME NEW m \in Nodes, IsDirty(copy, m)' PROVE m \in todo \ {n}
    BY <1>10 DEF FlagsArePending, Pending
  <2>1. CASE m \in D
    <3>1. copy'[m] = None /\ data'[m] = Blank BY <2>1, <1>9 DEF Rewrites
    <3> QED BY <3>1, BlankType DEF IsDirty
  <2>2. CASE m \notin D
    <3>1. copy'[m] = cop[m] /\ data'[m] = dat[m] BY <2>2, <1>9 DEF Rewrites
    <3>2. m # n BY <3>1, <1>4, <1>6 DEF IsDirty
    <3>3. IsDirty(copy, m) BY <3>1, <3>2, <1>6 DEF IsDirty
    <3> QED BY <3>2, <3>3 DEF Fresh, FlagsArePending, Pending
  <2> QED BY <2>1, <2>2
<1>14. OthersAgree'
  <2> SUFFICES ASSUME NEW m \in Nodes \ (todo \ {n}) PROVE Agrees(m)'
    BY <1>10 DEF OthersAgree, Pending
  <2>1. CASE m \in D
    <3>1. copy'[m] = None /\ data'[m] = Blank /\ state'[m] = "dead"
      BY <2>1, <1>9 DEF Rewrites
    <3> QED BY <3>1 DEF Agrees, View
  <2>2. CASE m = n /\ m \notin D
    <3>1. copy'[n] = d /\ data'[n] = View(n) BY <2>2, <1>6, <1>9 DEF Rewrites
    <3>2. Shape(n, View(n))' = Shape(n, data[n])' BY <3>1, <1>4 DEF View
    <3>3. \A p \in VisibleProps : NodeOf[p] = n => value'[p] = Current(p)'
      BY <1>11, PropsAssumption
    <3> QED BY <2>2, <3>2, <3>3 DEF Agrees
  <2>3. CASE m # n /\ m \notin D
    <3>1. copy'[m] = copy[m] /\ data'[m] = data[m] /\ state'[m] = state[m]
      BY <2>3, <1>6, <1>9 DEF Rewrites
    <3>2. Agrees(m) BY <2>3 DEF Fresh, OthersAgree, Pending
    <3>3. View(m)' = View(m) BY <3>1 DEF View
    <3>4. \A p \in VisibleProps : NodeOf[p] = m => value'[p] = value[p] /\ Current(p)' = Current(p)
      BY <2>3, <1>11, PropsAssumption
    <3> QED BY <3>1, <3>2, <3>3, <3>4 DEF Agrees
  <2> QED BY <2>1, <2>2, <2>3
<1>15. UiGraph' = UiGraph
  <2> DEFINE S == Alive \ D
             K == [m \in Nodes |-> Elements(View(m).children)]
             L == [m \in Nodes |-> Elements(View(m)'.children)]
  <2>1. S \in SUBSET Nodes /\ Root \in S
    BY <1>1, <1>9 DEF Closed, Alive, HeldIsAlive
  <2>2. ASSUME NEW m \in S
        PROVE  /\ Shape(m, View(m)') = Shape(m, View(m)) /\ View(m)'.children = View(m).children
               /\ Elements(View(m).children) \subseteq S
    <3>0. m \in Nodes /\ m \in Alive BY <2>1
    <3>1. copy'[m] = cop[m] /\ data'[m] = dat[m] BY <3>0, <1>9 DEF Rewrites
    <3>2. CASE m = n
      <4>1. View(m)' = d BY <3>1, <3>2, <1>4, <1>6 DEF View
      <4>2. Elements(View(m).children) \subseteq Held(dat, cop, m) BY <3>2, <1>6, SeenIsHeld
      <4> QED BY <3>2, <4>1, <4>2, <1>4, <1>9 DEF Closed
    <3>3. CASE m # n
      <4>1. View(m)' = View(m) BY <3>0, <3>1, <3>3, <1>6 DEF View
      <4>2. Elements(View(m).children) \subseteq Held(dat, cop, m)
        BY <3>0, <3>3, <1>6, SeenIsHeld DEF View
      <4> QED BY <4>1, <4>2, <1>9 DEF Closed
    <3> QED BY <3>2, <3>3
  <2>3. \A m \in S : K[m] = L[m] /\ K[m] \subseteq S BY <2>1, <2>2
  <2>4. UiTree = Tree(K) /\ UiTree' = Tree(L) BY DEF UiTree
  <2>5. Alive' = S BY <1>12
  <2>6. S \subseteq Alive OBVIOUS
  <2> HIDE DEF S, K, L
  <2>7. UiTree' = UiTree /\ UiTree \subseteq S BY <2>1, <2>3, <2>4, SameTree
  <2>8. [m \in UiTree |-> Shape(m, View(m))]' = [m \in UiTree |-> Shape(m, View(m))]
    BY <2>2, <2>7
  <2> DEFINE Q == {q \in VisibleProps : NodeOf[q] \in UiTree \cap Alive}
  <2>9. Q' = Q BY <2>5, <2>6, <2>7
  <2>10. \A p \in Q : Current(p)' = Current(p) BY <1>11, PropsAssumption
  <2>11. [p \in Q |-> Current(p)]' = [p \in Q |-> Current(p)] BY <2>9, <2>10
  <2> QED BY <2>8, <2>11 DEF UiGraph
<1> QED BY <1>13, <1>14, <1>15 DEF Fresh

LEMMA SyncBeginStep ==
  ASSUME Sound, Fresh, SyncBegin
  PROVE  Fresh' /\ UiGraph' = UiGraph
<1> USE DEF SyncBegin
<1>1. FlagsArePending' BY DEF Sound, TypeOK, Fresh, FlagsArePending, Pending, IsDirty
<1>2. OthersAgree' BY DEF Fresh, OthersAgree, Pending, Agrees, View, Current
<1>3. UiGraph' = UiGraph BY DEF UiGraph, UiTree, View, Current, Alive
<1> QED BY <1>1, <1>2, <1>3 DEF Fresh

\* The handle of a Node that is gone is skipped.
LEMMA SkipStep ==
  ASSUME Sound, Fresh, syncing, NEW n \in todo, state[n] # "alive", todo' = todo \ {n},
         UNCHANGED <<state, data, copy, value, modified, dirty, syncing, frame>>
  PROVE  Fresh' /\ UiGraph' = UiGraph
<1>0. n \in Nodes /\ TypeOK /\ GoneIsBlank BY DEF Sound, TypeOK
<1>1. FlagsArePending'
  <2>1. ~ IsDirty(copy, n) BY <1>0 DEF GoneIsBlank, IsDirty
  <2> QED BY <2>1 DEF Fresh, FlagsArePending, Pending, IsDirty
<1>2. OthersAgree'
  <2>1. Agrees(n) BY <1>0 DEF GoneIsBlank, Agrees, View
  <2> QED BY <2>1 DEF Fresh, OthersAgree, Pending, Agrees, View, Current
<1>3. UiGraph' = UiGraph BY DEF UiGraph, UiTree, View, Current, Alive
<1> QED BY <1>1, <1>2, <1>3 DEF Fresh

LEMMA SyncNodeStep ==
  ASSUME Sound, Fresh, Unowned, NEW n \in Nodes, SyncNode(n)
  PROVE  Fresh' /\ UiGraph' = UiGraph /\ syncing /\ syncing' /\ frame' = frame
<1>1. syncing /\ n \in todo /\ UNCHANGED <<syncing, frame>> BY DEF SyncNode
<1>2. CASE state[n] = "alive" /\ ClearModifiedData(n) BY <1>1, <1>2, ClearStep
<1>3. CASE /\ state[n] # "alive"
           /\ todo' = todo \ {n}
           /\ UNCHANGED <<state, data, copy, value, modified, dirty>>
  BY <1>1, <1>3, SkipStep
<1> QED BY <1>1, <1>2, <1>3 DEF SyncNode

LEMMA SyncEndStep ==
  ASSUME Sound, Fresh, SyncEnd
  PROVE  Fresh' /\ UiGraph' = UiGraph /\ RenderGraph' = UiGraph
<1> USE DEF SyncEnd
<1>1. FlagsArePending' BY DEF Fresh, FlagsArePending, Pending, IsDirty
<1>2. OthersAgree' BY DEF Fresh, OthersAgree, Pending, Agrees, View, Current
<1>3. UiGraph' = UiGraph BY DEF UiGraph, UiTree, View, Current, Alive
<1>4. RenderGraph' = RenderGraph BY DEF RenderGraph, RenderTree, Alive
<1>5. RenderGraph = UiGraph
  <2>1. \A n \in Nodes : Agrees(n) BY DEF Fresh, OthersAgree, Pending
  <2> QED BY <2>1, AgreeEverywhere DEF Sound
<1> QED BY <1>1, <1>2, <1>3, <1>4, <1>5 DEF Fresh

\* Frames, and steps that change nothing.
LEMMA FrameStep ==
  ASSUME Sound, Fresh, BeginFrame \/ EndFrame \/ UNCHANGED vars
  PROVE  Fresh' /\ UiGraph' = UiGraph /\ RenderGraph' = RenderGraph /\ syncing' = syncing
<1>0. UNCHANGED <<state, data, copy, value, modified, dirty, todo, syncing>>
  BY DEF BeginFrame, EndFrame, vars
<1>1. FlagsArePending' BY <1>0 DEF Fresh, FlagsArePending, Pending, IsDirty
<1>2. OthersAgree' BY <1>0 DEF Fresh, OthersAgree, Pending, Agrees, View, Current
<1>3. UiGraph' = UiGraph BY <1>0 DEF UiGraph, UiTree, View, Current, Alive
<1>4. RenderGraph' = RenderGraph BY <1>0 DEF RenderGraph, RenderTree, Alive
<1> QED BY <1>0, <1>1, <1>2, <1>3, <1>4 DEF Fresh

LEMMA ChangesStep ==
  ASSUME Sound, Fresh, Unowned, Changes
  PROVE  Fresh'
<1>1. CASE Hierarchy
  <2>1. PICK c \in Nodes \ {Root} :
          \/ RemoveChild(c) \/ StackFrontOf(c) \/ StackBackOf(c)
          \/ \E n \in Nodes : CreateChild(n, c) \/ SetParent(c, n) \/ StackNextTo(c, n)
    BY <1>1 DEF Hierarchy
  <2> QED BY <2>1, RemoveChildStep, StackStep, CreateChildStep, SetParentStep
<1>2. CASE \E n \in Nodes : ClearChildren(n) \/ SetFlag(n)
  BY <1>2, ClearChildrenStep, SetFlagStep
<1>3. CASE \E p \in Props, v \in Values : SetProperty(p, v)
  BY <1>3, SetPropertyStep
<1> QED BY <1>1, <1>2, <1>3 DEF Changes

-----------------------------------------------------------------------------
(* When nobody owns another's child: the theorems *)

LEMMA StepIInv ==
  ASSUME Unowned
  PROVE  IInv /\ [Next]_vars => IInv'
<1> SUFFICES ASSUME Sound, Fresh, [Next]_vars PROVE Fresh'
  BY StepSound DEF IInv
<1>1. CASE Changes BY <1>1, ChangesStep
<1>2. CASE SyncBegin BY <1>2, SyncBeginStep
<1>3. CASE \E n \in Nodes : SyncNode(n) BY <1>3, SyncNodeStep
<1>4. CASE SyncEnd BY <1>4, SyncEndStep
<1>5. CASE BeginFrame \/ EndFrame \/ UNCHANGED vars BY <1>5, FrameStep
<1> QED BY <1>1, <1>2, <1>3, <1>4, <1>5 DEF Next, Synchronize, Changes

\* The invariant holds in every reachable state, for every set of Nodes.
THEOREM Invariance == ASSUME Unowned PROVE Spec => []IInv
<1>1. IInv /\ [Next]_vars => IInv' BY StepIInv
<1> QED BY InitIInv, <1>1, PTL DEF Spec

\* A Node that carries the DIRTY flag is registered with the Graph.
THEOREM Registration == ASSUME Unowned PROVE Spec => []DirtyIsMarked
<1>1. IInv => DirtyIsMarked BY FlagsImplyMarked DEF IInv, Sound, Fresh
<1> QED BY <1>1, Invariance, PTL

\* When no Node is dirty, both threads see the same Graph.
THEOREM Agreeing == ASSUME Unowned PROVE Spec => []Agreement
<1>1. IInv => Agreement BY OthersImplyAgreement DEF IInv, Sound, Fresh
<1> QED BY <1>1, Invariance, PTL

-----------------------------------------------------------------------------
(* GraphSync implements Snapshot *)

LEMMA InitSnapshot == Init => Published!Init
<1> SUFFICES ASSUME Init PROVE Published!Init
  OBVIOUS
<1>1. RenderGraph = UiGraph BY InitSound, InitAgrees, AgreeEverywhere DEF Sound
<1> QED BY <1>1 DEF Init, Published!Init

LEMMA StepSnapshot ==
  ASSUME Unowned
  PROVE  IInv /\ [Next]_vars => [Published!Next]_(Published!vars)
<1> SUFFICES ASSUME Sound, Fresh, [Next]_vars PROVE [Published!Next]_(Published!vars)
  BY DEF IInv
<1> USE DEF Published!Next, Published!vars
<1>1. CASE Changes
  BY <1>1, ChangesAreUi, ChangesSound DEF Published!Change
<1>2. CASE SyncBegin
  <2>1. UiGraph' = UiGraph BY <1>2, SyncBeginStep
  <2> QED BY <1>2, <2>1 DEF SyncBegin, Published!Publish
<1>3. CASE \E n \in Nodes : SyncNode(n)
  BY <1>3, SyncNodeStep DEF Published!Change
<1>4. CASE SyncEnd
  BY <1>4, SyncEndStep DEF SyncEnd, Published!Change
<1>5. CASE BeginFrame
  <2>1. UiGraph' = UiGraph /\ RenderGraph' = RenderGraph /\ syncing' = syncing
    BY <1>5, FrameStep
  <2>2. ~ frame /\ frame' = TRUE BY <1>5 DEF BeginFrame
  <2>3. (IF syncing THEN UiGraph ELSE RenderGraph)' = IF syncing THEN UiGraph ELSE RenderGraph
    BY <2>1
  <2>4. Published!BeginFrame BY <2>1, <2>2, <2>3 DEF Published!BeginFrame
  <2> QED BY <2>4
<1>6. CASE EndFrame
  <2>1. UiGraph' = UiGraph /\ RenderGraph' = RenderGraph /\ syncing' = syncing
    BY <1>6, FrameStep
  <2>2. frame /\ frame' = FALSE BY <1>6 DEF EndFrame
  <2>3. (IF syncing THEN UiGraph ELSE RenderGraph)' = IF syncing THEN UiGraph ELSE RenderGraph
    BY <2>1
  <2>4. Published!EndFrame BY <2>1, <2>2, <2>3 DEF Published!EndFrame
  <2> QED BY <2>4
<1>7. CASE UNCHANGED vars
  BY <1>7, FrameStep DEF vars
<1> QED BY <1>1, <1>2, <1>3, <1>4, <1>5, <1>6, <1>7 DEF Next, Synchronize, Changes

\* The render thread only ever draws whole snapshots of the Graph of the ui
\* thread, none of which changes during a frame.
THEOREM Snapshots == ASSUME Unowned PROVE Spec => DrawsSnapshots
<1>1. IInv /\ [Next]_vars => [Published!Next]_(Published!vars) BY StepSnapshot
<1> QED BY InitSnapshot, <1>1, Invariance, PTL DEF Spec, DrawsSnapshots, Published!Spec

-----------------------------------------------------------------------------
(* The z-order of any number of siblings *)

\* Each sibling has one place.
Lined ==
  /\ order \in Seq(Stack) /\ Distinct(order) /\ Elements(order) = Stack
  /\ last[2] \in Stack /\ last[3] \in Stack

\* The last call has put its Node where it should.
Put ==
  LET x == last[2]
      y == last[3]
  IN /\ last[1] = "front" => IsInFront(order, x)
     /\ last[1] = "back" => IsInBack(order, x)
     /\ last[1] = "before" /\ x # y => Neighbours(order, y, x)
     /\ last[1] = "behind" /\ x # y => Neighbours(order, x, y)

LEMMA InitLined == StackInit => Lined /\ Put
<1> SUFFICES ASSUME StackInit PROVE Lined /\ Put
  OBVIOUS
<1>1. PICK x \in Stack : last = <<"none", x, x>> BY DEF StackInit
<1>2. PICK N \in Nat : N = Cardinality(Stack) BY StackAssumption, FS_CardinalityType
<1>3. order \in [1 .. N -> Stack] /\ \A i, j \in DOMAIN order : order[i] = order[j] => i = j
  BY <1>2 DEF StackInit, Orders
<1>4. order \in Seq(Stack) /\ Len(order) = N
  <2>1. order \in Seq(Stack) BY <1>3, SeqDef
  <2>2. DOMAIN order = 1 .. N /\ DOMAIN order = 1 .. Len(order) /\ Len(order) \in Nat
    BY <1>3, <2>1, LenProperties
  <2> QED BY <2>1, <2>2
<1>5. Distinct(order) BY <1>3, <1>4 DEF Distinct
<1>6. order \in Injection(1 .. N, Stack) BY <1>3 DEF Injection, IsInjective
<1>7. Cardinality(1 .. N) = N BY FS_Interval
<1>8. order \in Surjection(1 .. N, Stack)
  BY <1>2, <1>6, <1>7, StackAssumption, FS_Injection
<1>9. Elements(order) = Stack BY <1>3, <1>4, <1>8 DEF Surjection, Elements
<1>10. Lined BY <1>1, <1>4, <1>5, <1>9 DEF Lined
<1>11. Put BY <1>1 DEF Put
<1> QED BY <1>10, <1>11

\* What holds of the siblings after a call that moved x.
LEMMA MovedLined ==
  ASSUME Lined, NEW x \in Stack, NEW y \in Stack, last'[2] = x, last'[3] = y,
         order' = order \/ Moves(Stack, order, order', x)
  PROVE  Lined' /\ Without(order', {x}) = Without(order, {x})
<1>1. CASE order' = order BY <1>1 DEF Lined
<1>2. CASE Moves(Stack, order, order', x) BY <1>2 DEF Lined, Moves
<1> QED BY <1>1, <1>2

\* The siblings stay in line, the moved one is put where it should be, and the
\* others keep their order.
LEMMA StackingStep ==
  ASSUME Lined, StackNext
  PROVE  Lined' /\ Put' /\ Without(order', {last'[2]}) = Without(order, {last'[2]})
<1>1. order \in Seq(Stack) /\ Elements(order) = Stack /\ Len(order) \in Nat
  BY LenProperties DEF Lined
<1>2. ASSUME NEW x \in Stack, ToFront(x)
      PROVE  Lined' /\ Put' /\ Without(order', {last'[2]}) = Without(order, {last'[2]})
  <2>1. last' = <<"front", x, x>> BY <1>2 DEF ToFront
  <2>2. \/ order' = order /\ IsInFront(order, x)
        \/ order' = StackFront(order, x)
    BY <1>2 DEF ToFront
  <2>3. Moves(Stack, order, StackFront(order, x), x) BY <1>1, StackEndMoves
  <2>4. Lined' /\ Without(order', {x}) = Without(order, {x})
    BY <2>1, <2>2, <2>3, MovedLined
  <2>5. StackFront(order, x)[Len(order)] = x /\ Len(order) >= 1 BY <1>1, StackEndPlace
  <2>6. IsInFront(order', x)
    <3>1. CASE order' = StackFront(order, x)
      <4>1. Len(order') = Len(order) /\ order' \in Seq(Stack) BY <2>3, <3>1 DEF Moves
      <4>2. order' # <<>> BY <1>1, <2>5, <4>1
      <4> QED BY <2>5, <3>1, <4>1, <4>2 DEF IsInFront
    <3> QED BY <2>2, <3>1
  <2>7. Put' BY <2>1, <2>6 DEF Put
  <2> QED BY <2>1, <2>4, <2>7
<1>3. ASSUME NEW x \in Stack, ToBack(x)
      PROVE  Lined' /\ Put' /\ Without(order', {last'[2]}) = Without(order, {last'[2]})
  <2>1. last' = <<"back", x, x>> BY <1>3 DEF ToBack
  <2>2. \/ order' = order /\ IsInBack(order, x)
        \/ order' = StackBack(order, x)
    BY <1>3 DEF ToBack
  <2>3. Moves(Stack, order, StackBack(order, x), x) BY <1>1, StackEndMoves
  <2>4. Lined' /\ Without(order', {x}) = Without(order, {x})
    BY <2>1, <2>2, <2>3, MovedLined
  <2>5. StackBack(order, x)[1] = x /\ Len(order) >= 1 BY <1>1, StackEndPlace
  <2>6. IsInBack(order', x)
    <3>1. CASE order' = StackBack(order, x)
      <4>1. Len(order') = Len(order) /\ order' \in Seq(Stack) BY <2>3, <3>1 DEF Moves
      <4>2. order' # <<>> BY <1>1, <2>5, <4>1
      <4> QED BY <2>5, <3>1, <4>2 DEF IsInBack
    <3> QED BY <2>2, <3>1
  <2>7. Put' BY <2>1, <2>6 DEF Put
  <2> QED BY <2>1, <2>4, <2>7
<1>4. ASSUME NEW x \in Stack, NEW y \in Stack, Before(x, y)
      PROVE  Lined' /\ Put' /\ Without(order', {last'[2]}) = Without(order, {last'[2]})
  <2>1. last' = <<"before", x, y>> BY <1>4 DEF Before
  <2>2. order' = IF x = y THEN order ELSE StackBefore(order, x, y)
    BY <1>4 DEF Before
  <2>3. x # y => /\ Moves(Stack, order, StackBefore(order, x, y), x)
                 /\ Neighbours(StackBefore(order, x, y), y, x)
    BY <1>1, StackNextMoves, StackNextPlace
  <2>4. Lined' /\ Without(order', {x}) = Without(order, {x})
    BY <2>1, <2>2, <2>3, MovedLined
  <2>5. Put' BY <2>1, <2>2, <2>3 DEF Put
  <2> QED BY <2>1, <2>4, <2>5
<1>5. ASSUME NEW x \in Stack, NEW y \in Stack, Behind(x, y)
      PROVE  Lined' /\ Put' /\ Without(order', {last'[2]}) = Without(order, {last'[2]})
  <2>1. last' = <<"behind", x, y>> BY <1>5 DEF Behind
  <2>2. order' = IF x = y THEN order ELSE StackBehind(order, x, y)
    BY <1>5 DEF Behind
  <2>3. x # y => /\ Moves(Stack, order, StackBehind(order, x, y), x)
                 /\ Neighbours(StackBehind(order, x, y), x, y)
    BY <1>1, StackNextMoves, StackNextPlace
  <2>4. Lined' /\ Without(order', {x}) = Without(order, {x})
    BY <2>1, <2>2, <2>3, MovedLined
  <2>5. Put' BY <2>1, <2>2, <2>3 DEF Put
  <2> QED BY <2>1, <2>4, <2>5
<1> QED BY <1>2, <1>3, <1>4, <1>5 DEF StackNext

\* Where every Node is, in terms of the places.
LEMMA LinedImpliesPlaced == Lined /\ Put => Placed
<1> SUFFICES ASSUME Lined, Put PROVE Placed
  OBVIOUS
<1> DEFINE x == last[2]
           y == last[3]
<1>1. /\ order \in Seq(Stack) /\ Distinct(order) /\ Elements(order) = Stack
      /\ x \in Stack /\ y \in Stack /\ Len(order) \in Nat
  BY LenProperties DEF Lined
<1>2. Len(order) = Cardinality(Stack) BY <1>1, DistinctLength
<1>3. {order[i] : i \in 1 .. Len(order)} = Stack BY <1>1 DEF Elements
<1>4. last[1] = "front" => IndexOf(order, x) = Len(order)
  <2> SUFFICES ASSUME last[1] = "front" PROVE IndexOf(order, x) = Len(order)
    OBVIOUS
  <2>1. order[Len(order)] = x BY DEF Put, IsInFront
  <2>2. Len(order) \in 1 .. Len(order) BY <1>1, PlaceOf
  <2> QED BY <1>1, <2>1, <2>2, OnlyPlace
<1>5. last[1] = "back" => IndexOf(order, x) = 1
  <2> SUFFICES ASSUME last[1] = "back" PROVE IndexOf(order, x) = 1
    OBVIOUS
  <2>1. order[1] = x BY DEF Put, IsInBack
  <2>2. 1 \in 1 .. Len(order) BY <1>1, PlaceOf
  <2> QED BY <1>1, <2>1, <2>2, OnlyPlace
<1>6. last[1] = "before" /\ x # y =>
        IndexOf(order, x) = IndexOf(order, y) + 1 /\ IsBefore(order, x, y)
  <2> SUFFICES ASSUME last[1] = "before", x # y
               PROVE  IndexOf(order, x) = IndexOf(order, y) + 1 /\ IsBefore(order, x, y)
    OBVIOUS
  <2>1. Neighbours(order, y, x) BY DEF Put
  <2> HIDE DEF x, y
  <2> QED BY <1>1, <2>1, NextPlaces
<1>7. last[1] = "behind" /\ x # y =>
        IndexOf(order, x) = IndexOf(order, y) - 1 /\ IsBehind(order, x, y)
  <2> SUFFICES ASSUME last[1] = "behind", x # y
               PROVE  IndexOf(order, x) = IndexOf(order, y) - 1 /\ IsBehind(order, x, y)
    OBVIOUS
  <2>1. Neighbours(order, x, y) BY DEF Put
  <2> HIDE DEF x, y
  <2>2. IndexOf(order, y) = IndexOf(order, x) + 1 /\ IsBehind(order, x, y)
    BY <1>1, <2>1, NextPlaces
  <2>3. IndexOf(order, x) \in 1 .. Len(order) BY <1>1, PlaceOf
  <2> QED BY <1>1, <2>2, <2>3
<1> QED
  BY <1>2, <1>3, <1>4, <1>5, <1>6, <1>7 DEF Placed

LEMMA StackingInvariance == StackSpec => [](Lined /\ Put)
<1>1. Lined /\ Put /\ [StackNext]_stackVars => (Lined /\ Put)'
  <2> SUFFICES ASSUME Lined, Put, [StackNext]_stackVars PROVE (Lined /\ Put)'
    OBVIOUS
  <2>1. CASE StackNext BY <2>1, StackingStep
  <2>2. CASE UNCHANGED stackVars BY <2>2 DEF stackVars, Lined, Put
  <2> QED BY <2>1, <2>2
<1> QED BY InitLined, <1>1, PTL DEF StackSpec

\* However Nodes have been stacked, no sibling is lost or doubled and the last one
\* that was moved is where its function promises, next to the sibling it was named
\* with and on the right side of it.
THEOREM Stacked == StackSpec => []Placed
BY LinedImpliesPlaced, StackingInvariance, PTL

\* Moving a Node does not change the order of its siblings.
THEOREM Undisturbed == StackSpec => OthersKeepTheirOrder
<1>1. Lined /\ [StackNext]_stackVars
        => [Without(order', {last'[2]}) = Without(order, {last'[2]})]_stackVars
  BY StackingStep
<1> QED BY <1>1, StackingInvariance, PTL DEF StackSpec, OthersKeepTheirOrder
=============================================================================
