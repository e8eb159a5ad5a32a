-------------------------- MODULE Publisher_proofs --------------------------
(***************************************************************************)
(* The loops of a Publisher, for every number of Subscribers and every     *)
(* depth of nested calls: memory safety, who is called and how often, and  *)
(* what the end leaves behind.  All of it under the contract that a        *)
(* Subscriber does not end the Publisher that calls it, and neither        *)
(* publishes nor subscribes where Subscribers may expire.                  *)
(***************************************************************************)
EXTENDS Publisher, SequenceTheorems, TLAPS

Safe ==
  \A c \in Contracts : /\ c \cap {"complete", "error"} = {}
                       /\ "expire" \in c => c \cap {"publish", "subscribe"} = {}

\* Every loop that is running ends within the vector.
EndsInside == \A k \in DOMAIN stack : stack[k].end <= Len(list)

\* The vector is cleared by the outermost loop only.
FinishIsOutermost ==
  \A k \in DOMAIN stack : stack[k].op \in {"complete", "error"} => k = 1

\* Somebody is being added.
AddsSomebody == \A k \in DOMAIN stack : stack[k].op = "add" => stack[k].at # None

\* The vector becomes shorter in a nested loop only if somebody expires, and
\* then there are no nested loops.
ExpireOrNest == /\ "expire" \in contract => Len(stack) <= 1
                /\ "expire" \notin contract => owned = Subscribers

\* The inductive invariant.
IInv ==
  /\ TypeOK
  /\ EndsInside
  /\ FinishIsOutermost
  /\ AddsSomebody
  /\ ExpireOrNest

-----------------------------------------------------------------------------
(* Sequences *)

\* All but the last entry of a sequence, and its last.
LEMMA FrontFacts ==
  ASSUME NEW S, NEW s \in Seq(S), s # <<>>
  PROVE  /\ Front(s) \in Seq(S)
         /\ Len(s) \in Nat \ {0}
         /\ Len(Front(s)) = Len(s) - 1
         /\ \A k \in 1 .. (Len(s) - 1) : Front(s)[k] = s[k]
         /\ Last(s) = s[Len(s)]
         /\ Last(s) \in S
<1>1. Len(s) \in Nat \ {0}
  OBVIOUS
<1>2. Last(s) = s[Len(s)] /\ s[Len(s)] \in S
  BY <1>1 DEF Last
<1>3. \A k \in 1 .. (Len(s) - 1) : s[k] \in S
  BY <1>1
<1>4. /\ Front(s) \in Seq(S)
      /\ Len(Front(s)) = Len(s) - 1
      /\ \A k \in 1 .. (Len(s) - 1) : Front(s)[k] = s[k]
  <2> DEFINE n == Len(s) - 1
  <2>1. n \in Int /\ n >= 0 /\ \A k \in 1 .. n : s[k] \in S
    BY <1>1, <1>3
  <2>2. Front(s) = SubSeq(s, 1, n)
    BY DEF Front
  <2> HIDE DEF n
  <2>3. /\ SubSeq(s, 1, n) \in Seq(S)
        /\ Len(SubSeq(s, 1, n)) = IF 1 <= n THEN n - 1 + 1 ELSE 0
        /\ \A k \in 1 .. (n - 1 + 1) : SubSeq(s, 1, n)[k] = s[1 + k - 1]
    BY <2>1, SubSeqProperties
  <2>4. /\ Len(SubSeq(s, 1, n)) = n
        /\ \A k \in 1 .. n : SubSeq(s, 1, n)[k] = s[k]
    BY <2>1, <2>3
  <2> QED
    BY <2>2, <2>3, <2>4 DEF n
<1> QED
  BY <1>1, <1>2, <1>4

\* A sequence with its last entry replaced.
LEMMA ReplaceTop ==
  ASSUME NEW S, NEW s \in Seq(S), s # <<>>, NEW e \in S
  PROVE  /\ Append(Front(s), e) \in Seq(S)
         /\ Len(Append(Front(s), e)) = Len(s)
         /\ \A k \in 1 .. (Len(s) - 1) : Append(Front(s), e)[k] = s[k]
         /\ Append(Front(s), e)[Len(s)] = e
<1>1. /\ Front(s) \in Seq(S)
      /\ Len(s) \in Nat \ {0}
      /\ Len(Front(s)) = Len(s) - 1
      /\ \A k \in 1 .. (Len(s) - 1) : Front(s)[k] = s[k]
  BY FrontFacts
<1>2. Append(Front(s), e) \in Seq(S) /\ Len(Append(Front(s), e)) = Len(s)
  BY <1>1
<1>3. \A k \in 1 .. (Len(s) - 1) : Append(Front(s), e)[k] = Front(s)[k]
  BY <1>1
<1>4. Append(Front(s), e)[Len(s)] = e
  BY <1>1
<1> QED
  BY <1>1, <1>2, <1>3, <1>4

\* The topmost loop is a frame like the others.
LEMMA TopFacts ==
  ASSUME TypeOK, stack # <<>>
  PROVE  /\ Len(stack) \in Nat \ {0}
         /\ Len(stack) \in DOMAIN stack
         /\ Top = stack[Len(stack)]
         /\ Top \in Frames
<1>1. stack \in Seq(Frames)
  BY DEF TypeOK
<1>2. /\ Len(stack) \in Nat \ {0}
      /\ Last(stack) = stack[Len(stack)]
      /\ Last(stack) \in Frames
  BY <1>1, FrontFacts
<1> QED
  BY <1>1, <1>2 DEF Top

-----------------------------------------------------------------------------
(* Steps *)

\* Nothing is published before the first call.
LEMMA InitIInv == Init => IInv
BY DepthAssumption
   DEF Init, IInv, TypeOK, EndsInside, FinishIsOutermost, AddsSomebody, ExpireOrNest

\* A loop that begins: it is nested only where the contract allows it.
LEMMA EnterStep ==
  ASSUME IInv, NEW f \in Frames, Enter(f),
         UNCHANGED <<contract, list, state, owned>>,
         accepted' \in SUBSET Subscribers, told' \in SUBSET Subscribers,
         f.end <= Len(list),
         f.op = "add" => f.at # None,
         f.op \in {"complete", "error"} => stack = <<>>,
         "expire" \in contract => stack = <<>>
  PROVE  IInv'
<1>1. stack \in Seq(Frames) /\ Len(stack) \in Nat /\ MaxDepth \in Nat
  BY DepthAssumption DEF IInv, TypeOK
<1>2. /\ stack' \in Seq(Frames)
      /\ Len(stack') = Len(stack) + 1
      /\ Len(stack') <= MaxDepth
      /\ DOMAIN stack' = 1 .. (Len(stack) + 1)
      /\ \A k \in 1 .. Len(stack) : stack'[k] = stack[k]
      /\ stack'[Len(stack) + 1] = f
  BY <1>1 DEF Enter
<1>3. stack = <<>> => Len(stack) = 0
  OBVIOUS
<1>4. DOMAIN stack = 1 .. Len(stack)
  BY <1>1
<1>5. TypeOK'
  BY <1>2 DEF IInv, TypeOK
<1>6. EndsInside'
  BY <1>1, <1>2, <1>4 DEF IInv, EndsInside
<1>7. FinishIsOutermost'
  BY <1>1, <1>2, <1>3, <1>4 DEF IInv, FinishIsOutermost
<1>8. AddsSomebody'
  BY <1>1, <1>2, <1>4 DEF IInv, AddsSomebody
<1>9. ExpireOrNest'
  BY <1>2, <1>3 DEF IInv, ExpireOrNest
<1> QED
  BY <1>5, <1>6, <1>7, <1>8, <1>9 DEF IInv

\* A loop that goes on, in a vector that is as long as before or longer.
LEMMA GoOnStep ==
  ASSUME IInv, stack # <<>>, NEW f \in Frames, GoOn(f),
         f.end <= Len(list), f.op = Top.op, f.op = "add" => f.at # None,
         UNCHANGED <<contract, list, owned>>,
         state' \in {"RUNNING", "COMPLETED", "FAILED"},
         accepted' \in SUBSET Subscribers, told' \in SUBSET Subscribers
  PROVE  IInv'
<1>1. stack \in Seq(Frames) /\ Len(stack) \in Nat \ {0} /\ Top = stack[Len(stack)]
  BY TopFacts DEF IInv, TypeOK
<1>2. /\ stack' \in Seq(Frames)
      /\ Len(stack') = Len(stack)
      /\ DOMAIN stack' = 1 .. Len(stack)
      /\ DOMAIN stack = 1 .. Len(stack)
      /\ \A k \in 1 .. (Len(stack) - 1) : stack'[k] = stack[k]
      /\ stack'[Len(stack)] = f
  BY <1>1, ReplaceTop DEF GoOn
<1>3. \A k \in DOMAIN stack' : k = Len(stack) \/ k \in 1 .. (Len(stack) - 1)
  BY <1>1, <1>2
<1>4. TypeOK'
  BY <1>2 DEF IInv, TypeOK
<1>5. EndsInside' /\ FinishIsOutermost' /\ AddsSomebody'
  BY <1>1, <1>2, <1>3 DEF IInv, EndsInside, FinishIsOutermost, AddsSomebody
<1>6. ExpireOrNest'
  BY <1>2 DEF IInv, ExpireOrNest
<1> QED
  BY <1>4, <1>5, <1>6 DEF IInv

\* A loop that ends: the others are as they were, and the vector is not shorter
\* unless it was the only one.
LEMMA LeaveStep ==
  ASSUME IInv, stack # <<>>, Leave,
         list' \in Seq(Subscribers), Len(list') >= Len(list) \/ Len(stack) = 1,
         UNCHANGED <<contract, owned, state>>,
         accepted' \in SUBSET Subscribers, told' \in SUBSET Subscribers
  PROVE  IInv'
<1>1. /\ stack \in Seq(Frames) /\ Len(stack) \in Nat \ {0}
      /\ list \in Seq(Subscribers) /\ Len(list) \in Nat /\ Len(list') \in Nat
      /\ MaxDepth \in Nat
  BY TopFacts, DepthAssumption DEF IInv, TypeOK
<1>2. /\ stack' \in Seq(Frames)
      /\ Len(stack') = Len(stack) - 1
      /\ DOMAIN stack' = 1 .. (Len(stack) - 1)
      /\ \A k \in 1 .. (Len(stack) - 1) : k \in DOMAIN stack /\ stack'[k] = stack[k]
  <2>1. /\ Front(stack) \in Seq(Frames) /\ Len(Front(stack)) = Len(stack) - 1
        /\ \A k \in 1 .. (Len(stack) - 1) : Front(stack)[k] = stack[k]
    BY <1>1, FrontFacts
  <2>2. \A k \in 1 .. (Len(stack) - 1) : k \in DOMAIN stack
    BY <1>1
  <2>3. stack' = Front(stack) /\ DOMAIN Front(stack) = 1 .. (Len(stack) - 1)
    BY <1>1, <2>1 DEF Leave
  <2> QED
    BY <2>1, <2>2, <2>3
<1>3. TypeOK'
  BY <1>1, <1>2 DEF IInv, TypeOK
<1>4. EndsInside'
  <2>1. ASSUME NEW k \in 1 .. (Len(stack) - 1)
        PROVE  stack[k].end <= Len(list) /\ stack[k].end \in Nat
    <3>1. k \in DOMAIN stack /\ stack[k] \in Frames
      BY <1>1, <1>2
    <3> QED
      BY <3>1 DEF IInv, EndsInside, Frames
  <2>2. CASE Len(list') >= Len(list)
    <3>1. \A k \in 1 .. (Len(stack) - 1) : stack[k].end <= Len(list')
      BY <1>1, <2>1, <2>2
    <3> QED
      BY <1>2, <3>1 DEF EndsInside
  <2>3. CASE Len(stack) = 1
    BY <1>2, <2>3 DEF EndsInside
  <2> QED
    BY <2>2, <2>3
<1>5. FinishIsOutermost' /\ AddsSomebody'
  BY <1>2 DEF IInv, FinishIsOutermost, AddsSomebody
<1>6. ExpireOrNest'
  BY <1>1, <1>2 DEF IInv, ExpireOrNest
<1> QED
  BY <1>3, <1>4, <1>5, <1>6 DEF IInv

\* An expired entry is removed: there is no other loop.
LEMMA PruneStep ==
  ASSUME IInv, Prune
  PROVE  IInv'
<1>1. /\ stack \in Seq(Frames) /\ Len(stack) \in Nat \ {0}
      /\ Top = stack[Len(stack)] /\ Top \in Frames /\ stack # <<>>
      /\ Len(stack) \in DOMAIN stack
      /\ list \in Seq(Subscribers) /\ Len(list) \in Nat
  BY TopFacts DEF IInv, TypeOK, Prune, Looping
<1>2. Top.i \in 1 .. Len(list) /\ Top.end \in Nat \ {0} /\ Top.end <= Len(list)
  BY <1>1 DEF Prune, InLoop, IInv, EndsInside, Frames
<1>3. Entry \in Subscribers
  BY <1>1, <1>2 DEF Entry
<1>4. "expire" \in contract
  BY <1>3 DEF IInv, ExpireOrNest, Prune, Alive
<1>5. Len(stack) = 1
  <2>1. Len(stack) <= 1
    BY <1>4 DEF IInv, ExpireOrNest
  <2>2. Len(stack) \in Nat \ {0}
    BY <1>1
  <2>3. \A n \in Nat \ {0} : n <= 1 => n = 1
    OBVIOUS
  <2> QED
    BY <2>1, <2>2, <2>3, Zenon
<1>6. list' \in Seq(Subscribers) /\ Len(list') = Len(list) - 1
  <2>1. list # <<>> /\ Last(list) \in Subscribers
    BY <1>1, <1>2, FrontFacts
  <2>2. /\ ReplaceAt(list, Top.i, Last(list)) \in Seq(Subscribers)
        /\ Len(ReplaceAt(list, Top.i, Last(list))) = Len(list)
    BY <1>1, <1>2, <2>1, ExceptSeq DEF ReplaceAt
  <2>3. ReplaceAt(list, Top.i, Last(list)) # <<>>
    BY <1>2, <2>2
  <2> HIDE DEF ReplaceAt
  <2> QED
    BY <2>2, <2>3, FrontFacts DEF Prune
<1> DEFINE f == [Top EXCEPT !.end = @ - 1]
<1>7. f \in Frames /\ f.end <= Len(list') /\ f.op = Top.op /\ f.at = Top.at
  <2>1. Top.end - 1 \in Nat /\ Top.end - 1 <= Len(list')
    BY <1>1, <1>2, <1>6
  <2>2. f \in Frames /\ f.end = Top.end - 1 /\ f.op = Top.op /\ f.at = Top.at
    BY <1>1, <2>1 DEF Frames
  <2> QED
    BY <2>1, <2>2
<1>8. stack' = Append(Front(stack), f)
  BY DEF Prune, GoOn
<1> HIDE DEF f
<1>9. /\ stack' \in Seq(Frames)
      /\ Len(stack') = 1
      /\ DOMAIN stack' = {1}
      /\ stack'[1] = f
  BY <1>1, <1>5, <1>7, <1>8, ReplaceTop
<1>10. UNCHANGED <<contract, state, owned, accepted, told>>
  BY DEF Prune
<1>11. TypeOK'
  BY <1>5, <1>6, <1>9, <1>10 DEF IInv, TypeOK
<1>12. EndsInside' /\ FinishIsOutermost'
  BY <1>7, <1>9 DEF EndsInside, FinishIsOutermost
<1>13. AddsSomebody'
  BY <1>1, <1>7, <1>9 DEF IInv, AddsSomebody
<1>14. ExpireOrNest'
  BY <1>9, <1>10 DEF IInv, ExpireOrNest
<1> QED
  BY <1>11, <1>12, <1>13, <1>14 DEF IInv

\* Somebody calls the Publisher.
LEMMA CallerStep ==
  ASSUME Safe, IInv,
         Publish \/ Finish("complete") \/ Finish("error") \/ \E s \in Subscribers : Subscribe(s)
  PROVE  IInv'
<1>1. contract \in Contracts /\ list \in Seq(Subscribers) /\ Len(list) \in Nat
  BY DEF IInv, TypeOK
<1>2. \A op \in {"publish", "complete", "error", "add", "welcome"}, p \in {1, 2},
         at \in Subscribers \cup {None} : Frame(op, p, at) \in Frames
  BY <1>1 DEF Frame, Frames
<1>3. \A op, p, at : Frame(op, p, at).end = Len(list)
                     /\ Frame(op, p, at).op = op /\ Frame(op, p, at).at = at
  BY DEF Frame
<1>4. CASE Publish
  <2>1. "expire" \in contract => stack = <<>>
    BY <1>1, <1>4 DEF Publish, May, Safe
  <2> QED
    BY <1>1, <1>2, <1>3, <1>4, <2>1, EnterStep DEF Publish, IInv, TypeOK
<1>5. ASSUME NEW op \in {"complete", "error"}, Finish(op) PROVE IInv'
  <2>1. stack = <<>>
    BY <1>1, <1>5 DEF Finish, May, Safe
  <2> QED
    BY <1>1, <1>2, <1>3, <1>5, <2>1, EnterStep DEF Finish, IInv, TypeOK
<1>6. ASSUME NEW s \in Subscribers, Subscribe(s) PROVE IInv'
  <2>1. "expire" \in contract => stack = <<>>
    BY <1>1, <1>6 DEF Subscribe, May, Safe
  <2>2. s # None
    BY NoneAssumption
  <2>3. CASE state = "RUNNING"
    BY <1>1, <1>2, <1>3, <1>6, <2>1, <2>2, <2>3, EnterStep DEF Subscribe, IInv, TypeOK
  <2>4. CASE state # "RUNNING"
    <3> DEFINE f == [Frame("welcome", 2, s) EXCEPT !.end = 0]
    <3>1. f \in Frames /\ f.end = 0 /\ f.op = "welcome" /\ f.at = s
      <4>1. Frame("welcome", 2, s) \in Frames
        BY <1>2
      <4> QED
        BY <4>1, <1>3 DEF Frames
    <3>2. Enter(f) /\ UNCHANGED <<contract, list, state, owned>>
      BY <1>6, <2>4 DEF Subscribe
    <3>3. accepted' \in SUBSET Subscribers /\ told' \in SUBSET Subscribers
      BY <1>6, <2>4 DEF Subscribe, IInv, TypeOK
    <3> HIDE DEF f
    <3> QED
      BY <1>1, <2>1, <3>1, <3>2, <3>3, EnterStep
  <2> QED
    BY <2>3, <2>4
<1> QED
  BY <1>4, <1>5, <1>6

\* A Subscriber returns or throws, or somebody lets go of one.
LEMMA SubscriberStep ==
  ASSUME IInv, Return \/ Throw \/ \E s \in Subscribers : Expire(s)
  PROVE  IInv'
<1>1. CASE Return
  <2>1. /\ Top \in Frames /\ stack # <<>> /\ Top.at # None /\ Top.end <= Len(list)
        /\ Top.op # "add"
    BY <1>1, TopFacts DEF Return, Free, IInv, EndsInside
  <2> DEFINE f == [Top EXCEPT !.at = None, !.i = @ + 1, !.called = @ \cup {Top.at}]
  <2>2. f \in Frames /\ f.end = Top.end /\ f.op = Top.op
    <3>1. Top.called \cup {Top.at} \in SUBSET Subscribers /\ Top.i + 1 \in Nat \ {0}
      BY <2>1 DEF Frames
    <3> QED
      BY <2>1, <3>1 DEF Frames
  <2>3. GoOn(f) /\ UNCHANGED <<contract, list, state, owned, accepted, told>>
    BY <1>1 DEF Return
  <2> HIDE DEF f
  <2> QED
    BY <2>1, <2>2, <2>3, GoOnStep DEF IInv, TypeOK
<1>2. CASE Throw
  <2>1. list \in Seq(Subscribers) /\ Len(list) \in Nat
    BY DEF IInv, TypeOK
  <2> QED
    BY <1>2, <2>1, LeaveStep DEF Throw, IInv, TypeOK
<1>3. ASSUME NEW s \in Subscribers, Expire(s) PROVE IInv'
  BY <1>3 DEF Expire, IInv, TypeOK, EndsInside, FinishIsOutermost, AddsSomebody, ExpireOrNest
<1> QED
  BY <1>1, <1>2, <1>3

\* The topmost loop takes a step that removes nothing.
LEMMA LoopStep ==
  ASSUME IInv, Call \/ Compare \/ EndAdd \/ EndPublish \/ EndHandler \/ EndFinish
  PROVE  IInv'
<1>1. /\ stack # <<>> /\ Top \in Frames /\ Top = stack[Len(stack)]
      /\ Len(stack) \in DOMAIN stack
      /\ list \in Seq(Subscribers) /\ Len(list) \in Nat
      /\ Top.end <= Len(list)
  BY TopFacts DEF Call, Compare, EndAdd, EndPublish, EndHandler, EndFinish, Looping,
                  IInv, TypeOK, EndsInside
<1>2. CASE Call
  <2>1. Entry \in Subscribers
    BY <1>1, <1>2 DEF Call, Entry, Frames
  <2> DEFINE f == [Top EXCEPT !.at = Entry]
  <2>2. f \in Frames /\ f.end = Top.end /\ f.op = Top.op /\ f.op # "add"
    BY <1>1, <1>2, <2>1 DEF Frames, Call, Looping
  <2>3. GoOn(f) /\ UNCHANGED <<contract, list, state, owned, accepted>>
    BY <1>2 DEF Call
  <2>4. told' \in SUBSET Subscribers
    BY <1>2, <2>1 DEF Call, IInv, TypeOK
  <2> HIDE DEF f
  <2> QED
    BY <1>1, <2>2, <2>3, <2>4, GoOnStep DEF IInv, TypeOK
<1>3. CASE Compare
  <2>1. CASE Entry = Top.at
    BY <1>1, <1>3, <2>1, LeaveStep DEF Compare, IInv, TypeOK
  <2>2. CASE Entry # Top.at
    <3> DEFINE f == [Top EXCEPT !.i = @ + 1]
    <3>1. f \in Frames /\ f.end = Top.end /\ f.op = Top.op /\ f.at = Top.at
      BY <1>1 DEF Frames
    <3>2. Top.op = "add" => Top.at # None
      BY <1>1 DEF IInv, AddsSomebody
    <3>3. GoOn(f) /\ UNCHANGED <<contract, list, state, owned, accepted, told>>
      BY <1>3, <2>2 DEF Compare
    <3> HIDE DEF f
    <3> QED
      BY <1>1, <3>1, <3>2, <3>3, GoOnStep DEF IInv, TypeOK
  <2> QED
    BY <2>1, <2>2
<1>4. CASE EndAdd
  <2>1. Top.at \in Subscribers
    BY <1>1, <1>4 DEF EndAdd, Looping, IInv, AddsSomebody, Frames
  <2>2. list' \in Seq(Subscribers) /\ Len(list') = Len(list) + 1
    BY <1>1, <1>4, <2>1 DEF EndAdd
  <2>3. accepted' \in SUBSET Subscribers
    BY <1>4, <2>1 DEF EndAdd, IInv, TypeOK
  <2> QED
    BY <1>1, <1>4, <2>2, <2>3, LeaveStep DEF EndAdd, IInv, TypeOK
<1>5. CASE EndPublish
  BY <1>1, <1>5, LeaveStep DEF EndPublish, IInv, TypeOK
<1>6. CASE EndHandler
  <2> DEFINE f == Frame(Top.op, 2, None)
  <2>1. f \in Frames /\ f.end = Len(list) /\ f.op = Top.op /\ f.op # "add"
    BY <1>1, <1>6 DEF Frame, Frames, EndHandler, Looping
  <2>2. GoOn(f) /\ UNCHANGED <<contract, list, owned, accepted, told>>
    BY <1>6 DEF EndHandler
  <2>3. state' \in {"RUNNING", "COMPLETED", "FAILED"}
    BY <1>6 DEF EndHandler, Final
  <2> HIDE DEF f
  <2> QED
    BY <1>1, <2>1, <2>2, <2>3, GoOnStep DEF IInv, TypeOK
<1>7. CASE EndFinish
  <2>1. Len(stack) = 1
    BY <1>1, <1>7 DEF EndFinish, Looping, IInv, FinishIsOutermost
  <2>2. list' \in Seq(Subscribers)
    BY <1>7 DEF EndFinish
  <2> QED
    BY <1>1, <1>7, <2>1, <2>2, LeaveStep DEF EndFinish, IInv, TypeOK
<1> QED
  BY <1>2, <1>3, <1>4, <1>5, <1>6, <1>7

-----------------------------------------------------------------------------
(* After the end *)

\* Values are published by a Publisher that is running.
Published == \A k \in DOMAIN stack : stack[k].op = "publish" => state = "RUNNING"

\* A loop that goes on as what it is, or ends, leaves the others what they are.
LEMMA SameLoops ==
  ASSUME TypeOK, stack # <<>>,
         Leave \/ \E f \in Frames : GoOn(f) /\ f.op = Top.op
  PROVE  \A k \in DOMAIN stack' : k \in DOMAIN stack /\ stack'[k].op = stack[k].op
<1>1. /\ stack \in Seq(Frames) /\ Len(stack) \in Nat \ {0}
      /\ Top = stack[Len(stack)]
  BY TopFacts DEF TypeOK
<1>2. CASE Leave
  BY <1>1, <1>2, FrontFacts DEF Leave
<1>3. CASE \E f \in Frames : GoOn(f) /\ f.op = Top.op
  <2>1. PICK f \in Frames : GoOn(f) /\ f.op = Top.op
    BY <1>3
  <2>2. /\ DOMAIN stack' = 1 .. Len(stack)
        /\ \A k \in 1 .. (Len(stack) - 1) : stack'[k] = stack[k]
        /\ stack'[Len(stack)] = f
    BY <1>1, <2>1, ReplaceTop DEF GoOn
  <2>3. \A k \in DOMAIN stack' : k = Len(stack) \/ k \in 1 .. (Len(stack) - 1)
    BY <1>1, <2>2
  <2> QED
    BY <1>1, <2>1, <2>2, <2>3
<1> QED
  BY <1>2, <1>3

\* The frame of a loop that has gone on.
LEMMA GoesOn ==
  ASSUME TypeOK, stack # <<>>, Call \/ Prune \/ Compare \/ Return, ~ Leave
  PROVE  \E f \in Frames : GoOn(f) /\ f.op = Top.op
<1>1. Top \in Frames
  BY TopFacts
<1>2. CASE Call
  <2>1. Entry \in Subscribers
    BY <1>1, <1>2 DEF Call, Entry, TypeOK, Frames, InLoop
  <2> QED
    BY <1>1, <1>2, <2>1 DEF Call, Frames
<1>3. CASE Prune
  <2>1. Top.end - 1 \in Nat
    BY <1>1, <1>3 DEF Prune, InLoop, Frames
  <2> QED
    BY <1>1, <1>3, <2>1 DEF Prune, Frames
<1>4. CASE Compare
  BY <1>1, <1>4 DEF Compare, Frames
<1>5. CASE Return
  <2>1. [Top EXCEPT !.at = None, !.i = @ + 1, !.called = @ \cup {Top.at}] \in Frames
    <3>1. Top.at \in Subscribers
      BY <1>1, <1>5 DEF Return, Free, Frames
    <3>2. Top.i + 1 \in Nat \ {0} /\ Top.called \cup {Top.at} \in SUBSET Subscribers
      BY <1>1, <3>1 DEF Frames
    <3> QED
      BY <1>1, <3>2 DEF Frames
  <2> QED
    BY <1>1, <1>5, <2>1 DEF Return, Frames
<1> QED
  BY <1>2, <1>3, <1>4, <1>5

\* The state changes only when no other loop is running.
LEMMA PublishedNext ==
  ASSUME IInv, Published, [Next]_vars
  PROVE  Published'
<1>1. TypeOK
  BY DEF IInv
<1>2. CASE Publish \/ Finish("complete") \/ Finish("error")
  BY <1>2 DEF Publish, Finish, Published
<1>3. ASSUME NEW s \in Subscribers, Subscribe(s) PROVE Published'
  <2>1. CASE state = "RUNNING"
    BY <1>3, <2>1 DEF Subscribe, Published
  <2>2. CASE state # "RUNNING"
    <3> DEFINE f == [Frame("welcome", 2, s) EXCEPT !.end = 0]
    <3>1. Enter(f) /\ f.op = "welcome"
      BY <1>3, <2>2 DEF Subscribe, Frame
    <3> HIDE DEF f
    <3>2. /\ DOMAIN stack' = 1 .. (Len(stack) + 1) /\ DOMAIN stack = 1 .. Len(stack)
          /\ \A k \in 1 .. Len(stack) : stack'[k] = stack[k]
          /\ stack'[Len(stack) + 1] = f
      BY <1>1, <3>1 DEF Enter, TypeOK
    <3>3. \A k \in DOMAIN stack' : k = Len(stack) + 1 \/ k \in DOMAIN stack
      BY <1>1, <3>2 DEF TypeOK
    <3> QED
      BY <1>1, <1>3, <3>1, <3>2, <3>3 DEF Subscribe, Published, TypeOK
  <2> QED
    BY <2>1, <2>2
<1>4. ASSUME NEW s \in Subscribers, Expire(s) PROVE Published'
  BY <1>4 DEF Expire, Published
<1>5. CASE Call \/ Prune \/ Compare \/ Return
  <2>1. stack # <<>> /\ state' = state
    BY <1>5 DEF Call, Prune, Compare, Return, Looping
  <2> QED
    BY <1>1, <1>5, <2>1, GoesOn, SameLoops DEF Published
<1>6. CASE Throw \/ EndAdd \/ EndPublish \/ EndFinish
  <2>1. stack # <<>> /\ state' = state /\ Leave
    BY <1>6 DEF Throw, EndAdd, EndPublish, EndFinish, Looping
  <2> QED
    BY <1>1, <2>1, SameLoops DEF Published
<1>7. CASE EndHandler
  <2>1. /\ stack # <<>> /\ Top.op \in {"complete", "error"}
        /\ GoOn(Frame(Top.op, 2, None))
    BY <1>7 DEF EndHandler, Looping
  <2>2. /\ stack \in Seq(Frames) /\ Len(stack) \in DOMAIN stack
        /\ Top = stack[Len(stack)] /\ list \in Seq(Subscribers)
    BY <1>1, <2>1, TopFacts DEF TypeOK
  <2>3. Len(stack) = 1
    BY <2>1, <2>2 DEF IInv, FinishIsOutermost
  <2>4. Frame(Top.op, 2, None) \in Frames /\ Frame(Top.op, 2, None).op = Top.op
    BY <2>1, <2>2 DEF Frame, Frames
  <2>5. DOMAIN stack' = {1} /\ stack'[1].op = Top.op
    BY <2>1, <2>2, <2>3, <2>4, ReplaceTop DEF GoOn
  <2> QED
    BY <2>1, <2>5 DEF Published
<1>8. CASE UNCHANGED vars
  BY <1>8 DEF vars, Published
<1> QED
  BY <1>2, <1>3, <1>4, <1>5, <1>6, <1>7, <1>8 DEF Next, Loops

-----------------------------------------------------------------------------
(* The end *)

\* The second loop of complete and error: whoever it has passed, or is calling,
\* has been told, and it goes on to the end of the vector.
Telling(f, entries, heard) ==
  /\ f.op \in {"complete", "error"} /\ f.pass = 2 /\ f.end = Len(entries)
  /\ \A j \in DOMAIN entries : j < f.i => entries[j] \in heard
  /\ f.at # None => f.i \in DOMAIN entries /\ entries[f.i] \in heard

\* The second loop belongs to a Publisher that has ended.
Begun ==
  \A k \in DOMAIN stack :
    stack[k].op \in {"complete", "error"} /\ stack[k].pass = 2 => state # "RUNNING"

\* A Publisher that has ended is in its second loop or has let go of everybody;
\* newcomers are only welcomed.
Ended ==
  state # "RUNNING" =>
    \/ /\ stack # <<>> /\ Telling(stack[1], list, told)
       /\ \A k \in DOMAIN stack : k # 1 => stack[k].op = "welcome"
    \/ list = <<>> /\ \A k \in DOMAIN stack : stack[k].op = "welcome"

\* Whoever was accepted is in the vector or has been told.
Known == \A s \in accepted \cap owned : s \in told \/ \E j \in DOMAIN list : list[j] = s

Told == "throw" \notin contract => Begun /\ Ended /\ Known

\* A loop is put on the stack.
LEMMA Enters ==
  ASSUME TypeOK, NEW f, Enter(f)
  PROVE  /\ Len(stack) \in Nat
         /\ DOMAIN stack = 1 .. Len(stack) /\ DOMAIN stack' = 1 .. (Len(stack) + 1)
         /\ \A k \in DOMAIN stack : stack'[k] = stack[k]
         /\ stack'[Len(stack) + 1] = f
         /\ \A k \in DOMAIN stack' : k \in DOMAIN stack \/ k = Len(stack) + 1
         /\ stack' # <<>>
         /\ stack # <<>> => 1 \in DOMAIN stack
         /\ stack = <<>> => DOMAIN stack' = {1} /\ stack'[1] = f
BY DEF Enter, TypeOK

\* A loop is taken from the stack.
LEMMA Leaves ==
  ASSUME TypeOK, stack # <<>>, Leave
  PROVE  /\ Len(stack) \in Nat \ {0} /\ Top = stack[Len(stack)]
         /\ DOMAIN stack = 1 .. Len(stack)
         /\ DOMAIN stack' = 1 .. (Len(stack) - 1)
         /\ \A k \in DOMAIN stack' : k \in DOMAIN stack /\ stack'[k] = stack[k]
         /\ Len(stack) = 1 => stack' = <<>>
         /\ Len(stack) # 1 => stack' # <<>> /\ 1 \in DOMAIN stack'
<1>1. /\ stack \in Seq(Frames) /\ Len(stack) \in Nat \ {0}
      /\ Top = stack[Len(stack)]
  BY TopFacts DEF TypeOK
<1>2. /\ stack' \in Seq(Frames) /\ Len(stack') = Len(stack) - 1
      /\ \A k \in 1 .. (Len(stack) - 1) : stack'[k] = stack[k]
  BY <1>1, FrontFacts DEF Leave
<1>3. DOMAIN stack = 1 .. Len(stack) /\ DOMAIN stack' = 1 .. (Len(stack) - 1)
  BY <1>1, <1>2
<1>4. \A k \in DOMAIN stack' : k \in DOMAIN stack /\ stack'[k] = stack[k]
  BY <1>1, <1>2, <1>3
<1> QED
  BY <1>1, <1>2, <1>3, <1>4

\* The loop on top goes on.
LEMMA Goes ==
  ASSUME TypeOK, stack # <<>>, NEW f \in Frames, GoOn(f)
  PROVE  /\ Len(stack) \in Nat \ {0} /\ Top = stack[Len(stack)]
         /\ DOMAIN stack = 1 .. Len(stack) /\ DOMAIN stack' = DOMAIN stack
         /\ stack'[Len(stack)] = f /\ stack' # <<>>
         /\ \A k \in DOMAIN stack : k # Len(stack) => stack'[k] = stack[k]
         /\ 1 \in DOMAIN stack /\ Len(stack) \in DOMAIN stack
<1>1. /\ stack \in Seq(Frames) /\ Len(stack) \in Nat \ {0}
      /\ Top = stack[Len(stack)]
  BY TopFacts DEF TypeOK
<1>2. /\ Append(Front(stack), f) \in Seq(Frames)
      /\ Len(Append(Front(stack), f)) = Len(stack)
      /\ \A k \in 1 .. (Len(stack) - 1) : Append(Front(stack), f)[k] = stack[k]
      /\ Append(Front(stack), f)[Len(stack)] = f
  BY <1>1, ReplaceTop
<1>3. stack' \in Seq(Frames) /\ Len(stack') = Len(stack)
  BY <1>2 DEF GoOn
<1>4. /\ \A k \in 1 .. (Len(stack) - 1) : stack'[k] = stack[k]
      /\ stack'[Len(stack)] = f
  BY <1>2 DEF GoOn
<1>5. \A k \in 1 .. Len(stack) : k # Len(stack) => k \in 1 .. (Len(stack) - 1)
  BY <1>1
<1> QED
  BY <1>1, <1>3, <1>4, <1>5

\* Calls from outside, and Subscribers that expire.
LEMMA CallersTold ==
  ASSUME TypeOK, Begun, Ended, Known,
         \/ Publish \/ Finish("complete") \/ Finish("error")
         \/ \E s \in Subscribers : Subscribe(s) \/ Expire(s)
  PROVE  (Begun /\ Ended /\ Known)'
<1>1. ASSUME NEW f, Enter(f), f.op \in {"complete", "error"} => f.pass = 1,
             state = "RUNNING", UNCHANGED <<list, state, owned, accepted, told>>
      PROVE  (Begun /\ Ended /\ Known)'
  <2>1. Begun'
    BY <1>1, Enters DEF Begun
  <2> QED
    BY <1>1, <2>1 DEF Ended, Known
<1>2. CASE Publish
  BY <1>1, <1>2 DEF Publish, Frame
<1>3. CASE Finish("complete") \/ Finish("error")
  BY <1>1, <1>3 DEF Finish, Frame
<1>4. ASSUME NEW s \in Subscribers, Subscribe(s) PROVE (Begun /\ Ended /\ Known)'
  <2>1. CASE state = "RUNNING"
    BY <1>1, <1>4, <2>1 DEF Subscribe, Frame
  <2>2. CASE state # "RUNNING"
    <3> DEFINE f == [Frame("welcome", 2, s) EXCEPT !.end = 0]
    <3>1. /\ Enter(f) /\ f.op = "welcome"
          /\ accepted' = accepted \cup {s} /\ told' = told \cup {s}
          /\ UNCHANGED <<list, state, owned>>
      BY <1>4, <2>2 DEF Subscribe, Frame
    <3> HIDE DEF f
    <3>2. Begun'
      BY <3>1, Enters DEF Begun
    <3>3. Known'
      BY <3>1 DEF Known
    <3>4. Ended'
      <4>1. CASE list = <<>> /\ \A k \in DOMAIN stack : stack[k].op = "welcome"
        BY <3>1, <4>1, Enters DEF Ended
      <4>2. CASE /\ stack # <<>> /\ Telling(stack[1], list, told)
                 /\ \A k \in DOMAIN stack : k # 1 => stack[k].op = "welcome"
        <5>1. stack'[1] = stack[1] /\ stack' # <<>>
          BY <3>1, <4>2, Enters
        <5>2. Telling(stack[1], list', told')
          BY <3>1, <4>2, <5>1 DEF Telling
        <5> QED
          BY <3>1, <4>2, <5>1, <5>2, Enters DEF Ended
      <4> QED
        BY <2>2, <4>1, <4>2 DEF Ended
    <3> QED
      BY <3>2, <3>3, <3>4
  <2> QED
    BY <2>1, <2>2
<1>5. ASSUME NEW s \in Subscribers, Expire(s) PROVE (Begun /\ Ended /\ Known)'
  BY <1>5 DEF Expire, Begun, Ended, Known, Telling
<1> QED
  BY <1>2, <1>3, <1>4, <1>5

\* A step of the loop on top that keeps the loop what it is.
LEMMA BegunGoesOn ==
  ASSUME TypeOK, stack # <<>>, Begun, state' = state,
         NEW f \in Frames, GoOn(f), f.op = Top.op, f.pass = Top.pass
  PROVE  Begun'
BY Goes DEF Begun

\* A loop that ends, with or without an exception.
LEMMA BegunLeaves ==
  ASSUME TypeOK, stack # <<>>, Begun, state' = state, Leave
  PROVE  Begun'
BY Leaves DEF Begun

\* In a Publisher that has ended, a loop on top that is not a welcome is alone.
LEMMA Alone ==
  ASSUME TypeOK, stack # <<>>, Ended, state # "RUNNING", Top.op # "welcome"
  PROVE  Len(stack) = 1 /\ Top = stack[1] /\ Telling(Top, list, told)
<1>1. Len(stack) \in DOMAIN stack /\ Top = stack[Len(stack)]
  BY TopFacts
<1> QED
  BY <1>1 DEF Ended

\* A Subscriber is called.
LEMMA CallTold ==
  ASSUME TypeOK, Begun, Ended, Known, Call
  PROVE  (Begun /\ Ended /\ Known)'
<1>1. /\ stack # <<>> /\ Top.op \in {"publish", "complete", "error"}
      /\ UNCHANGED <<list, state, owned, accepted>> /\ told \subseteq told'
      /\ Top.op # "publish" => Entry \in told'
  BY DEF Call, Looping
<1>2. Top \in Frames /\ Top.i \in DOMAIN list /\ Entry \in Subscribers
  BY <1>1, TopFacts DEF Call, TypeOK, Entry, Frames, InLoop
<1> DEFINE f == [Top EXCEPT !.at = Entry]
<1>3. /\ f \in Frames /\ f.op = Top.op /\ f.pass = Top.pass /\ f.i = Top.i
      /\ f.end = Top.end /\ f.at = Entry
  BY <1>2 DEF Frames
<1>4. GoOn(f)
  BY DEF Call
<1> HIDE DEF f
<1>5. Begun'
  BY <1>1, <1>3, <1>4, BegunGoesOn
<1>6. Known'
  BY <1>1 DEF Known
<1>7. Ended'
  <2>1. SUFFICES ASSUME state # "RUNNING" PROVE Ended'
    BY <1>1 DEF Ended
  <2>2. Len(stack) = 1 /\ Telling(Top, list, told)
    BY <1>1, <2>1, Alone
  <2>3. DOMAIN stack' = {1} /\ stack'[1] = f /\ stack' # <<>>
    BY <1>1, <1>3, <1>4, <2>2, Goes
  <2>4. Telling(f, list', told')
    BY <1>1, <1>2, <1>3, <2>2 DEF Telling, Entry
  <2> QED
    BY <2>3, <2>4 DEF Ended
<1> QED
  BY <1>5, <1>6, <1>7

\* A Subscriber returns.
LEMMA ReturnTold ==
  ASSUME TypeOK, Begun, Ended, Known, Return
  PROVE  (Begun /\ Ended /\ Known)'
<1>1. /\ stack # <<>> /\ Top.at # None /\ Top.op # "add"
      /\ UNCHANGED <<list, state, owned, accepted, told>>
  BY DEF Return, Free
<1>2. Top \in Frames
  BY <1>1, TopFacts
<1>3. Top.i + 1 \in Nat \ {0} /\ Top.called \cup {Top.at} \in SUBSET Subscribers
  BY <1>1, <1>2 DEF Frames
<1> DEFINE f == [Top EXCEPT !.at = None, !.i = @ + 1, !.called = @ \cup {Top.at}]
<1>4. /\ f \in Frames /\ f.op = Top.op /\ f.pass = Top.pass /\ f.i = Top.i + 1
      /\ f.end = Top.end /\ f.at = None
  BY <1>2, <1>3 DEF Frames
<1>5. GoOn(f)
  BY DEF Return
<1> HIDE DEF f
<1>6. Begun'
  BY <1>1, <1>4, <1>5, BegunGoesOn
<1>7. Known'
  BY <1>1 DEF Known
<1>8. Ended'
  <2>1. SUFFICES ASSUME state # "RUNNING" PROVE Ended'
    BY <1>1 DEF Ended
  <2>2. CASE Top.op = "welcome"
    <3>1. stack' # <<>> /\ DOMAIN stack' = DOMAIN stack
          /\ \A k \in DOMAIN stack : stack'[k].op = stack[k].op
      BY <1>1, <1>4, <1>5, <2>2, Goes
    <3>2. Telling(stack[1], list, told) => stack'[1] = stack[1]
      BY <1>1, <1>4, <1>5, <2>2, Goes DEF Telling
    <3>3. Telling(stack[1], list, told) => Telling(stack'[1], list', told')
      BY <1>1, <3>2 DEF Telling
    <3> QED
      BY <1>1, <2>1, <3>1, <3>3 DEF Ended
  <2>3. CASE Top.op # "welcome"
    <3>1. Len(stack) = 1 /\ Telling(Top, list, told)
      BY <1>1, <2>1, <2>3, Alone
    <3>2. DOMAIN stack' = {1} /\ stack'[1] = f /\ stack' # <<>>
      BY <1>1, <1>4, <1>5, <3>1, Goes
    <3>3. \A j \in DOMAIN list : j < f.i => j < Top.i \/ j = Top.i
      BY <1>2, <1>4 DEF Frames, TypeOK
    <3>4. Telling(f, list', told')
      BY <1>1, <1>4, <3>1, <3>3 DEF Telling
    <3> QED
      BY <3>2, <3>4 DEF Ended
  <2> QED
    BY <2>2, <2>3
<1> QED
  BY <1>6, <1>7, <1>8

\* What the removal of an expired entry leaves behind.
LEMMA PruneFacts ==
  ASSUME TypeOK, Prune
  PROVE  /\ stack # <<>> /\ Top.op \in {"publish", "complete", "error", "add"}
         /\ Top.op # "add" => Top.at = None
         /\ Entry \notin owned /\ UNCHANGED <<contract, state, owned, accepted, told>>
         /\ Top \in Frames /\ Top.i \in 1 .. Len(list) /\ Top.i <= Top.end
         /\ list \in Seq(Subscribers) /\ Len(list) \in Nat \ {0}
         /\ DOMAIN list = 1 .. Len(list)
         /\ Len(list') = Len(list) - 1 /\ DOMAIN list' = 1 .. (Len(list) - 1)
         /\ \A j \in DOMAIN list' : list'[j] = IF j = Top.i THEN list[Len(list)] ELSE list[j]
         /\ \E f \in Frames : /\ GoOn(f) /\ f.op = Top.op /\ f.pass = Top.pass
                              /\ f.i = Top.i /\ f.end = Top.end - 1 /\ f.at = Top.at
                              /\ f.due = Top.due /\ f.called = Top.called
<1>1. /\ stack # <<>> /\ Top.op \in {"publish", "complete", "error", "add"}
      /\ Top.op # "add" => Top.at = None
      /\ Entry \notin owned /\ UNCHANGED <<contract, state, owned, accepted, told>>
  BY DEF Prune, Looping, Alive
<1>2. /\ Top \in Frames /\ Top.i \in 1 .. Len(list) /\ Top.end - 1 \in Nat
      /\ Top.i <= Top.end
      /\ list \in Seq(Subscribers) /\ Len(list) \in Nat \ {0} /\ list # <<>>
  BY <1>1, TopFacts DEF Prune, TypeOK, Frames, InLoop
<1>3. /\ DOMAIN list = 1 .. Len(list)
      /\ Len(list') = Len(list) - 1 /\ DOMAIN list' = 1 .. (Len(list) - 1)
      /\ \A j \in DOMAIN list' : list'[j] = IF j = Top.i THEN list[Len(list)] ELSE list[j]
  <2> DEFINE r == ReplaceAt(list, Top.i, Last(list))
  <2>1. Last(list) = list[Len(list)] /\ Last(list) \in Subscribers
    BY <1>2, FrontFacts
  <2>2. r \in Seq(Subscribers) /\ Len(r) = Len(list)
    BY <1>2, <2>1, ExceptSeq DEF ReplaceAt
  <2>3. \A j \in 1 .. Len(list) : r[j] = IF j = Top.i THEN list[Len(list)] ELSE list[j]
    BY <1>2, <2>1 DEF ReplaceAt
  <2>4. list' = Front(r)
    BY DEF Prune
  <2> HIDE DEF r
  <2>5. /\ list' \in Seq(Subscribers) /\ Len(list') = Len(list) - 1
        /\ \A j \in 1 .. (Len(list) - 1) : list'[j] = r[j]
    <3>1. r # <<>>
      BY <1>2, <2>2
    <3> QED
      BY <1>2, <2>2, <2>4, <3>1, FrontFacts
  <2> QED
    BY <1>2, <2>3, <2>5
<1>4. \E f \in Frames : /\ GoOn(f) /\ f.op = Top.op /\ f.pass = Top.pass
                       /\ f.i = Top.i /\ f.end = Top.end - 1 /\ f.at = Top.at
                       /\ f.due = Top.due /\ f.called = Top.called
  <2> DEFINE g == [Top EXCEPT !.end = @ - 1]
  <2>1. g \in Frames /\ g.end = Top.end - 1
    BY <1>2 DEF Frames
  <2>2. /\ g.op = Top.op /\ g.pass = Top.pass /\ g.i = Top.i /\ g.at = Top.at
        /\ g.due = Top.due /\ g.called = Top.called
    BY <1>2 DEF Frames
  <2>3. GoOn(g)
    BY DEF Prune
  <2> HIDE DEF g
  <2> QED
    BY <2>1, <2>2, <2>3
<1> QED
  BY <1>1, <1>2, <1>3, <1>4

\* An expired entry is removed: nobody owns it.
LEMMA PruneTold ==
  ASSUME TypeOK, Begun, Ended, Known, Prune
  PROVE  (Begun /\ Ended /\ Known)'
<1>1. /\ stack # <<>> /\ Top.op # "welcome"
      /\ Top.op # "add" => Top.at = None
      /\ Entry \notin owned /\ UNCHANGED <<state, owned, accepted, told>>
  BY PruneFacts
<1>2. /\ Top \in Frames /\ Top.i \in 1 .. Len(list) /\ Len(list) \in Nat \ {0}
  BY PruneFacts
<1>3. /\ DOMAIN list = 1 .. Len(list)
      /\ Len(list') = Len(list) - 1 /\ DOMAIN list' = 1 .. (Len(list) - 1)
      /\ \A j \in DOMAIN list' : list'[j] = IF j = Top.i THEN list[Len(list)] ELSE list[j]
  BY PruneFacts
<1>4. PICK f \in Frames : /\ GoOn(f) /\ f.op = Top.op /\ f.pass = Top.pass /\ f.i = Top.i
                          /\ f.end = Top.end - 1 /\ f.at = Top.at
  BY PruneFacts
<1>5. Begun'
  BY <1>1, <1>4, BegunGoesOn
<1>6. Known'
  <2>1. SUFFICES ASSUME NEW s \in accepted \cap owned, s \notin told
                 PROVE  \E j \in DOMAIN list' : list'[j] = s
    BY <1>1 DEF Known
  <2>2. PICK j \in 1 .. Len(list) : list[j] = s
    BY <1>3, <2>1 DEF Known
  <2>3. j # Top.i
    BY <1>1, <2>1, <2>2 DEF Entry
  <2>4. CASE j = Len(list)
    <3>1. Top.i \in DOMAIN list'
      BY <1>2, <1>3, <2>3, <2>4
    <3> QED
      BY <1>3, <2>2, <2>4, <3>1
  <2>5. CASE j # Len(list)
    <3>1. \A n \in Nat \ {0} : \A m \in 1 .. n : m # n => m \in 1 .. (n - 1)
      OBVIOUS
    <3>2. Len(list) \in Nat \ {0} /\ DOMAIN list' = 1 .. (Len(list) - 1)
      BY <1>2, <1>3
    <3>3. j \in DOMAIN list'
      BY <2>5, <3>1, <3>2, Zenon
    <3> QED
      BY <1>3, <2>2, <2>3, <3>3
  <2> QED
    BY <2>4, <2>5
<1>7. Ended'
  <2>1. SUFFICES ASSUME state # "RUNNING" PROVE Ended'
    BY <1>1 DEF Ended
  <2>2. Len(stack) = 1 /\ Telling(Top, list, told)
    BY <1>1, <2>1, Alone
  <2>3. DOMAIN stack' = {1} /\ stack'[1] = f /\ stack' # <<>>
    BY <1>1, <1>4, <2>2, Goes
  <2>4. \A j \in DOMAIN list' : j < f.i => j \in DOMAIN list /\ list'[j] = list[j]
    BY <1>2, <1>3, <1>4
  <2>5. Telling(f, list', told')
    BY <1>1, <1>3, <1>4, <2>2, <2>4 DEF Telling
  <2> QED
    BY <2>3, <2>5 DEF Ended
<1> QED
  BY <1>5, <1>6, <1>7

\* The newcomer is already there, or the loop of add goes on.
LEMMA CompareGoesOn ==
  ASSUME TypeOK, Compare
  PROVE  Leave \/ \E f \in Frames : GoOn(f) /\ f.op = Top.op /\ f.pass = Top.pass
<1>1. Top \in Frames
  BY TopFacts DEF Compare, Looping
<1>2. /\ [Top EXCEPT !.i = @ + 1] \in Frames
      /\ [Top EXCEPT !.i = @ + 1].op = Top.op /\ [Top EXCEPT !.i = @ + 1].pass = Top.pass
  BY <1>1 DEF Frames
<1> QED
  BY <1>2 DEF Compare

\* A newcomer is compared, and added, only while the Publisher is running.
LEMMA AddTold ==
  ASSUME TypeOK, Begun, Ended, Known, Compare \/ EndAdd
  PROVE  (Begun /\ Ended /\ Known)'
<1>1. stack # <<>> /\ Top.op = "add" /\ UNCHANGED <<state, owned, told>>
  BY DEF Compare, EndAdd, Looping
<1>2. Ended'
  BY <1>1, Alone DEF Ended, Telling
<1>3. CASE Compare
  <2>1. Begun'
    BY <1>1, <1>3, BegunLeaves, BegunGoesOn, CompareGoesOn
  <2> QED
    BY <1>2, <1>3, <2>1 DEF Compare, Known
<1>4. CASE EndAdd
  <2>1. Begun'
    BY <1>1, <1>4, BegunLeaves DEF EndAdd
  <2>2. list' = Append(list, Top.at) /\ accepted' = accepted \cup {Top.at}
    BY <1>4 DEF EndAdd
  <2>3. /\ \A j \in DOMAIN list : j \in DOMAIN list' /\ list'[j] = list[j]
        /\ Len(list) + 1 \in DOMAIN list' /\ list'[Len(list) + 1] = Top.at
    <3>1. list \in Seq(Subscribers) /\ Len(list) \in Nat
      BY DEF TypeOK
    <3> QED
      BY <2>2, <3>1
  <2>4. Known'
    BY <1>1, <2>2, <2>3 DEF Known
  <2> QED
    BY <1>2, <2>1, <2>4
<1> QED
  BY <1>3, <1>4

\* A loop ends.
LEMMA EndTold ==
  ASSUME IInv, Begun, Ended, Known, EndPublish \/ EndHandler \/ EndFinish
  PROVE  (Begun /\ Ended /\ Known)'
<1>1. TypeOK /\ stack # <<>> /\ UNCHANGED <<owned, accepted, told>>
  BY DEF IInv, EndPublish, EndHandler, EndFinish, Looping
<1>2. CASE EndPublish
  <2>1. Leave /\ UNCHANGED <<list, state>>
    BY <1>2 DEF EndPublish
  <2>2. Begun' /\ Known'
    BY <1>1, <2>1, BegunLeaves DEF Known
  <2>3. Ended'
    <3>1. SUFFICES ASSUME state # "RUNNING" PROVE Ended'
      BY <2>1 DEF Ended
    <3>2. CASE list = <<>> /\ \A k \in DOMAIN stack : stack[k].op = "welcome"
      BY <1>1, <2>1, <3>2, Leaves DEF Ended
    <3>3. CASE /\ Telling(stack[1], list, told)
               /\ \A k \in DOMAIN stack : k # 1 => stack[k].op = "welcome"
      <4>1. Len(stack) # 1
        BY <1>1, <1>2, <2>1, <3>3, Leaves DEF EndPublish, Looping, Telling
      <4> QED
        BY <1>1, <2>1, <3>3, <4>1, Leaves DEF Ended
    <3> QED
      BY <3>1, <3>2, <3>3 DEF Ended
  <2> QED
    BY <2>2, <2>3
<1>3. ASSUME Top.op \in {"complete", "error"} PROVE Len(stack) = 1
  BY <1>1, <1>3, TopFacts DEF IInv, FinishIsOutermost
<1>4. CASE EndHandler
  <2>1. /\ Top.op \in {"complete", "error"} /\ list' = list /\ state' # "RUNNING"
        /\ GoOn(Frame(Top.op, 2, None))
    BY <1>4 DEF EndHandler, Looping, Final
  <2>2. PICK f \in Frames : /\ GoOn(f) /\ f.op = Top.op /\ f.pass = 2 /\ f.i = 1
                            /\ f.end = Len(list) /\ f.at = None
    <3>1. /\ Frame(Top.op, 2, None).op = Top.op /\ Frame(Top.op, 2, None).pass = 2
          /\ Frame(Top.op, 2, None).i = 1 /\ Frame(Top.op, 2, None).end = Len(list)
          /\ Frame(Top.op, 2, None).at = None
      BY DEF Frame
    <3>2. Frame(Top.op, 2, None) \in Frames
      BY <1>1, <2>1 DEF Frame, Frames, TypeOK
    <3> QED
      BY <2>1, <3>1, <3>2
  <2>3. DOMAIN stack' = {1} /\ stack'[1] = f /\ stack' # <<>>
    BY <1>1, <1>3, <2>1, <2>2, Goes
  <2>4. \A j \in DOMAIN list : ~ (j < 1)
    BY <1>1 DEF TypeOK
  <2>5. Telling(f, list', told')
    BY <2>1, <2>2, <2>4 DEF Telling
  <2> QED
    BY <1>1, <2>1, <2>3, <2>5 DEF Begun, Ended, Known
<1>5. CASE EndFinish
  <2>1. /\ Top.op \in {"complete", "error"} /\ Top.pass = 2 /\ ~ InLoop
        /\ list' = <<>> /\ state' = state /\ Leave
    BY <1>5 DEF EndFinish, Looping
  <2>2. state # "RUNNING"
    BY <1>1, <2>1, TopFacts DEF Begun
  <2>3. Telling(Top, list, told) /\ stack' = <<>>
    BY <1>1, <1>3, <2>1, <2>2, Alone, Leaves
  <2>4. \A j \in DOMAIN list : list[j] \in told
    <3>1. \A j \in DOMAIN list : j < Top.i
      BY <1>1, <2>1, <2>3, TopFacts DEF Telling, InLoop, Frames, TypeOK
    <3> QED
      BY <2>3, <3>1 DEF Telling
  <2> QED
    BY <1>1, <2>1, <2>3, <2>4 DEF Begun, Ended, Known
<1> QED
  BY <1>2, <1>4, <1>5

\* No step keeps the end from anybody, unless Subscribers throw.
LEMMA ToldNext ==
  ASSUME IInv, Told, [Next]_vars
  PROVE  Told'
<1>1. contract' = contract /\ TypeOK
  BY DEF IInv, Next, Loops, vars, Publish, Finish, Subscribe, Expire, Return, Throw, Call,
         Prune, Compare, EndAdd, EndPublish, EndHandler, EndFinish
<1>2. SUFFICES ASSUME "throw" \notin contract, Begun, Ended, Known
               PROVE  (Begun /\ Ended /\ Known)'
  BY <1>1 DEF Told
<1>3. CASE UNCHANGED vars
  BY <1>2, <1>3 DEF vars, Begun, Ended, Known
<1>4. CASE Next
  BY <1>1, <1>2, <1>4, CallersTold, ReturnTold, CallTold, PruneTold, AddTold, EndTold
     DEF Next, Loops, Throw
<1> QED
  BY <1>3, <1>4

-----------------------------------------------------------------------------
(* The loops one by one *)

Ops == {"publish", "complete", "error"}

\* How far a loop over the vector has come: who has to be called is called or
\* comes later, and whoever was called came before.  add has met nobody that is
\* the newcomer.
Walks(f, entries, held) ==
  /\ f.op \in Ops =>
       /\ \A s \in f.due \cap held : s \in f.called \/ \E j \in f.i .. f.end : entries[j] = s
       /\ \A s \in f.called : \E j \in DOMAIN entries : j < f.i /\ entries[j] = s
       /\ f.at # None => f.i <= f.end /\ entries[f.i] = f.at
  /\ f.op = "welcome" => f.called = {} \/ f.at = None
  /\ f.op = "add" => /\ f.end = Len(entries)
                     /\ \A j \in DOMAIN entries : j < f.i => entries[j] # f.at

Walking == \A k \in DOMAIN stack : Walks(stack[k], list, owned)

\* While somebody is being added no other loop begins.
AddOnTop == \A k \in DOMAIN stack : stack[k].op = "add" => k = Len(stack)

\* Nobody subscribes from inside of a loop if Subscribers may expire.
Level ==
  "expire" \in contract =>
    \A k \in DOMAIN stack : stack[k].op \in Ops => stack[k].end = Len(list)

Distinct == \A i, j \in DOMAIN list : list[i] = list[j] => i = j

WInv == Walking /\ AddOnTop /\ Level /\ Distinct

\* The frames of loops that begin.
LEMMA FirstStep ==
  ASSUME TypeOK, NEW op \in Ops, NEW p \in {1, 2}
  PROVE  /\ Walks(Frame(op, p, None), list, owned)
         /\ Frame(op, p, None) \in Frames
         /\ Frame(op, p, None).op = op /\ Frame(op, p, None).end = Len(list)
<1>1. list \in Seq(Subscribers) /\ Len(list) \in Nat /\ DOMAIN list = 1 .. Len(list)
  BY DEF TypeOK
<1>2. /\ Frame(op, p, None).op = op /\ Frame(op, p, None).end = Len(list)
      /\ Frame(op, p, None).i = 1 /\ Frame(op, p, None).at = None
      /\ Frame(op, p, None).called = {}
      /\ Frame(op, p, None).due = {s \in Subscribers : Alive(s) /\ Contains(list, s)}
  BY DEF Frame
<1>3. Frame(op, p, None) \in Frames
  BY <1>1 DEF Frame, Frames, Ops
<1>4. \A s \in Frame(op, p, None).due : \E j \in 1 .. Len(list) : list[j] = s
  BY <1>2 DEF Contains
<1> QED
  BY <1>2, <1>3, <1>4 DEF Walks, Ops

\* A loop begins.
LEMMA EnterWalks ==
  ASSUME TypeOK, WInv, NEW f, Enter(f), Free, UNCHANGED <<contract, list, owned>>,
         Walks(f, list, owned), f.op \in Ops => f.end = Len(list)
  PROVE  WInv'
<1>1. AddOnTop'
  <2>1. \A k \in DOMAIN stack : stack[k].op # "add"
    BY TopFacts DEF Free, WInv, AddOnTop
  <2>2. Len(stack') = Len(stack) + 1
    BY DEF Enter, TypeOK
  <2> QED
    BY <2>1, <2>2, Enters DEF AddOnTop
<1>2. Walking'
  BY Enters DEF WInv, Walking
<1>3. Level'
  BY Enters DEF WInv, Level
<1> QED
  BY <1>1, <1>2, <1>3 DEF WInv, Distinct

\* A loop goes on.
LEMMA GoWalks ==
  ASSUME TypeOK, WInv, stack # <<>>, NEW f \in Frames, GoOn(f), f.op = Top.op,
         UNCHANGED <<contract, list, owned>>,
         Walks(f, list, owned), f.end = Top.end
  PROVE  WInv'
<1>1. Len(stack') = Len(stack)
  BY ReplaceTop DEF GoOn, TypeOK
<1>2. AddOnTop' /\ Level'
  BY <1>1, Goes DEF WInv, AddOnTop, Level
<1>3. Walking'
  BY Goes DEF WInv, Walking
<1> QED
  BY <1>2, <1>3 DEF WInv, Distinct

\* A loop ends.
LEMMA LeaveWalks ==
  ASSUME TypeOK, WInv, stack # <<>>, Leave, UNCHANGED <<contract, list, owned>>
  PROVE  WInv'
<1>1. \A k \in DOMAIN stack' : k # Len(stack)
  BY Leaves
<1> QED
  BY <1>1, Leaves DEF WInv, Walking, AddOnTop, Level, Distinct

\* Calls from outside, and Subscribers that expire: their loops have called nobody.
LEMMA CallerWalks ==
  ASSUME TypeOK, WInv,
         \/ Publish \/ Finish("complete") \/ Finish("error")
         \/ \E s \in Subscribers : Subscribe(s) \/ Expire(s)
  PROVE  WInv'
<1>1. CASE Publish
  BY <1>1, EnterWalks, FirstStep DEF Publish, May, Ops
<1>2. CASE Finish("complete") \/ Finish("error")
  BY <1>2, EnterWalks, FirstStep DEF Finish, May, Ops
<1>3. ASSUME NEW s \in Subscribers, Subscribe(s) PROVE WInv'
  <2>1. Free /\ UNCHANGED <<contract, list, owned>>
    BY <1>3 DEF Subscribe, May
  <2>2. CASE state = "RUNNING"
    <3>1. PICK f : /\ Enter(f) /\ f.op = "add" /\ f.end = Len(list) /\ f.i = 1
      BY <1>3, <2>2 DEF Subscribe, Frame
    <3>2. \A j \in DOMAIN list : ~ (j < 1)
      BY DEF TypeOK
    <3> QED
      BY <2>1, <3>1, <3>2, EnterWalks DEF Walks, Ops
  <2>3. CASE state # "RUNNING"
    <3> DEFINE f == [Frame("welcome", 2, s) EXCEPT !.end = 0]
    <3>1. Enter(f) /\ f.op = "welcome" /\ f.called = {}
      BY <1>3, <2>3 DEF Subscribe, Frame
    <3> HIDE DEF f
    <3> QED
      BY <2>1, <3>1, EnterWalks DEF Walks, Ops
  <2> QED
    BY <2>2, <2>3
<1>4. ASSUME NEW s \in Subscribers, Expire(s) PROVE WInv'
  <2>1. owned' \subseteq owned /\ UNCHANGED <<contract, list, stack>>
    BY <1>4 DEF Expire
  <2>2. \A k \in DOMAIN stack : Walks(stack[k], list, owned) => Walks(stack[k], list, owned')
    BY <2>1 DEF Walks
  <2> QED
    BY <2>1, <2>2 DEF WInv, Walking, AddOnTop, Level, Distinct
<1> QED
  BY <1>1, <1>2, <1>3, <1>4

\* A Subscriber is called: it is the entry that the loop has come to.
LEMMA CallWalks ==
  ASSUME TypeOK, WInv, Call
  PROVE  WInv'
<1>1. /\ stack # <<>> /\ Top.op \in Ops /\ Top.i <= Top.end
      /\ UNCHANGED <<contract, list, owned>>
  BY DEF Call, Looping, Ops, InLoop
<1>2. Top \in Frames /\ Walks(Top, list, owned)
  BY <1>1, TopFacts DEF WInv, Walking
<1>3. Entry \in Subscribers
  BY <1>1, <1>2 DEF Call, TypeOK, Entry, Frames, InLoop
<1>4. PICK f \in Frames : /\ GoOn(f) /\ f.op = Top.op /\ f.i = Top.i /\ f.end = Top.end
                          /\ f.at = Entry /\ f.due = Top.due /\ f.called = Top.called
  BY <1>2, <1>3 DEF Call, Frames
<1>5. Walks(f, list, owned)
  BY <1>1, <1>2, <1>4 DEF Walks, Entry, Ops
<1> QED
  BY <1>1, <1>4, <1>5, GoWalks

\* A Subscriber returns: it has been called, and the loop is behind it.
LEMMA ReturnWalks ==
  ASSUME IInv, WInv, Return
  PROVE  WInv'
<1>1. /\ stack # <<>> /\ Top.at # None /\ Top.op # "add" /\ TypeOK
      /\ UNCHANGED <<contract, list, owned>>
  BY DEF IInv, Return, Free
<1>2. /\ Top \in Frames /\ Walks(Top, list, owned) /\ Top.end <= Len(list)
      /\ list \in Seq(Subscribers)
  BY <1>1, TopFacts DEF IInv, EndsInside, WInv, Walking, TypeOK
<1>3. /\ Top.i \in Nat \ {0} /\ Top.end \in Nat /\ Top.at \in Subscribers
      /\ Top.called \cup {Top.at} \in SUBSET Subscribers /\ Len(list) \in Nat
  BY <1>1, <1>2 DEF Frames
<1>4. PICK f \in Frames : /\ GoOn(f) /\ f.op = Top.op /\ f.i = Top.i + 1 /\ f.end = Top.end
                          /\ f.at = None /\ f.due = Top.due
                          /\ f.called = Top.called \cup {Top.at}
  <2> DEFINE g == [Top EXCEPT !.at = None, !.i = @ + 1, !.called = @ \cup {Top.at}]
  <2>1. Top.i + 1 \in Nat \ {0}
    BY <1>3
  <2>2. /\ g \in Frames /\ g.op = Top.op /\ g.i = Top.i + 1 /\ g.end = Top.end
        /\ g.at = None /\ g.due = Top.due /\ g.called = Top.called \cup {Top.at}
    BY <1>2, <1>3, <2>1 DEF Frames
  <2> QED
    BY <2>2 DEF Return
<1>5. CASE Top.op \in Ops
  <2>1. Top.i <= Top.end /\ list[Top.i] = Top.at /\ Top.i \in DOMAIN list
    BY <1>1, <1>2, <1>3, <1>5 DEF Walks
  <2>2. ASSUME NEW s \in f.due \cap owned, s \notin f.called
        PROVE  \E j \in f.i .. f.end : list[j] = s
    <3>1. PICK j \in Top.i .. Top.end : list[j] = s
      BY <1>2, <1>4, <1>5, <2>2 DEF Walks
    <3>2. j # Top.i
      BY <1>4, <2>1, <2>2, <3>1
    <3>3. j \in f.i .. f.end
      BY <1>3, <1>4, <3>1, <3>2
    <3> QED
      BY <3>1, <3>3
  <2>3. ASSUME NEW s \in f.called
        PROVE  \E j \in DOMAIN list : j < f.i /\ list[j] = s
    <3>1. CASE s = Top.at
      BY <1>3, <1>4, <2>1, <3>1
    <3>2. CASE s \in Top.called
      <4>1. PICK j \in DOMAIN list : j < Top.i /\ list[j] = s
        BY <1>2, <1>5, <3>2 DEF Walks
      <4>2. j < f.i
        BY <1>2, <1>3, <1>4, <4>1
      <4> QED
        BY <4>1, <4>2
    <3> QED
      BY <1>4, <2>3, <3>1, <3>2
  <2>4. Walks(f, list, owned)
    BY <1>4, <1>5, <2>2, <2>3 DEF Walks, Ops
  <2> QED
    BY <1>1, <1>4, <2>4, GoWalks
<1>6. CASE Top.op = "welcome"
  <2>1. Walks(f, list, owned)
    BY <1>4, <1>6 DEF Walks, Ops
  <2> QED
    BY <1>1, <1>4, <2>1, GoWalks
<1> QED
  BY <1>1, <1>2, <1>5, <1>6 DEF Frames, Ops

\* An expired entry is removed: the entry that takes its place comes from the end
\* of the vector, which is the end of the loop.
LEMMA PruneWalks ==
  ASSUME IInv, WInv, Prune
  PROVE  WInv'
<1>1. /\ TypeOK /\ stack # <<>> /\ Top.op \in Ops \cup {"add"}
      /\ Top.op # "add" => Top.at = None
      /\ Entry \notin owned /\ UNCHANGED <<contract, owned>>
  BY PruneFacts DEF IInv, Ops
<1>2. /\ Top \in Frames /\ Top.i \in 1 .. Len(list) /\ Len(list) \in Nat \ {0}
      /\ list \in Seq(Subscribers)
  BY <1>1, PruneFacts
<1>3. /\ DOMAIN list = 1 .. Len(list)
      /\ Len(list') = Len(list) - 1 /\ DOMAIN list' = 1 .. (Len(list) - 1)
      /\ \A j \in DOMAIN list' : list'[j] = IF j = Top.i THEN list[Len(list)] ELSE list[j]
  BY <1>1, PruneFacts
<1>4. PICK f \in Frames : /\ GoOn(f) /\ f.op = Top.op /\ f.i = Top.i
                          /\ f.end = Top.end - 1 /\ f.at = Top.at
                          /\ f.due = Top.due /\ f.called = Top.called
  BY <1>1, PruneFacts
<1>5. "expire" \in contract
  <2>1. Entry \in Subscribers
    BY <1>2, <1>3 DEF Entry
  <2> QED
    BY <1>1, <2>1 DEF IInv, ExpireOrNest
<1>6. Len(stack) = 1
  <2>1. Len(stack) <= 1 /\ Len(stack) \in Nat \ {0}
    BY <1>1, <1>5, TopFacts DEF IInv, ExpireOrNest
  <2>2. \A n \in Nat \ {0} : n <= 1 => n = 1
    OBVIOUS
  <2> QED
    BY <2>1, <2>2, Zenon
<1>7. DOMAIN stack' = {1} /\ stack'[1] = f /\ Len(stack') = 1
  BY <1>1, <1>4, <1>6, Goes, ReplaceTop DEF GoOn, TypeOK
<1>8. Walks(Top, list, owned) /\ Top.end = Len(list)
  <2>1. Walks(Top, list, owned)
    BY <1>1, TopFacts DEF WInv, Walking
  <2> QED
    BY <1>1, <1>5, <2>1, TopFacts DEF WInv, Level, Walks
<1>9. \A j \in DOMAIN list : j < Top.i => j \in DOMAIN list' /\ list'[j] = list[j]
  BY <1>2, <1>3
<1>10. \A j \in DOMAIN list' : j < Top.i => j \in DOMAIN list /\ list'[j] = list[j]
  BY <1>2, <1>3
<1>11. ASSUME NEW j \in Top.i .. Top.end, list[j] \in owned
       PROVE  \E m \in f.i .. f.end : list'[m] = list[j]
  <2>1. j # Top.i
    BY <1>1, <1>11 DEF Entry
  <2>2. CASE j = Len(list)
    <3>1. Top.i \in f.i .. f.end /\ Top.i \in DOMAIN list'
      BY <1>2, <1>3, <1>4, <1>8, <2>1, <2>2
    <3> QED
      BY <1>3, <2>2, <3>1
  <2>3. CASE j # Len(list)
    <3>1. j \in f.i .. f.end /\ j \in DOMAIN list'
      BY <1>2, <1>3, <1>4, <1>8, <2>3
    <3> QED
      BY <1>3, <2>1, <3>1
  <2> QED
    BY <2>2, <2>3
<1>12. Walks(f, list', owned)
  <2>1. CASE Top.op \in Ops
    <3>1. \A s \in f.due \cap owned :
             s \in f.called \/ \E m \in f.i .. f.end : list'[m] = s
      BY <1>4, <1>8, <1>11, <2>1 DEF Walks
    <3>2. \A s \in f.called : \E j \in DOMAIN list' : j < f.i /\ list'[j] = s
      BY <1>4, <1>8, <1>9, <2>1 DEF Walks
    <3> QED
      BY <1>1, <1>4, <2>1, <3>1, <3>2 DEF Walks, Ops
  <2>2. CASE Top.op = "add"
    BY <1>3, <1>4, <1>8, <1>10, <2>2 DEF Walks, Ops
  <2> QED
    BY <1>1, <2>1, <2>2
<1>13. Distinct'
  <2>1. SUFFICES ASSUME NEW i \in DOMAIN list', NEW j \in DOMAIN list', list'[i] = list'[j]
                 PROVE  i = j
    BY DEF Distinct
  <2>2. /\ i \in DOMAIN list /\ j \in DOMAIN list /\ Len(list) \in DOMAIN list
        /\ i # Len(list) /\ j # Len(list)
    BY <1>2, <1>3
  <2> QED
    BY <1>3, <2>1, <2>2 DEF WInv, Distinct
<1> QED
  BY <1>1, <1>3, <1>4, <1>7, <1>8, <1>12, <1>13 DEF WInv, Walking, AddOnTop, Level

\* A newcomer is compared with an entry, or takes a place of its own.
LEMMA AddWalks ==
  ASSUME IInv, WInv, Compare \/ EndAdd
  PROVE  WInv'
<1>1. /\ TypeOK /\ stack # <<>> /\ Top.op = "add" /\ UNCHANGED <<contract, owned>>
  BY DEF IInv, Compare, EndAdd, Looping
<1>2. /\ Top \in Frames /\ Walks(Top, list, owned) /\ Top.end = Len(list)
      /\ list \in Seq(Subscribers) /\ Len(list) \in Nat /\ DOMAIN list = 1 .. Len(list)
  <2>1. Walks(Top, list, owned)
    BY <1>1, TopFacts DEF WInv, Walking
  <2> QED
    BY <1>1, <2>1, TopFacts DEF Walks, TypeOK
<1>3. CASE Compare
  <2>1. CASE Entry = Top.at
    BY <1>1, <1>3, <2>1, LeaveWalks DEF Compare
  <2>2. CASE Entry # Top.at
    <3>1. PICK f \in Frames : /\ GoOn(f) /\ f.op = Top.op /\ f.i = Top.i + 1
                              /\ f.end = Top.end /\ f.at = Top.at
      <4>1. /\ [Top EXCEPT !.i = @ + 1] \in Frames
            /\ [Top EXCEPT !.i = @ + 1].i = Top.i + 1
        BY <1>2 DEF Frames
      <4> QED
        BY <1>2, <1>3, <2>2, <4>1 DEF Compare, Frames
    <3>2. \A j \in DOMAIN list : j < f.i => j < Top.i \/ j = Top.i
      BY <1>2, <3>1 DEF Frames
    <3>3. Walks(f, list, owned)
      BY <1>1, <1>2, <2>2, <3>1, <3>2 DEF Walks, Entry, Ops
    <3> QED
      BY <1>1, <1>3, <3>1, <3>3, GoWalks DEF Compare
  <2> QED
    BY <2>1, <2>2
<1>4. CASE EndAdd
  <2>1. Leave /\ list' = Append(list, Top.at) /\ ~ (Top.i <= Top.end)
    BY <1>4 DEF EndAdd, InLoop
  <2>2. Top.at \in Subscribers
    BY <1>1, <1>2, TopFacts DEF IInv, AddsSomebody, Frames
  <2>3. /\ DOMAIN list' = 1 .. (Len(list) + 1) /\ list'[Len(list) + 1] = Top.at
        /\ \A j \in DOMAIN list : j \in DOMAIN list' /\ list'[j] = list[j]
        /\ \A j \in DOMAIN list' : j \in DOMAIN list \/ j = Len(list) + 1
    BY <1>2, <2>1, <2>2
  <2>4. \A j \in DOMAIN list : list[j] # Top.at
    <3>1. \A j \in DOMAIN list : j < Top.i
      BY <1>2, <2>1 DEF Frames
    <3> QED
      BY <1>1, <1>2, <3>1 DEF Walks
  <2>5. Distinct'
    BY <2>3, <2>4 DEF WInv, Distinct
  <2>6. Walking'
    <3>1. SUFFICES ASSUME NEW k \in DOMAIN stack' PROVE Walks(stack'[k], list', owned')
      BY DEF Walking
    <3>2. k \in DOMAIN stack /\ stack'[k] = stack[k] /\ k # Len(stack)
      BY <1>1, <2>1, Leaves
    <3>3. /\ stack[k] \in Frames /\ stack[k].op # "add" /\ stack[k].end <= Len(list)
          /\ Walks(stack[k], list, owned)
      BY <3>2 DEF WInv, Walking, AddOnTop, IInv, EndsInside, TypeOK
    <3>4. PICK f \in Frames : f = stack[k]
      BY <3>3
    <3>5. \A j \in f.i .. f.end : j \in DOMAIN list
      BY <1>2, <3>3, <3>4 DEF Frames
    <3>6. f.i <= f.end => f.i \in f.i .. f.end
      BY <3>4 DEF Frames
    <3>7. Walks(f, list', owned)
      <4>1. CASE f.op \in Ops
        <5>1. \A s \in f.due \cap owned :
                s \in f.called \/ \E j \in f.i .. f.end : list'[j] = s
          BY <2>3, <3>3, <3>4, <3>5, <4>1 DEF Walks
        <5>2. \A s \in f.called : \E j \in DOMAIN list' : j < f.i /\ list'[j] = s
          BY <2>3, <3>3, <3>4, <4>1 DEF Walks
        <5>3. f.at # None => f.i <= f.end /\ list'[f.i] = f.at
          BY <2>3, <3>3, <3>4, <3>5, <3>6, <4>1 DEF Walks
        <5> QED
          BY <4>1, <5>1, <5>2, <5>3 DEF Walks, Ops
      <4>2. CASE f.op \notin Ops
        BY <3>3, <3>4, <4>2 DEF Walks
      <4> QED
        BY <4>1, <4>2
    <3> QED
      BY <1>1, <3>2, <3>4, <3>7
  <2>7. AddOnTop'
    BY <1>1, <2>1, Leaves DEF WInv, AddOnTop
  <2>8. Level'
    <3>1. SUFFICES ASSUME "expire" \in contract PROVE DOMAIN stack' = {}
      BY <1>1 DEF Level
    <3>2. Len(stack) <= 1
      BY <3>1 DEF IInv, ExpireOrNest
    <3> QED
      BY <1>1, <2>1, <3>2, Leaves
  <2> QED
    BY <2>5, <2>6, <2>7, <2>8 DEF WInv
<1> QED
  BY <1>3, <1>4

\* A loop ends; the last one of the Publisher that ends has the vector to itself.
LEMMA EndWalks ==
  ASSUME IInv, WInv, Throw \/ EndPublish \/ EndHandler \/ EndFinish
  PROVE  WInv'
<1>1. TypeOK /\ stack # <<>> /\ UNCHANGED <<contract, owned>>
  BY DEF IInv, Throw, EndPublish, EndHandler, EndFinish, Looping
<1>2. CASE Throw \/ EndPublish
  BY <1>1, <1>2, LeaveWalks DEF Throw, EndPublish
<1>3. ASSUME Top.op \in {"complete", "error"} PROVE Len(stack) = 1
  BY <1>1, <1>3, TopFacts DEF IInv, FinishIsOutermost
<1>4. CASE EndHandler
  <2>1. Top.op \in {"complete", "error"} /\ list' = list /\ GoOn(Frame(Top.op, 2, None))
    BY <1>4 DEF EndHandler, Looping
  <2>2. PICK f \in Frames : /\ GoOn(f) /\ Walks(f, list, owned)
                            /\ f.op = Top.op /\ f.end = Len(list)
    BY <1>1, <2>1, FirstStep DEF Ops
  <2>3. DOMAIN stack' = {1} /\ stack'[1] = f /\ f.op # "add"
    BY <1>1, <1>3, <2>1, <2>2, Goes
  <2> QED
    BY <1>1, <2>1, <2>2, <2>3 DEF WInv, Walking, AddOnTop, Level, Distinct
<1>5. CASE EndFinish
  <2>1. stack' = <<>> /\ list' = <<>>
    BY <1>1, <1>3, <1>5, Leaves DEF EndFinish, Looping
  <2> QED
    BY <2>1 DEF WInv, Walking, AddOnTop, Level, Distinct
<1> QED
  BY <1>2, <1>4, <1>5

\* Every step keeps the loops in order.
LEMMA WalksNext ==
  ASSUME IInv, WInv, [Next]_vars
  PROVE  WInv'
<1>1. TypeOK
  BY DEF IInv
<1>2. CASE UNCHANGED vars
  BY <1>2 DEF vars, WInv, Walking, AddOnTop, Level, Distinct
<1>3. CASE Next
  BY <1>1, <1>3, CallerWalks, CallWalks, ReturnWalks, PruneWalks, AddWalks, EndWalks
     DEF Next, Loops
<1> QED
  BY <1>2, <1>3

\* What the invariant says of the loop on top and of everybody who is called.
LEMMA WalksOnce ==
  ASSUME IInv, WInv
  PROVE  EverybodyIsCalledOnce
<1>1. TypeOK
  BY DEF IInv
<1>2. ASSUME stack # <<>>, Looping(Ops), ~ InLoop
      PROVE  Top.due \cap owned \subseteq Top.called
  <2>1. Top \in Frames /\ Walks(Top, list, owned) /\ Top.op \in Ops
    BY <1>1, <1>2, TopFacts DEF Looping, WInv, Walking
  <2>2. ~ (\E j \in Top.i .. Top.end : TRUE)
    BY <1>2, <2>1 DEF InLoop, Frames
  <2> QED
    BY <2>1, <2>2 DEF Walks
<1>3. ASSUME NEW k \in DOMAIN stack, stack[k].op # "add"
      PROVE  stack[k].at \notin stack[k].called
  <2>1. PICK f \in Frames : f = stack[k]
    BY <1>1 DEF TypeOK
  <2>2. /\ Walks(f, list, owned) /\ f.end <= Len(list)
        /\ f.op \in Ops \/ f.op = "welcome"
    BY <1>3, <2>1 DEF WInv, Walking, IInv, EndsInside, Frames, Ops
  <2>3. f.at = None => f.at \notin f.called
    BY NoneAssumption, <2>1 DEF Frames
  <2>4. CASE f.op \in Ops /\ f.at # None
    <3>1. /\ f.i <= f.end /\ list[f.i] = f.at
          /\ \A s \in f.called : \E j \in DOMAIN list : j < f.i /\ list[j] = s
      BY <2>2, <2>4 DEF Walks
    <3>2. f.i \in DOMAIN list /\ \A j \in DOMAIN list : j < f.i => j # f.i
      BY <1>1, <2>2, <3>1, <2>1 DEF Frames, TypeOK
    <3> QED
      BY <2>1, <3>1, <3>2 DEF WInv, Distinct
  <2>5. CASE f.op = "welcome"
    BY <2>1, <2>2, <2>3, <2>5 DEF Walks
  <2> QED
    BY <2>1, <2>2, <2>3, <2>4, <2>5
<1> QED
  BY <1>2, <1>3 DEF EverybodyIsCalledOnce, Ops

-----------------------------------------------------------------------------
(* Theorems *)

\* The invariant holds in every reachable state if the contracts are safe.
THEOREM Invariance ==
  ASSUME Safe
  PROVE  Spec => []IInv
<1>1. ASSUME IInv, [Next]_vars PROVE IInv'
  <2>1. CASE UNCHANGED vars
    BY <1>1, <2>1 DEF vars, IInv, TypeOK, EndsInside, FinishIsOutermost, AddsSomebody,
                      ExpireOrNest
  <2>2. CASE Prune
    BY <1>1, <2>2, PruneStep
  <2>3. CASE Call \/ Compare \/ EndAdd \/ EndPublish \/ EndHandler \/ EndFinish
    BY <1>1, <2>3, LoopStep
  <2>4. CASE Publish \/ Finish("complete") \/ Finish("error")
               \/ \E s \in Subscribers : Subscribe(s)
    BY <1>1, <2>4, CallerStep
  <2>5. CASE Return \/ Throw \/ \E s \in Subscribers : Expire(s)
    BY <1>1, <2>5, SubscriberStep
  <2> QED
    BY <1>1, <2>1, <2>2, <2>3, <2>4, <2>5 DEF Next, Loops
<1> QED
  BY InitIInv, <1>1, PTL DEF Spec

\* Every variable keeps its type, and the entries of the vector are Subscribers.
THEOREM Typing ==
  ASSUME Safe
  PROVE  Spec => []TypeOK
BY Invariance, PTL DEF IInv

\* No loop of on_each or add reads behind the end of the vector, for every
\* number of Subscribers and every nesting that the contract allows.
THEOREM MemorySafety ==
  ASSUME Safe
  PROVE  Spec => []NoOverrun
<1>1. ASSUME IInv PROVE NoOverrun
  <2>1. SUFFICES ASSUME stack # <<>>, InLoop PROVE Top.i <= Len(list)
    BY DEF NoOverrun
  <2>2. Top \in Frames /\ Top.end <= Len(list) /\ list \in Seq(Subscribers)
    BY <1>1, <2>1, TopFacts DEF IInv, TypeOK, EndsInside
  <2>3. Top.i \in Nat /\ Top.end \in Nat /\ Len(list) \in Nat
    BY <2>2 DEF Frames
  <2> QED
    BY <2>1, <2>2, <2>3 DEF InLoop
<1> QED
  BY <1>1, Invariance, PTL

\* Nobody gets on_next after the end, for every number of Subscribers and every
\* nesting that the contract allows.
THEOREM NothingAfterEnd ==
  ASSUME Safe
  PROVE  Spec => []NoNextAfterEnd
<1>1. Init => Published
  BY DEF Init, Published
<1>2. IInv /\ Published /\ [Next]_vars => Published'
  BY PublishedNext
<1>3. IInv /\ Published => NoNextAfterEnd
  BY TopFacts DEF IInv, Published, NoNextAfterEnd
<1> QED
  BY Invariance, <1>1, <1>2, <1>3, PTL DEF Spec

\* When the last loop of a Publisher that has ended is over, it has told everybody
\* whom it ever accepted, if they still exist and none of them throws.
THEOREM EverybodyHears ==
  ASSUME Safe
  PROVE  Spec => []EverybodyIsTold
<1>1. Init => Told
  BY DEF Init, Told, Begun, Ended, Known
<1>2. IInv /\ Told /\ [Next]_vars => Told'
  BY ToldNext
<1>3. Told => EverybodyIsTold
  BY DEF Told, Ended, Known, EverybodyIsTold
<1> QED
  BY Invariance, <1>1, <1>2, <1>3, PTL DEF Spec

\* A loop calls everybody who was there when it began and is owned until it ends,
\* and nobody twice, although it moves entries, for every number of Subscribers and
\* every nesting that the contract allows.
THEOREM EverybodyOnce ==
  ASSUME Safe
  PROVE  Spec => []EverybodyIsCalledOnce
<1>1. Init => WInv
  BY DEF Init, WInv, Walking, AddOnTop, Level, Distinct
<1>2. IInv /\ WInv /\ [Next]_vars => WInv'
  BY WalksNext
<1>3. IInv /\ WInv => EverybodyIsCalledOnce
  BY WalksOnce
<1> QED
  BY Invariance, <1>1, <1>2, <1>3, PTL DEF Spec
=============================================================================
