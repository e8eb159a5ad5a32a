------------------------------ MODULE Publisher ------------------------------
(***************************************************************************)
(* A Publisher with several Subscribers,                                   *)
(* src/include/notf/reactive/publisher.hpp.                                *)
(*                                                                         *)
(* The Publisher calls its Subscribers in a loop over a vector of weak     *)
(* pointers, and each of them may call the Publisher again before it       *)
(* returns: the loops that are running form a stack, and only the topmost  *)
(* one goes on.  A Subscriber that is being called is kept alive by its    *)
(* loop.  Subscribers of a subclass that overrides the virtual handlers    *)
(* are not modelled, nor are published values.                             *)
(***************************************************************************)
EXTENDS Naturals, SequencesExt

CONSTANTS Subscribers,
          None,       \* no Subscriber
          Contracts,  \* sets of the calls that Subscribers make, see Calls
          MaxDepth    \* bound: loops inside of each other

\* What a Subscriber may do while it is being called.  With "expire" Subscribers
\* may expire at any time; the others are always made from outside.
Calls == {"publish", "complete", "error", "subscribe", "expire", "throw"}

ASSUME NoneAssumption == None \notin Subscribers
ASSUME ContractsAssumption == Contracts \subseteq SUBSET Calls
ASSUME DepthAssumption == MaxDepth \in Nat \ {0}

VARIABLES
  contract,  \* what Subscribers do
  list,      \* m_subscribers
  state,     \* m_reactive_state
  owned,     \* Subscribers that are owned by somebody
  stack,     \* the loops
  accepted,  \* history: Subscribers that subscribe() has accepted
  told       \* history: Subscribers whose on_complete or on_error was called

vars == <<contract, list, state, owned, stack, accepted, told>>

\* A loop: "add" is the one of MultiSubscriber::add, "welcome" stands for the
\* call of on_complete for a Subscriber that comes too late.  pass is 2 in the
\* second loop of error and complete.  due and called are history: whom the
\* loop has to call, and whom it has called.
Frames == [op : {"publish", "complete", "error", "add", "welcome"},
           pass : {1, 2}, i : Nat \ {0}, end : Nat, at : Subscribers \cup {None},
           due : SUBSET Subscribers, called : SUBSET Subscribers]

\* lock() of a weak pointer
Alive(s) == s \in owned \/ \E k \in DOMAIN stack : stack[k].at = s

Frame(op, pass, at) ==
  [op |-> op, pass |-> pass, i |-> 1, end |-> Len(list), at |-> at,
   due |-> {s \in Subscribers : Alive(s) /\ Contains(list, s)}, called |-> {}]

Top == Last(stack)

\* Code outside of the loops can go on: there is none, or a Subscriber is called.
Free == stack # <<>> => Top.op # "add" /\ Top.at # None

\* Whoever runs may make the call.
May(op) == Free /\ (stack # <<>> => op \in contract)

Enter(frame) == Len(stack) < MaxDepth /\ stack' = Append(stack, frame)

Leave == stack' = Front(stack)

GoOn(frame) == stack' = Append(Front(stack), frame)

Init ==
  /\ contract \in Contracts
  /\ list = <<>>
  /\ state = "RUNNING"
  /\ owned = Subscribers
  /\ stack = <<>>
  /\ accepted = {}
  /\ told = {}

-----------------------------------------------------------------------------
(* Calls, from outside or by a Subscriber that is being called *)

\* Mutant of Publish: a Publisher that has ended still publishes.
PublishAnyway ==
  /\ May("publish")
  /\ Enter(Frame("publish", 1, None))
  /\ UNCHANGED <<contract, list, state, owned, accepted, told>>

Publish ==
  /\ May("publish") /\ state = "RUNNING"
  /\ Enter(Frame("publish", 1, None))
  /\ UNCHANGED <<contract, list, state, owned, accepted, told>>

Finish(op) ==
  /\ May(op) /\ state = "RUNNING"
  /\ Enter(Frame(op, 1, None))
  /\ UNCHANGED <<contract, list, state, owned, accepted, told>>

\* A Publisher that has completed only tells the newcomer so.
Subscribe(s) ==
  /\ May("subscribe") /\ s \in owned
  /\ \/ /\ state = "RUNNING"
        /\ Enter(Frame("add", 1, s))
        /\ UNCHANGED <<accepted, told>>
     \/ /\ state # "RUNNING"
        /\ Enter([Frame("welcome", 2, s) EXCEPT !.end = 0])
        /\ accepted' = accepted \cup {s}
        /\ told' = told \cup {s}
  /\ UNCHANGED <<contract, list, state, owned>>

\* The last owner of a Subscriber lets go of it.
Expire(s) ==
  /\ "expire" \in contract /\ s \in owned
  /\ owned' = owned \ {s}
  /\ UNCHANGED <<contract, list, state, stack, accepted, told>>

\* The Subscriber returns, or lets an exception through, which ends the loop
\* and reaches whoever has called the Publisher.
Return ==
  /\ stack # <<>> /\ Free
  /\ GoOn([Top EXCEPT !.at = None, !.i = @ + 1, !.called = @ \cup {Top.at}])
  /\ UNCHANGED <<contract, list, state, owned, accepted, told>>

Throw ==
  /\ stack # <<>> /\ Free /\ "throw" \in contract
  /\ Leave
  /\ UNCHANGED <<contract, list, state, owned, accepted, told>>

-----------------------------------------------------------------------------
(* The loops *)

Looping(ops) == stack # <<>> /\ Top.op \in ops
                  /\ (Top.op # "add" => Top.at = None)

InLoop == Top.i <= Top.end

Entry == list[Top.i]

Call ==
  /\ Looping({"publish", "complete", "error"}) /\ InLoop /\ Top.i <= Len(list)
  /\ Alive(Entry)
  /\ GoOn([Top EXCEPT !.at = Entry])
  /\ told' = IF Top.op = "publish" THEN told ELSE told \cup {Entry}
  /\ UNCHANGED <<contract, list, state, owned, accepted>>

\* Mutant of Prune: the Subscriber that takes the free place is passed over.
PruneAndSkip ==
  /\ Looping({"publish", "complete", "error", "add"}) /\ InLoop /\ Top.i <= Len(list)
  /\ ~ Alive(Entry)
  /\ list' = Front(ReplaceAt(list, Top.i, Last(list)))
  /\ GoOn([Top EXCEPT !.end = @ - 1, !.i = @ + 1])
  /\ UNCHANGED <<contract, state, owned, accepted, told>>

\* Mutant of Prune: the end of the loop stays where it was.
PruneOnly ==
  /\ Looping({"publish", "complete", "error", "add"}) /\ InLoop /\ Top.i <= Len(list)
  /\ ~ Alive(Entry)
  /\ list' = Front(ReplaceAt(list, Top.i, Last(list)))
  /\ UNCHANGED <<contract, state, owned, stack, accepted, told>>

\* Mutant of Prune: the end of the loop moves once too often.
PruneTwo ==
  /\ Looping({"publish", "complete", "error", "add"}) /\ InLoop /\ Top.i <= Len(list)
  /\ ~ Alive(Entry)
  /\ list' = Front(ReplaceAt(list, Top.i, Last(list)))
  /\ GoOn([Top EXCEPT !.end = @ - 2])
  /\ UNCHANGED <<contract, state, owned, accepted, told>>

\* The last entry takes the place of an expired one.
Prune ==
  /\ Looping({"publish", "complete", "error", "add"}) /\ InLoop /\ Top.i <= Len(list)
  /\ ~ Alive(Entry)
  /\ list' = Front(ReplaceAt(list, Top.i, Last(list)))
  /\ GoOn([Top EXCEPT !.end = @ - 1])
  /\ UNCHANGED <<contract, state, owned, accepted, told>>

\* MultiSubscriber::add compares the newcomer with every valid entry.
Compare ==
  /\ Looping({"add"}) /\ InLoop /\ Top.i <= Len(list) /\ Alive(Entry)
  /\ IF Entry = Top.at THEN Leave ELSE GoOn([Top EXCEPT !.i = @ + 1])
  /\ UNCHANGED <<contract, list, state, owned, accepted, told>>

EndAdd ==
  /\ Looping({"add"}) /\ ~ InLoop
  /\ list' = Append(list, Top.at)
  /\ accepted' = accepted \cup {Top.at}
  /\ Leave
  /\ UNCHANGED <<contract, state, owned, told>>

EndPublish ==
  /\ Looping({"publish", "welcome"}) /\ ~ InLoop
  /\ Leave
  /\ UNCHANGED <<contract, list, state, owned, accepted, told>>

Final(op) == IF op = "error" THEN "FAILED" ELSE "COMPLETED"

\* Mutant of EndHandler: there is only the loop of the virtual handler.
EndHandlerAtOnce ==
  /\ Looping({"complete", "error"}) /\ ~ InLoop /\ Top.pass = 1
  /\ state' = Final(Top.op)
  /\ list' = <<>>
  /\ Leave
  /\ UNCHANGED <<contract, owned, accepted, told>>

\* The virtual handler returns; the state changes and the second loop begins.
EndHandler ==
  /\ Looping({"complete", "error"}) /\ ~ InLoop /\ Top.pass = 1
  /\ state' = Final(Top.op)
  /\ GoOn(Frame(Top.op, 2, None))
  /\ UNCHANGED <<contract, list, owned, accepted, told>>

EndFinish ==
  /\ Looping({"complete", "error"}) /\ ~ InLoop /\ Top.pass = 2
  /\ list' = <<>>
  /\ Leave
  /\ UNCHANGED <<contract, state, owned, accepted, told>>

-----------------------------------------------------------------------------
Loops == Call \/ Prune \/ Compare \/ EndAdd \/ EndPublish \/ EndHandler \/ EndFinish

Next ==
  \/ Publish \/ Finish("complete") \/ Finish("error")
  \/ \E s \in Subscribers : Subscribe(s) \/ Expire(s)
  \/ Return \/ Throw
  \/ Loops

Spec == Init /\ [][Next]_vars

-----------------------------------------------------------------------------
(* Properties *)

\* The variables have their types; whoever is being called exists.
TypeOK ==
  /\ contract \in Contracts
  /\ list \in Seq(Subscribers)
  /\ state \in {"RUNNING", "COMPLETED", "FAILED"}
  /\ owned \in SUBSET Subscribers
  /\ stack \in Seq(Frames) /\ Len(stack) <= MaxDepth
  /\ accepted \in SUBSET Subscribers
  /\ told \in SUBSET Subscribers

\* No loop reads behind the end of the vector, however the calls are nested
\* (publisher.hpp:67).  Where it does, the model stops.
NoOverrun ==
  stack # <<>> /\ InLoop /\ (Top.op # "add" => Top.at = None) => Top.i <= Len(list)

\* A loop calls every Subscriber that was valid when it began and is owned until
\* it ends (publisher.hpp:66 "call the given lambda on all valid subscribers"),
\* however many have expired meanwhile, and nobody twice, although it moves the
\* entries around.
EverybodyIsCalledOnce ==
  /\ stack # <<>> /\ Looping({"publish", "complete", "error"}) /\ ~ InLoop =>
       Top.due \cap owned \subseteq Top.called
  /\ \A k \in DOMAIN stack : stack[k].op # "add" => stack[k].at \notin stack[k].called

\* Nobody waits for a Publisher that has ended: each Subscriber that it has
\* accepted and that still exists has been told so, also one that subscribed in
\* the middle of the end, and the Publisher has let go of all of them.  An
\* exception of a Subscriber may prevent that.
EverybodyIsTold ==
  state # "RUNNING" /\ stack = <<>> /\ "throw" \notin contract =>
    /\ list = <<>>
    /\ accepted \cap owned \subseteq told

\* A value is published only while the Publisher is running: nobody gets on_next
\* after the end, also if an exception has kept the Subscribers in the list.
NoNextAfterEnd ==
  stack # <<>> /\ Top.op = "publish" /\ Top.at # None => state = "RUNNING"
=============================================================================
