----------------------------- MODULE GraphSync ------------------------------
(***************************************************************************)
(* The double-buffered Graph, src/src/app/graph/graph.cpp and any_node.cpp.*)
(*                                                                         *)
(* Every Node has Data that the render thread reads, and while it is being *)
(* changed a modified copy that only the ui thread sees.  The same holds   *)
(* for the value of each Property.  A changed Node is marked dirty, and    *)
(* Graph::synchronize moves the copies of all dirty Nodes back, under the  *)
(* mutex that the render thread holds during a frame.                      *)
(*                                                                         *)
(* Nodes are reference counted: the children vectors in Data and in the    *)
(* copies hold them.  A Node may store the NodeOwner of another Node and   *)
(* removes that one when it is destroyed itself (Owner).                   *)
(***************************************************************************)
EXTENDS ZOrder, FiniteSets

CONSTANTS Nodes, Root,
          Props,        \* every Property
          Values,       \* their values
          Default,      \* the value each of them starts with
          None,         \* no modified copy, no owner
          NodeOf,       \* the Node of each Property
          VisibleProps, \* Properties that are not INVISIBLE
          Flagged,      \* Nodes that use their user flag
          Movable,      \* Nodes whose parent changes
          Owner         \* the Node that stores the NodeOwner of each Node

ASSUME NodesAssumption == Root \in Nodes /\ IsFiniteSet(Nodes)
ASSUME PropsAssumption ==
  /\ Default \in Values
  /\ NodeOf \in [Props -> Nodes] /\ VisibleProps \subseteq Props
ASSUME OwnerAssumption == Owner \in [Nodes -> Nodes \cup {None}]
ASSUME SubsetAssumption == Flagged \subseteq Nodes /\ Movable \subseteq Nodes \ {Root}

Data == [parent : Nodes, children : Seq(Nodes), flag : BOOLEAN, dirty : BOOLEAN]

ASSUME NoneAssumption == None \notin Nodes \cup Values \cup Data

VARIABLES
  state,     \* of each Node: "unborn", "alive" or "dead"
  data,      \* m_data of each Node
  copy,      \* m_modified_data of each Node, or None
  value,     \* m_value of each Property
  modified,  \* m_modified_value of each Property, or None
  dirty,     \* m_dirty_nodes
  todo,      \* the dirty Nodes that the loop in synchronize has yet to visit
  syncing,   \* the ui thread is in synchronize and holds the Graph's mutex
  frame      \* the render thread draws a frame and holds the Graph's mutex

vars == <<state, data, copy, value, modified, dirty, todo, syncing, frame>>

Blank == [parent |-> Root, children |-> <<>>, flag |-> FALSE, dirty |-> FALSE]

Alive == {n \in Nodes : state[n] = "alive"}

Elements(s) == {s[i] : i \in 1 .. Len(s)}

\* What the ui thread sees of a Node, and of a Property.
View(n) == IF copy[n] = None THEN data[n] ELSE copy[n]
Current(p) == IF modified[p] = None THEN value[p] ELSE modified[p]

Init ==
  /\ state = [n \in Nodes |-> IF n = Root THEN "alive" ELSE "unborn"]
  /\ data = [n \in Nodes |-> Blank]
  /\ copy = [n \in Nodes |-> None]
  /\ value = [p \in Props |-> Default]
  /\ modified = [p \in Props |-> None]
  /\ dirty = {Root}
  /\ todo = {}
  /\ syncing = FALSE
  /\ frame = FALSE

-----------------------------------------------------------------------------
(* Destruction *)

\* Mutant of Held: the copy takes the children over instead of sharing them.
HeldOnce(dat, cop, n) ==
  IF cop[n] = None THEN Elements(dat[n].children) ELSE Elements(cop[n].children)

\* The Nodes that Node n keeps alive.
Held(dat, cop, n) ==
  Elements(dat[n].children) \cup
    (IF cop[n] = None THEN {} ELSE Elements(cop[n].children))

\* The copies after the Nodes D were destroyed and the NodeOwners they stored
\* have removed their Nodes from their parents.  A removal from the Node that
\* synchronize is moving ("busy") meets an empty vector and does nothing.
Evict(cop, D, busy) ==
  LET Seen(n) == IF cop[n] = None THEN data[n] ELSE cop[n]
      Lost(n) == {o \in Elements(Seen(n).children) : Owner[o] \in D /\ View(o).parent = n}
  IN IF \A o \in Alive : Owner[o] \notin D THEN cop
     ELSE [n \in Nodes |->
             IF n \in Alive \ (D \cup {busy}) /\ Lost(n) # {}
             THEN [Seen(n) EXCEPT !.children = Without(@, Lost(n)), !.dirty = TRUE]
             ELSE cop[n]]

\* The Nodes that lose their last holder when the Nodes D are destroyed.
Freed(dat, cop, busy, D) ==
  LET kept == Evict(cop, D, busy)
  IN (Alive \ {Root}) \ UNION {Held(dat, kept, h) : h \in Alive \ D}

\* The Nodes that are destroyed: the least set that contains all that it frees.
\* Nodes that hold each other are never destroyed.
Destroyed(dat, cop, busy) ==
  {n \in Alive : \A D \in SUBSET Alive : Freed(dat, cop, busy, D) \subseteq D => n \in D}

IsDirty(cop, n) == IF cop[n] = None THEN data[n].dirty ELSE cop[n].dirty

\* What becomes of the Nodes once their data and copies have changed to dat and
\* cop; marked are the dirty Nodes so far.
Settle(dat, cop, marked, busy) ==
  \E D \in {Destroyed(dat, cop, busy)} : \E kept \in {Evict(cop, D, busy)} :
    /\ state' = [n \in Nodes |-> IF n \in D THEN "dead" ELSE state[n]]
    /\ data' = [n \in Nodes |-> IF n \in D THEN Blank ELSE dat[n]]
    /\ copy' = [n \in Nodes |-> IF n \in D THEN None ELSE kept[n]]
    /\ dirty' = marked \cup {n \in Alive \ D : kept[n] # cop[n] /\ ~ IsDirty(cop, n)}

-----------------------------------------------------------------------------
(* The ui thread changes the Graph *)

\* Mutant of Mark: a Node that has a modified copy is taken to be dirty.
MarkUncopied(n, marked) == IF copy[n] = None THEN marked \cup {n} ELSE marked

\* _set_dirty: only the first change of a Node is registered with the Graph.
Mark(n, marked) == IF View(n).dirty THEN marked ELSE marked \cup {n}

\* The modified copy of Node n after its children have been changed.
WithChildren(n, s) == [View(n) EXCEPT !.children = s, !.dirty = TRUE]

Ui == ~ syncing /\ UNCHANGED <<value, modified, todo, syncing, frame>>

\* _create_child: a Node is registered when it is complete, and is dirty from
\* the start without carrying the flag.  Its NodeOwner is stored at once.
CreateChild(p, c) ==
  /\ Ui
  /\ state[p] = "alive" /\ state[c] = "unborn"
  /\ Owner[c] # None => state[Owner[c]] = "alive"
  /\ state' = [state EXCEPT ![c] = "alive"]
  /\ data' = [data EXCEPT ![c].parent = p]
  /\ copy' = [copy EXCEPT ![p] = WithChildren(p, Append(View(p).children, c))]
  /\ dirty' = Mark(p, dirty \cup {c})

\* remove, by the Node's handle or its NodeOwner.
RemoveChild(c) ==
  LET p == View(c).parent
  IN /\ Ui
     /\ state[c] = "alive" /\ state[p] = "alive"
     /\ c \in Elements(View(p).children)
     /\ Settle(data,
               [copy EXCEPT ![p] = WithChildren(p, Erase(View(p).children,
                                                         IndexOf(View(p).children, c)))],
               Mark(p, dirty), None)

\* Also Graph::clear, for the root.
ClearChildren(p) ==
  /\ Ui
  /\ state[p] = "alive" /\ View(p).children # <<>>
  /\ Settle(data, [copy EXCEPT ![p] = WithChildren(p, <<>>)], Mark(p, dirty), None)

\* Mutant of Reparent: the Node stays among the children of its old parent.
ReparentBoth(c, p, q) ==
  [copy EXCEPT ![q] = WithChildren(q, Append(View(q).children, c)),
               ![c] = [(IF c = q THEN WithChildren(q, Append(View(q).children, c)) ELSE View(c))
                         EXCEPT !.parent = q]]

\* The copies after Node c moved from the children of p to those of q.
Reparent(c, p, q) ==
  LET added == [copy EXCEPT ![q] = WithChildren(q, Append(View(q).children, c))]
      removed == IF c \in Elements(View(p).children)
                 THEN [added EXCEPT ![p] = WithChildren(p, Erase(View(p).children,
                                                           IndexOf(View(p).children, c)))]
                 ELSE added
      moved == IF removed[c] = None THEN data[c] ELSE removed[c]
  IN [removed EXCEPT ![c] = [moved EXCEPT !.parent = q]]

\* _set_parent.  The moved Node itself is not marked as dirty.
SetParent(c, q) ==
  LET p == View(c).parent
      marked == Mark(q, dirty)
  IN /\ Ui
     /\ c \in Movable /\ state[c] = "alive" /\ state[q] = "alive" /\ q # p
     /\ state[p] = "alive"
     /\ Settle(data, Reparent(c, p, q),
               IF c \in Elements(View(p).children) THEN Mark(p, marked) ELSE marked, None)

\* The stacking functions change nothing about a Node that is in its place.
Restack(c, s) ==
  LET p == View(c).parent
  IN /\ Ui
     /\ copy' = [copy EXCEPT ![p] = WithChildren(p, s)]
     /\ dirty' = Mark(p, dirty)
     /\ UNCHANGED <<state, data>>

Siblings(c) == View(View(c).parent).children

Stackable(c) ==
  /\ state[c] = "alive" /\ state[View(c).parent] = "alive"
  /\ c \in Elements(Siblings(c))

StackFrontOf(c) ==
  /\ Stackable(c) /\ ~ IsInFront(Siblings(c), c)
  /\ Restack(c, StackFront(Siblings(c), c))

StackBackOf(c) ==
  /\ Stackable(c) /\ ~ IsInBack(Siblings(c), c)
  /\ Restack(c, StackBack(Siblings(c), c))

StackNextTo(c, d) ==
  /\ Stackable(c) /\ Stackable(d) /\ c # d /\ View(c).parent = View(d).parent
  /\ \/ Restack(c, StackBefore(Siblings(c), c, d))
     \/ Restack(c, StackBehind(Siblings(c), c, d))

SetFlag(n) ==
  /\ Ui
  /\ n \in Flagged /\ state[n] = "alive"
  /\ \E b \in BOOLEAN :
       copy' = [copy EXCEPT ![n] = [View(n) EXCEPT !.flag = b, !.dirty = TRUE]]
  /\ dirty' = Mark(n, dirty)
  /\ UNCHANGED <<state, data>>

\* PropertyOperator::set, with a value that the Property does not have.  The
\* callback of the Property may replace it, even by the one it has.  Only a
\* visible Property is observed by its Node.
SetProperty(p, v) ==
  LET n == NodeOf[p]
  IN /\ ~ syncing
     /\ state[n] = "alive"
     /\ modified' = [modified EXCEPT ![p] = v]
     /\ IF p \in VisibleProps
        THEN /\ copy' = [copy EXCEPT ![n] = [View(n) EXCEPT !.dirty = TRUE]]
             /\ dirty' = Mark(n, dirty)
        ELSE UNCHANGED <<copy, dirty>>
     /\ UNCHANGED <<state, data, value, todo, syncing, frame>>

-----------------------------------------------------------------------------
(* Graph::synchronize *)

\* Mutant of SyncBegin: the dirty Nodes are cleared without the mutex.
SyncBeginUnlocked ==
  /\ ~ syncing /\ dirty # {}
  /\ syncing' = TRUE
  /\ todo' = dirty
  /\ UNCHANGED <<state, data, copy, value, modified, dirty, frame>>

SyncBegin ==
  /\ ~ syncing /\ ~ frame /\ dirty # {}
  /\ syncing' = TRUE
  /\ todo' = dirty
  /\ UNCHANGED <<state, data, copy, value, modified, dirty, frame>>

\* The DIRTY flag is cleared on a new modified copy.
Clean(d) == [d EXCEPT !.dirty = FALSE]

\* Mutant of ClearModifiedProperties: the values stay where they are.
ClearNoProperties(n) == UNCHANGED <<value, modified>>

ClearModifiedProperties(n) ==
  /\ value' = [p \in Props |-> IF NodeOf[p] = n THEN Current(p) ELSE value[p]]
  /\ modified' = [p \in Props |-> IF NodeOf[p] = n THEN None ELSE modified[p]]

\* _clear_modified_data.  Nodes that only the old data held are destroyed, and
\* that may mark further Nodes as dirty: whether the running loop visits a new
\* element is up to the hash set.
ClearModifiedData(n) ==
  /\ Settle([data EXCEPT ![n] = View(n)], [copy EXCEPT ![n] = Clean(View(n))], dirty, n)
  /\ ClearModifiedProperties(n)
  /\ \E seen \in SUBSET (dirty' \ dirty) : todo' = (todo \ {n}) \cup seen

\* The handle of a Node that is gone is skipped.
SyncNode(n) ==
  /\ syncing /\ n \in todo
  /\ \/ /\ state[n] = "alive"
        /\ ClearModifiedData(n)
     \/ /\ state[n] # "alive"
        /\ todo' = todo \ {n}
        /\ UNCHANGED <<state, data, copy, value, modified, dirty>>
  /\ UNCHANGED <<syncing, frame>>

SyncEnd ==
  /\ syncing /\ todo = {}
  /\ syncing' = FALSE
  /\ dirty' = {}
  /\ UNCHANGED <<state, data, copy, value, modified, todo, frame>>

-----------------------------------------------------------------------------
(* The render thread *)

BeginFrame ==
  /\ ~ frame /\ ~ syncing
  /\ frame' = TRUE
  /\ UNCHANGED <<state, data, copy, value, modified, dirty, todo, syncing>>

EndFrame ==
  /\ frame
  /\ frame' = FALSE
  /\ UNCHANGED <<state, data, copy, value, modified, dirty, todo, syncing>>

-----------------------------------------------------------------------------
Hierarchy ==
  \E c \in Nodes \ {Root} :
    \/ RemoveChild(c) \/ StackFrontOf(c) \/ StackBackOf(c)
    \/ \E n \in Nodes : CreateChild(n, c) \/ SetParent(c, n) \/ StackNextTo(c, n)

Synchronize == SyncBegin \/ SyncEnd \/ \E n \in Nodes : SyncNode(n)

Next ==
  \/ Hierarchy
  \/ \E n \in Nodes : ClearChildren(n) \/ SetFlag(n)
  \/ \E p \in Props, v \in Values : SetProperty(p, v)
  \/ Synchronize
  \/ BeginFrame \/ EndFrame

Spec == Init /\ [][Next]_vars

-----------------------------------------------------------------------------
(* Properties *)

\* The variables have their types.
TypeOK ==
  /\ state \in [Nodes -> {"unborn", "alive", "dead"}]
  /\ data \in [Nodes -> Data]
  /\ copy \in [Nodes -> Data \cup {None}]
  /\ value \in [Props -> Values]
  /\ modified \in [Props -> Values \cup {None}]
  /\ dirty \subseteq Nodes /\ todo \subseteq dirty
  /\ syncing \in BOOLEAN /\ frame \in BOOLEAN
  /\ syncing => ~ frame
  /\ ~ syncing => todo = {}

\* The Nodes that can be reached from the root, if kids are the children of each.
Tree(kids) ==
  {n \in Nodes : \A S \in SUBSET Nodes :
     (Root \in S /\ \A m \in S : kids[m] \subseteq S) => n \in S}

\* What can be seen of a Node.  The parent of a Node that moves is left out: it
\* is not synchronized: _set_parent writes it without marking the Node.
Shape(n, d) == [parent |-> IF n \in Movable THEN None ELSE d.parent,
                children |-> d.children, flag |-> d.flag]

\* The Graph as the ui thread and as the render thread see it.
UiTree == Tree([n \in Nodes |-> Elements(View(n).children)])
UiGraph == <<[n \in UiTree |-> Shape(n, View(n))],
             [p \in {q \in VisibleProps : NodeOf[q] \in UiTree \cap Alive} |-> Current(p)]>>

RenderTree == Tree([n \in Nodes |-> Elements(data[n].children)])
RenderGraph == <<[n \in RenderTree |-> Shape(n, data[n])],
                 [p \in {q \in VisibleProps : NodeOf[q] \in RenderTree \cap Alive} |-> value[p]]>>

\* Whenever nothing is dirty the two threads see the same Graph (graph.hpp:126
\* "all threads agree on the complete state of the Graph").
Agreement == ~ syncing /\ dirty = {} => RenderGraph = UiGraph

\* A Node that carries the DIRTY flag is registered as dirty: otherwise no later
\* change of it would ever be synchronized.
DirtyIsMarked == \A n \in Alive : View(n).dirty => n \in dirty

\* No Node is destroyed that either thread can still reach, however the Node is
\* removed and while a frame is drawn.
ReachableIsAlive == UiTree \cup RenderTree \subseteq Alive

\* The hierarchy is a tree for the ui thread: a Node is at most once among the
\* children of one Node, its parent.
OneParent ==
  \A n, c \in Alive : c \in Elements(View(n).children) =>
    /\ View(c).parent = n
    /\ Cardinality({i \in 1 .. Len(View(n).children) : View(n).children[i] = c}) = 1

\* The Graph is a published snapshot: while synchronize holds the mutex nobody
\* but the ui thread looks.
Published == INSTANCE Snapshot WITH
  live <- UiGraph,
  shown <- IF syncing THEN UiGraph ELSE RenderGraph

\* The render thread draws a snapshot of the Graph that does not change during a
\* frame, and synchronize makes it the Graph of the ui thread at once.
DrawsSnapshots == Published!Spec
=============================================================================
