--------------------------- MODULE HierarchyEdit ----------------------------
(***************************************************************************)
(* Editing the hierarchy of a scene: the rows the hierarchy panel draws    *)
(* from the last snapshot (EditorSnapshot.cpp), what a drag or a menu makes *)
(* of them (HierarchyPanel.cpp), and the commands that reach the scene     *)
(* later, when it may have changed (HierarchyCommands.cpp).                *)
(*                                                                         *)
(* The scene's links are SceneHierarchy's; here a scene is the list of its *)
(* roots and the list of children of every entity.  Roots have the order   *)
(* of the storage, which any structural change may change.  Scene refuses  *)
(* to keep the world transform of an entity whenever it is not invertible: *)
(* which ones is a free choice here.                                       *)
(***************************************************************************)
EXTENDS Naturals, FiniteSets, SequencesExt

CONSTANTS
    Entities,   \* the handles of a run; one that died is not given again
    NoEntity,
    EditBound   \* bound: commands that change the scene

VARIABLES
    roots, kids,    \* the scene
    unused,         \* the handles never given
    edits,          \* m_editRevision
    rows,           \* the snapshot's hierarchy: [entity, depth]
    collapsed       \* m_collapsed

vars == <<roots, kids, unused, edits, rows, collapsed>>

----------------------------------------------------------------------------
\* The scene.

Below(k, e) == ToSet(k[e])
Descendants(k, e) ==
    LET down[n \in 0 .. Cardinality(Entities)] ==
          IF n = 0 THEN {e} ELSE down[n - 1] \cup UNION {Below(k, x) : x \in down[n - 1]}
    IN  down[Cardinality(Entities)]
LiveIn(r, k) == UNION {Descendants(k, e) : e \in ToSet(r)}
Live == LiveIn(roots, kids)

ParentIn(k, e) ==
    IF \E p \in Entities : e \in Below(k, p) THEN CHOOSE p \in Entities : e \in Below(k, p) ELSE NoEntity

Without(s, gone) == SelectSeq(s, LAMBDA e : e \notin gone)
Orders(S) == SetToSeqs(S)
Unlinked(k, e) == [p \in Entities |-> Without(k[p], {e})]

\* Scene::setParent of a live child under a live parent, on the lists alone.
Adopted(k, child, parent, position) ==
    LET u == Unlinked(k, child) IN [u EXCEPT ![parent] = InsertAt(@, position + 1, child)]

----------------------------------------------------------------------------
\* The snapshot.

Row(e, depth) == [entity |-> e, depth |-> depth]

\* buildSnapshot: depth first.
RowsOf(r, k) ==
    LET under[n \in 0 .. Cardinality(Entities)] ==
          [e \in Entities, d \in 0 .. Cardinality(Entities) |->
             IF n = 0 THEN <<>>
             ELSE <<Row(e, d)>> \o FoldLeft(LAMBDA acc, c : acc \o under[n - 1][c, d + 1], <<>>, k[e])]
    IN  FoldLeft(LAMBDA acc, e : acc \o under[Cardinality(Entities)][e, 0], <<>>, r)

Listed == {rows[i].entity : i \in DOMAIN rows}
RowOf(e) == CHOOSE i \in DOMAIN rows : rows[i].entity = e

\* The rows of a subtree are a run: they end at the first row that is no deeper.
SubtreeEnd(i) ==
    LET ends == {j \in i + 1 .. Len(rows) : rows[j].depth <= rows[i].depth}
    IN  IF ends = {} THEN Len(rows) ELSE (CHOOSE j \in ends : \A h \in ends : j <= h) - 1

IsInSubtree(e, root) ==
    /\ root # NoEntity /\ root \in Listed
    /\ \E i \in RowOf(root) .. SubtreeEnd(RowOf(root)) : rows[i].entity = e

ParentOfRow(i) ==
    LET above == {j \in 1 .. i - 1 : rows[j].depth + 1 = rows[i].depth}
    IN  IF above = {} THEN NoEntity ELSE rows[CHOOSE j \in above : \A h \in above : h <= j].entity

\* Mutant: the walk does not stop at the parent and counts cousins.
SiblingIndexOfRowMutant(i) == Cardinality({j \in 1 .. i - 1 : rows[j].depth = rows[i].depth})
SiblingIndexOfRow(i) ==
    Cardinality({j \in 1 .. i - 1 : rows[j].depth = rows[i].depth
                                    /\ \A h \in j .. i : rows[h].depth >= rows[i].depth})

\* Mutant: the place the dragged entity leaves is counted.
PlaceInParentMutant(current, gap) == gap
PlaceInParent(current, gap) == IF current < gap THEN gap - 1 ELSE gap

Refused == [allowed |-> FALSE, position |-> 0]
At(position) == [allowed |-> TRUE, position |-> position]

\* resolveDrop of one entity.
ResolveOne(e, parent, gap) ==
    IF e \notin Listed \/ (parent # NoEntity /\ IsInSubtree(parent, e)) THEN Refused
    ELSE IF ParentOfRow(RowOf(e)) # parent THEN At(gap)
    ELSE IF parent = NoEntity THEN Refused
    ELSE LET current == SiblingIndexOfRow(RowOf(e))
             position == PlaceInParent(current, gap)
         IN  IF position # current THEN At(position) ELSE Refused

RowChildren(parent) ==
    LET i == RowOf(parent)
        run == SubSeq(rows, i + 1, SubtreeEnd(i))
        child == SelectSeq(run, LAMBDA r : r.depth = rows[i].depth + 1)
    IN  [c \in DOMAIN child |-> child[c].entity]

\* The children above a gap.
AboveGap(children, gap) == SubSeq(children, 1, Min({gap, Len(children)}))
\* children with dragged moved together to where the first gap of them are drawn.
Drawn(children, dragged, gap) ==
    LET left == Without(AboveGap(children, gap), ToSet(dragged))
        right == Without(SubSeq(children, gap + 1, Len(children)), ToSet(dragged))
    IN  left \o dragged \o right

\* resolveDrop of several entities.
ResolveMany(dragged, parent, gap) ==
    IF dragged = <<>> \/ \E i \in DOMAIN dragged : dragged[i] \notin Listed \/ IsInSubtree(parent, dragged[i]) THEN Refused
    ELSE IF parent = NoEntity
    THEN IF \E i \in DOMAIN dragged : rows[RowOf(dragged[i])].depth > 0 THEN At(0) ELSE Refused
    ELSE IF parent \notin Listed THEN Refused
    ELSE LET children == RowChildren(parent)
         IN  IF Drawn(children, dragged, gap) # children
             THEN At(Len(Without(AboveGap(children, gap), ToSet(dragged)))) ELSE Refused

ResolveDrop(dragged, parent, gap) ==
    IF Len(dragged) = 1 THEN ResolveOne(dragged[1], parent, gap) ELSE ResolveMany(dragged, parent, gap)

\* Mutant: only the parent is looked at, not the entities above it.
SelectedAboveMutant(i, selection) == ParentOfRow(i) \in selection
SelectedAbove(i, selection) == \E e \in selection \ {rows[i].entity} : IsInSubtree(rows[i].entity, e)

\* collectTopmost: what is dragged or deleted for a selection.
Topmost(selection) ==
    LET top == SelectSeq([i \in DOMAIN rows |-> i],
                         LAMBDA i : rows[i].entity \in selection /\ ~SelectedAbove(i, selection))
    IN  [i \in DOMAIN top |-> rows[top[i]].entity]

\* collectVisibleRows: the rows below a collapsed one are skipped.
VisibleRows ==
    LET from[i \in 1 .. Len(rows) + 1] ==
          IF i > Len(rows) THEN {}
          ELSE {i} \cup from[IF rows[i].entity \in collapsed THEN SubtreeEnd(i) + 1 ELSE i + 1]
    IN  from[1]

----------------------------------------------------------------------------
\* The commands on the scene as it is when they are applied.

InMovedSubtree(k, e, moved) == \E m \in moved : e \in Descendants(k, m)

\* getInsertAnchor: the position-th child that stays, NoEntity for none.
InsertAnchor(k, parent, moved, position) ==
    LET stay == Without(k[parent], moved)
        n == IF position < Len(stay) THEN position ELSE Len(stay)
    IN  IF n = 0 THEN NoEntity ELSE stay[n]

\* Mutant: the child itself is counted.
OthersMutant(siblings, child) == siblings
Others(siblings, child) == Without(siblings, {child})

\* getPositionAfter.
PositionAfter(k, parent, child, anchor) ==
    IF anchor = NoEntity THEN 0
    ELSE LET others == Others(k[parent], child) IN CHOOSE i \in DOMAIN others : others[i] = anchor

\* ReparentEntityCommand::apply under a live parent; those in stuck keep their
\* place.  Scene refuses a position beyond the other children.
MovedUnder(k, dragged, parent, position, stuck) ==
    LET step(s, child) ==
          LET to == PositionAfter(s.kids, parent, child, s.anchor)
          IN  IF child \in stuck \/ to > Len(Unlinked(s.kids, child)[parent]) THEN s
              ELSE [kids |-> Adopted(s.kids, child, parent, to), anchor |-> child]
    IN  FoldLeft(step, [kids |-> k, anchor |-> InsertAnchor(k, parent, ToSet(dragged), position)], dragged).kids

\* Reparented to the root: children only, and not those in stuck.
MovedToRoot(k, dragged, stuck) ==
    FoldLeft(LAMBDA acc, child : IF child \in stuck THEN acc ELSE Unlinked(acc, child), k, dragged)

RootsAfter(r, k, live) == {e \in live : ParentIn(k, e) = NoEntity}

\* The scene after a structural change, with one more edit.
Changes(k, live) ==
    /\ kids' = k
    /\ LET r == RootsAfter(roots, k, live)
       IN  IF r = ToSet(roots) THEN roots' = roots ELSE roots' \in Orders(r)
    /\ edits' = edits + 1
Keeps == UNCHANGED <<roots, kids, edits>>
Edit == edits < EditBound

\* Entities that Scene refuses to move: none of those that keep their parent.
Stuck(dragged, parent) == SUBSET {e \in ToSet(dragged) : ParentIn(kids, e) # parent}

\* CreateEntityCommand, from the menus.
Create(parent) ==
    /\ Edit /\ unused # {}
    /\ LET e == CHOOSE x \in unused : TRUE
       IN  /\ unused' = unused \ {e}
           /\ \/ parent = NoEntity /\ Changes(kids, Live \cup {e})
              \/ parent \in Live /\ Changes([kids EXCEPT ![parent] = <<e>> \o @], Live \cup {e})
              \/ parent # NoEntity /\ Keeps     \* dead, or the transform is refused: e is destroyed again
    /\ collapsed' = collapsed \ {parent}
    /\ UNCHANGED rows

\* DestroyEntityCommand for the topmost of a selection; those that died are passed over.
Destroy(selection) ==
    /\ Edit
    /\ LET gone == UNION {Descendants(kids, e) : e \in ToSet(Topmost(selection)) \cap Live}
           k == [p \in Entities |-> IF p \in gone THEN <<>> ELSE Without(kids[p], gone)]
       IN  IF gone = {} THEN Keeps ELSE Changes(k, Live \ gone)
    /\ UNCHANGED <<unused, rows, collapsed>>

\* ReparentEntityCommand.
Reparent(dragged, parent, position) ==
    LET moved == ToSet(dragged)
    IN  \/ /\ ~(moved \subseteq Live) \/ (parent # NoEntity /\ (parent \notin Live \/ InMovedSubtree(kids, parent, moved)))
           /\ Keeps
        \/ /\ moved \subseteq Live
           /\ \/ /\ parent = NoEntity
                 /\ \E stuck \in Stuck(dragged, NoEntity) :
                       LET k == MovedToRoot(kids, dragged, stuck) IN IF k = kids THEN Keeps ELSE Changes(k, Live)
              \/ /\ parent \in Live /\ ~InMovedSubtree(kids, parent, moved)
                 /\ \E stuck \in Stuck(dragged, parent) :
                       LET k == MovedUnder(kids, dragged, parent, position, stuck)
                       IN  IF stuck = moved THEN Keeps ELSE Changes(k, Live)

\* acceptRowDrop: the gap above a row, below it, or the row itself.
Gaps(i) ==
    {[parent |-> ParentOfRow(i), gap |-> SiblingIndexOfRow(i)], [parent |-> rows[i].entity, gap |-> 0]}
    \cup (IF SubtreeEnd(i) > i /\ rows[i].entity \notin collapsed THEN {}
          ELSE {[parent |-> ParentOfRow(i), gap |-> SiblingIndexOfRow(i) + 1]})
EmptySpace == [parent |-> NoEntity, gap |-> 0]

Drop(selection, target) ==
    LET dragged == Topmost(selection)
        drop == ResolveDrop(dragged, target.parent, target.gap)
    IN  /\ Edit /\ drop.allowed
        /\ Reparent(dragged, target.parent, drop.position)
        /\ collapsed' = collapsed \ {target.parent}
        /\ UNCHANGED <<unused, rows>>

Publish == rows' = RowsOf(roots, kids) /\ UNCHANGED <<roots, kids, unused, edits, collapsed>>

Toggle(i) ==
    /\ collapsed' = IF rows[i].entity \in collapsed THEN {} ELSE {rows[i].entity}
    /\ UNCHANGED <<roots, kids, unused, edits, rows>>

\* Any scene that a file can hold: a forest of Entities.
Forests ==
    {f \in [Entities -> Entities \cup {NoEntity}] :
        \A e \in Entities :
            LET up[n \in 0 .. Cardinality(Entities)] == IF n = 0 THEN e ELSE IF up[n - 1] = NoEntity THEN NoEntity ELSE f[up[n - 1]]
            IN  up[Cardinality(Entities)] = NoEntity}

Init ==
    /\ edits = 0 /\ collapsed = {}
    /\ \E present \in SUBSET Entities, f \in Forests, order \in Orders(Entities) :
          /\ \A e \in Entities : IF e \in present THEN f[e] \in present \cup {NoEntity} ELSE f[e] = NoEntity
          /\ unused = Entities \ present
          /\ roots = SelectSeq(order, LAMBDA e : e \in present /\ f[e] = NoEntity)
          /\ kids = [p \in Entities |-> SelectSeq(order, LAMBDA e : f[e] = p)]
    /\ rows = RowsOf(roots, kids)

Next ==
    \/ \E p \in Listed \cup {NoEntity} : Create(p)
    \/ \E s \in SUBSET Listed \ {{}} : Destroy(s)
    \/ \E s \in SUBSET Listed \ {{}}, i \in VisibleRows : \E target \in Gaps(i) \cup {EmptySpace} : Drop(s, target)
    \/ \E i \in VisibleRows : Toggle(i)
    \/ Publish

Spec == Init /\ [][Next]_vars

----------------------------------------------------------------------------
\* Properties.

\* Whatever commands meet a scene that changed since they were made, the scene
\* stays a forest of all its live entities.
IsForest ==
    /\ \A p, q \in Entities : p # q => Below(kids, p) \cap Below(kids, q) = {}
    /\ \A p \in Entities : IsInjective(kids[p]) /\ p \notin UNION {Descendants(kids, c) : c \in Below(kids, p)}
    /\ ToSet(roots) \cap UNION {Below(kids, p) : p \in Entities} = {} /\ IsInjective(roots)
    /\ \A p \in Entities \ Live : kids[p] = <<>>

\* With the scene as drawn, a drop that the panel allows puts the dragged
\* entities together where the line was drawn, in the order of the rows; one it
\* refuses would have made a cycle or moved nothing.
Fresh == rows = RowsOf(roots, kids)
DropLandsAsDrawn ==
    Fresh => \A s \in SUBSET Listed \ {{}} : \A i \in VisibleRows : \A target \in Gaps(i) :
        LET dragged == Topmost(s)
            parent == target.parent
            drop == ResolveDrop(dragged, parent, target.gap)
            cycle == parent # NoEntity /\ InMovedSubtree(kids, parent, ToSet(dragged))
            children == IF parent = NoEntity THEN <<>> ELSE kids[parent]
        IN  IF parent = NoEntity
            THEN drop.allowed <=> \E d \in ToSet(dragged) : d \notin ToSet(roots)
            ELSE IF drop.allowed
            THEN /\ ~cycle
                 /\ MovedUnder(kids, dragged, parent, drop.position, {})[parent] = Drawn(children, dragged, target.gap)
            ELSE cycle \/ Drawn(children, dragged, target.gap) = children

\* The gaps a row offers are those above and below its entity in the scene.
GapsAreOfTheRow ==
    Fresh => \A i \in DOMAIN rows :
        LET e == rows[i].entity
            parent == ParentIn(kids, e)
        IN  /\ ParentOfRow(i) = parent
            /\ parent # NoEntity => SiblingIndexOfRow(i) + 1 = CHOOSE n \in DOMAIN kids[parent] : kids[parent][n] = e

\* What is dragged or deleted is the selection without what lies below it.
TopmostCovers ==
    Fresh => \A s \in SUBSET Listed :
        LET top == Topmost(s)
        IN  /\ s \subseteq UNION {Descendants(kids, e) : e \in ToSet(top)}
            /\ \A e, f \in ToSet(top) : e # f => e \notin Descendants(kids, f)

HierarchyEditSound == IsForest /\ DropLandsAsDrawn /\ GapsAreOfTheRow /\ TopmostCovers
=============================================================================
