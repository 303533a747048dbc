--------------------------- MODULE SceneHierarchy ---------------------------
(***************************************************************************)
(* engine/core Scene: the hierarchy of its entities, kept as doubly linked *)
(* lists of siblings in their Hierarchy components, and the transforms     *)
(* that follow it, each local to its parent with its world cached beside   *)
(* it.  A transform is a scale and a translation along one axis, the       *)
(* integers modulo Modulus; a scale of zero is the singular matrix.        *)
(*                                                                         *)
(* Every operation runs to its end on the simulation's thread, between two *)
(* systems.  SceneAsset::read is shown row by row: it writes the local     *)
(* transforms behind the back of their caches and propagates once.         *)
(***************************************************************************)
EXTENDS Naturals, FiniteSets, SequencesExt

CONSTANTS
    Entity,     \* the handles of a run; a destroyed one is never given again
    Null,       \* the default Entity: no entity
    Modulus,
    Scales,     \* of the transforms that callers and files write
    Shifts

ASSUME EntityAssumption == IsFiniteSet(Entity) /\ Null \notin Entity
ASSUME ModulusAssumption == Modulus \in Nat \ {0, 1}
ASSUME InputAssumption == Scales \cup Shifts \subseteq 0 .. Modulus - 1

VARIABLES
    live,       \* the entities of the storage
    spent,      \* the entities destroyed so far
    links,      \* the Hierarchy component of each
    local,      \* Transform::m_local
    world,      \* Transform::m_world and m_worldMatrix
    reading     \* SceneAsset::read is under way

vars == <<live, spent, links, local, world, reading>>

Count == 0 .. Cardinality(Entity)
Depth == 0 .. Cardinality(Entity)       \* no path or list is longer

Link == [parent : Entity \cup {Null}, first : Entity \cup {Null}, last : Entity \cup {Null},
         next : Entity \cup {Null}, previous : Entity \cup {Null}, count : Count]
NoLinks == [parent |-> Null, first |-> Null, last |-> Null,
            next |-> Null, previous |-> Null, count |-> 0]

----------------------------------------------------------------------------
\* Transforms.

Ring == 0 .. Modulus - 1
Frame == [scale : Ring, shift : Ring]
Input == [scale : Scales, shift : Shifts]
Identity == [scale |-> 1, shift |-> 0]

Compose(outer, inner) ==
    [scale |-> (outer.scale * inner.scale) % Modulus,
     shift |-> (outer.shift + outer.scale * inner.shift) % Modulus]

Singular(f) == f.scale = 0

\* As of matrices, that are inverted when their determinant is not zero.
ASSUME InverseAssumption ==
    \A f \in Frame : ~Singular(f) => \E g \in Frame : Compose(f, g) = Identity

Inverted(f) ==
    CHOOSE g \in Frame : Compose(f, g) = Identity

----------------------------------------------------------------------------
\* Walks over the links L.

\* What a loop makes of x: next is one round of it.
Rounds(next, x) ==
    LET after[n \in Depth] == IF n = 0 THEN x ELSE next[after[n - 1]]
    IN  after

\* The n-th ancestor of e; e itself is the 0th.
Ancestor(L, e) ==
    Rounds([x \in Entity \cup {Null} |-> IF x = Null THEN Null ELSE L[x].parent], e)

\* getChildren.
Children(L, p) ==
    LET at == Rounds([x \in Entity \cup {Null} |-> IF x = Null THEN Null ELSE L[x].next],
                     L[p].first)
        length == Cardinality({n \in Depth : at[n] # Null})
    IN  [n \in 1 .. length |-> at[n - 1]]

\* Mutant: the worklist does not grow past the children of e.
CollectedMutant(L, e) == {e} \cup ToSet(Children(L, e))

\* destroyEntity's worklist.
Collected(L, e) ==
    Rounds([X \in SUBSET Entity |-> X \cup UNION {ToSet(Children(L, x)) : x \in X}],
           {e})[Cardinality(Entity)]

\* Mutant: the walk of a branch ends at its first leaf.
ClimbedMutant(L, root, e) == IF e = root THEN Null ELSE L[e].next

\* From a leaf, the sibling of the nearest entity below root that has one.
Climbed(L, root, e) ==
    LET up == Ancestor(L, e)
        stops == {n \in Depth : up[n] # Null
                                /\ (up[n] = root \/ L[up[n]].next # Null)}
        top == CHOOSE n \in stops : \A k \in stops : n <= k
    IN  IF up[top] = root THEN Null ELSE L[up[top]].next

Following(L, root, e) ==
    IF L[e].first # Null THEN L[e].first ELSE Climbed(L, root, e)

\* updateWorld of e, from the cached world of its parent.
Updated(L, lo, w, e) ==
    [w EXCEPT ![e] = IF L[e].parent = Null THEN lo[e]
                     ELSE Compose(w[L[e].parent], lo[e])]

\* propagateTransformSubtree.
Walk == [at : Entity \cup {Null}, world : [Entity -> Frame]]
Visit(L, lo, root, s) ==
    IF s.at = Null THEN s
    ELSE [at |-> Following(L, root, s.at), world |-> Updated(L, lo, s.world, s.at)]

Propagated(L, lo, w, root) ==
    Rounds([s \in Walk |-> Visit(L, lo, root, s)],
           [at |-> root, world |-> w])[Cardinality(Entity)].world

\* fromLocalToWorld: the product of the locals from e up to the root.
Climb == [at : Entity \cup {Null}, product : Frame]
Ascended(s) ==
    IF s.at = Null THEN s
    ELSE [at |-> links[s.at].parent, product |-> Compose(local[s.at], s.product)]

WorldFromLocals(e) ==
    Rounds([s \in Climb |-> Ascended(s)],
           [at |-> e, product |-> Identity])[Cardinality(Entity)].product

----------------------------------------------------------------------------
\* Changes of the links.

\* Mutant: the count of the parent stays.
UncountedMutant(n) == n

Uncounted(n) == n - 1

\* Mutant: an only child leaves its parent's m_lastChild behind.
UnlinkedMutant(L, c) ==
    LET p == L[c].parent
        a == L[c].previous
        b == L[c].next
    IN  [e \in Entity |->
           CASE e = p -> [L[p] EXCEPT
                            !.first = IF a = Null THEN b ELSE @,
                            !.last = IF b = Null /\ a # Null THEN a ELSE @,
                            !.count = Uncounted(@)]
             [] e = a -> [L[a] EXCEPT !.next = b]
             [] e = b -> [L[b] EXCEPT !.previous = a]
             [] OTHER -> L[e]]

\* c out of the list of its parent; its own links are left to the caller.
Unlinked(L, c) ==
    LET p == L[c].parent
        a == L[c].previous
        b == L[c].next
    IN  [e \in Entity |->
           CASE e = p -> [L[p] EXCEPT
                            !.first = IF a = Null THEN b ELSE @,
                            !.last = IF b = Null THEN a ELSE @,
                            !.count = Uncounted(@)]
             [] e = a -> [L[a] EXCEPT !.next = b]
             [] e = b -> [L[b] EXCEPT !.previous = a]
             [] OTHER -> L[e]]

\* c into the list of p between a and b, either of which may be missing.
Linked(L, c, p, a, b) ==
    [e \in Entity |->
       CASE e = c -> [L[c] EXCEPT !.parent = p, !.previous = a, !.next = b]
         [] e = p -> [L[p] EXCEPT !.first = IF a = Null THEN c ELSE @,
                                  !.last = IF b = Null THEN c ELSE @,
                                  !.count = @ + 1]
         [] e = a -> [L[a] EXCEPT !.next = c]
         [] e = b -> [L[b] EXCEPT !.previous = c]
         [] OTHER -> L[e]]

\* The children of p that the insertion counts.
Siblings(L, c, p) == RemoveFirst(Children(L, p), c)

\* Mutant: c counts among the children it is placed behind.
DestinationCountMutant(L, c, p) == L[p].count

DestinationCount(L, c, p) ==
    IF L[c].parent = p THEN L[p].count - 1 ELSE L[p].count

\* insertionBefore and insertionAfter, found before c is taken out.
Before(L, c, p, pos) ==
    IF pos = DestinationCount(L, c, p)
      THEN IF L[p].last = c THEN L[c].previous ELSE L[p].last
      ELSE IF pos = 0 THEN Null ELSE Siblings(L, c, p)[pos]
After(L, c, p, pos) ==
    IF pos = DestinationCount(L, c, p) THEN Null
    ELSE Siblings(L, c, p)[pos + 1]

Moved(L, c, p, pos) ==
    LET freed == IF L[c].parent = Null THEN L ELSE Unlinked(L, c)
    IN  Linked(freed, c, p, Before(L, c, p, pos), After(L, c, p, pos))

Freed(L, c) ==
    [Unlinked(L, c) EXCEPT ![c].parent = Null, ![c].previous = Null,
                           ![c].next = Null]

----------------------------------------------------------------------------
\* What setParent and unparent refuse.

\* The links around c agree with each other.
LinksAgree(L, c) ==
    LET p == L[c].parent
        a == L[c].previous
        b == L[c].next
    IN  IF p = Null THEN a = Null /\ b = Null
        ELSE /\ p \in live /\ L[p].count # 0
             /\ {a, b} \ {Null} \subseteq live
             /\ IF a # Null THEN L[a].next = c ELSE L[p].first = c
             /\ IF b # Null THEN L[b].previous = c ELSE L[p].last = c

\* Mutant: only the parent itself is looked at, not the entities above it.
ClosesCycleMutant(L, c, p) == L[p].parent = c

ClosesCycle(L, c, p) ==
    L[c].parent # p /\ \E n \in Depth : Ancestor(L, p)[n] = c

Accepts(c, p, pos) ==
    /\ c # p
    /\ c \in live /\ p \in live
    /\ ~ClosesCycle(links, c, p)
    /\ LinksAgree(links, c)
    /\ pos <= DestinationCount(links, c, p)
    /\ pos < DestinationCount(links, c, p) => pos < Len(Siblings(links, c, p))

HasParent(c) == c \in live /\ links[c].parent # Null

CanUnparent(c) == HasParent(c) /\ LinksAgree(links, c)

----------------------------------------------------------------------------
\* The operations of Scene and Transform.

Fresh == Entity \ (live \cup spent)

createEntity(e) ==
    /\ e \in Fresh
    /\ live' = live \cup {e}
    /\ links' = [links EXCEPT ![e] = NoLinks]
    /\ local' = [local EXCEPT ![e] = Identity]
    /\ world' = [world EXCEPT ![e] = Identity]
    /\ UNCHANGED <<spent, reading>>

destroyEntity(e) ==
    LET dead == Collected(links, e)
        left == IF links[e].parent = Null THEN links ELSE Freed(links, e)
    IN
    /\ e \in live
    /\ links[e].parent # Null => LinksAgree(links, e)
    /\ live' = live \ dead
    /\ spent' = spent \cup dead
    /\ links' = [x \in Entity |-> IF x \in dead THEN NoLinks ELSE left[x]]
    /\ local' = [x \in Entity |-> IF x \in dead THEN Identity ELSE local[x]]
    /\ world' = [x \in Entity |-> IF x \in dead THEN Identity ELSE world[x]]
    /\ UNCHANGED reading

clear ==
    /\ live' = {}
    /\ spent' = spent \cup live
    /\ links' = [x \in Entity |-> NoLinks]
    /\ local' = [x \in Entity |-> Identity]
    /\ world' = [x \in Entity |-> Identity]

\* setParent, and the reorderChild that calls it with c's own parent.
setParent(c, p, pos) ==
    /\ Accepts(c, p, pos)
    /\ links' = Moved(links, c, p, pos)
    /\ world' = IF links[c].parent = p THEN world
                ELSE Propagated(links', local, world, c)
    /\ UNCHANGED <<live, spent, local, reading>>

unparent(c) ==
    /\ CanUnparent(c)
    /\ links' = Freed(links, c)
    /\ world' = Propagated(links', local, world, c)
    /\ UNCHANGED <<live, spent, local, reading>>

\* setLocal once the links of this step are in place.
Placed(c, f, w) ==
    /\ ~Singular(f)
    /\ local' = [local EXCEPT ![c] = f]
    /\ world' = Propagated(links', local', w, c)

\* Mutant: relative to the new parent's own transform, not to its world.
RelativeMutant(p, f) == Compose(Inverted(local[p]), f)

\* The local transform that gives a child of p the world f.
Relative(p, f) == Compose(Inverted(WorldFromLocals(p)), f)

\* setParent with PreserveWorld, to another parent.
setParentKeepingWorld(c, p, pos) ==
    /\ HasParent(c) => links[c].parent # p
    /\ Accepts(c, p, pos)
    /\ ~Singular(WorldFromLocals(p))
    /\ links' = Moved(links, c, p, pos)
    /\ Placed(c, Relative(p, WorldFromLocals(c)),
              Propagated(links', local, world, c))
    /\ UNCHANGED <<live, spent, reading>>

DetachedLocal(c) == WorldFromLocals(c)

unparentKeepingWorld(c) ==
    /\ CanUnparent(c)
    /\ links' = Freed(links, c)
    /\ Placed(c, DetachedLocal(c), Propagated(links', local, world, c))
    /\ UNCHANGED <<live, spent, reading>>

setLocal(e, f) ==
    /\ e \in live
    /\ UNCHANGED links
    /\ Placed(e, f, world)
    /\ UNCHANGED <<live, spent, reading>>

setWorld(e, f) ==
    /\ e \in live /\ ~Singular(f)
    /\ UNCHANGED links
    /\ IF links[e].parent = Null THEN Placed(e, f, world)
       ELSE /\ ~Singular(WorldFromLocals(links[e].parent))
            /\ Placed(e, Relative(links[e].parent, f), world)
    /\ UNCHANGED <<live, spent, reading>>

\* Transform's assignment: it takes any values, a scale of zero with them.
assign(e, f) ==
    /\ e \in live
    /\ UNCHANGED links
    /\ local' = [local EXCEPT ![e] = f]
    /\ world' = Propagated(links, local', world, e)
    /\ UNCHANGED <<live, spent, reading>>

----------------------------------------------------------------------------
\* SceneAsset::read.

BeginRead ==
    /\ live = {} /\ ~reading
    /\ reading' = TRUE
    /\ UNCHANGED <<live, spent, links, local, world>>

\* One row: a root, or the next child of an entity of an earlier row.  Its
\* transform is read in place, without a propagation.
ReadRow(e, p, f) ==
    LET born == [links EXCEPT ![e] = NoLinks]
        linked == IF p = Null THEN born ELSE Moved(born, e, p, links[p].count)
        fresh == [world EXCEPT ![e] = Identity]
        bare == [local EXCEPT ![e] = Identity]
    IN
    /\ reading
    /\ e \in Fresh
    /\ p \in live \cup {Null}
    /\ live' = live \cup {e}
    /\ links' = linked
    /\ local' = [local EXCEPT ![e] = f]
    /\ world' = IF p = Null THEN fresh ELSE Propagated(linked, bare, fresh, e)
    /\ UNCHANGED <<spent, reading>>

Roots == {e \in live : links[e].parent = Null}

\* Mutant: read returns without the propagation it postponed.
AllPropagatedMutant == world

\* propagateTransforms, root by root.
Sweep == [left : SUBSET Entity, world : [Entity -> Frame]]
Swept(s) ==
    IF s.left = {} THEN s
    ELSE LET root == CHOOSE e \in s.left : TRUE
         IN  [left |-> s.left \ {root}, world |-> Propagated(links, local, s.world, root)]

AllPropagated ==
    Rounds([s \in Sweep |-> Swept(s)],
           [left |-> Roots, world |-> world])[Cardinality(Entity)].world

EndRead ==
    /\ reading
    /\ reading' = FALSE
    /\ world' = AllPropagated
    /\ UNCHANGED <<live, spent, links, local>>

FailRead ==
    /\ reading
    /\ reading' = FALSE
    /\ clear

----------------------------------------------------------------------------

Init ==
    /\ live = {} /\ spent = {}
    /\ links = [e \in Entity |-> NoLinks]
    /\ local = [e \in Entity |-> Identity]
    /\ world = [e \in Entity |-> Identity]
    /\ reading = FALSE

Operation ==
    \/ \E e \in Entity : createEntity(e) \/ destroyEntity(e) \/ unparent(e)
    \/ clear /\ UNCHANGED reading
    \/ \E c, p \in Entity, pos \in Count : setParent(c, p, pos)
    \/ \E c, p \in Entity, pos \in Count : setParentKeepingWorld(c, p, pos)
    \/ \E c \in Entity : unparentKeepingWorld(c)
    \/ \E e \in Entity, f \in Input : setLocal(e, f)
    \/ \E e \in Entity, f \in Input : setWorld(e, f)
    \/ \E e \in Entity, f \in Input : assign(e, f)

Next ==
    \/ ~reading /\ Operation
    \/ BeginRead
    \/ \E e \in Entity, p \in Entity \cup {Null}, f \in Input : ReadRow(e, p, f)
    \/ EndRead
    \/ FailRead

Spec == Init /\ [][Next]_vars

----------------------------------------------------------------------------
\* Properties.

\* Every value has its type: a link names an entity or none, and no count
\* goes past the entities there are.
TypeOK ==
    /\ live \subseteq Entity
    /\ spent \subseteq Entity \ live
    /\ links \in [Entity -> Link]
    /\ local \in [Entity -> Frame]
    /\ world \in [Entity -> Frame]
    /\ reading \in BOOLEAN

\* The two directions of every list agree: an entity's parent counts it
\* once, the ends of a list are where the parent says they are, and no link
\* leads to a dead entity.  The consistency checks of setParent and unparent
\* rest on it.
LinksSound ==
    \A e \in live :
        LET mine == {x \in live : links[x].parent = e}
            row == Children(links, e)
        IN  /\ ToSet(row) = mine
            /\ Len(row) = Cardinality(mine) /\ links[e].count = Len(row)
            /\ links[e].last = IF row = <<>> THEN Null ELSE row[Len(row)]
            /\ \A n \in DOMAIN row :
                 links[row[n]].previous = IF n = 1 THEN Null ELSE row[n - 1]
            /\ links[e].parent = Null =>
                 links[e].next = Null /\ links[e].previous = Null

\* No chain of parents returns to an entity: every walk of Scene that climbs
\* to a root, fromLocalToWorld and setParent's own check among them, ends.
Acyclic ==
    \A e \in live : Ancestor(links, e)[Cardinality(Entity)] = Null

Tree == INSTANCE HierarchyTree WITH
    kids <- [e \in Entity |-> Children(links, e)]

\* setParent accepts a move exactly when the tree allows it: none of its
\* checks of the links refuses a legal move.
AcceptsLegalMoves ==
    \A c, p \in Entity, pos \in Count :
        Accepts(c, p, pos) <=> Tree!Legal(c, p, pos)

\* The types and the shape of the links, between any two operations and
\* between the rows of a scene that is read, and what setParent makes of them.
HierarchySound == TypeOK /\ LinksSound /\ Acyclic /\ AcceptsLegalMoves

\* The lists implement the tree: each operation moves whole subtrees, to the
\* place among the siblings that it was asked for.
ImplementsTree == Tree!Spec

\* Outside read, the cached world of every entity is its local transform
\* below the cached world of its parent, whatever moved above it.
WorldFresh ==
    ~reading => \A e \in live :
        world[e] = IF links[e].parent = Null THEN local[e]
                   ELSE Compose(world[links[e].parent], local[e])

\* A move that preserves the world moves nothing: not the child, and none of
\* the entities below it or beside it.
WorldPreserved ==
    [][\/ world' = world
       \/ \A c \in Entity :
            /\ ~unparentKeepingWorld(c)
            /\ \A p \in Entity, pos \in Count :
                 ~setParentKeepingWorld(c, p, pos)]_vars
=============================================================================
