-------------------------- MODULE ArchetypeStorage --------------------------
(***************************************************************************)
(* The component storage of a scene (ArchetypeStorage, Archetype,          *)
(* ComponentStorage) and the queries over it (Query).                      *)
(*                                                                         *)
(* Entities with the same component types share an archetype: a column of  *)
(* values per type and a row per entity.  A row is erased by moving the    *)
(* last one into it, an entity changes archetype by being copied to a new  *)
(* row and erased from the old one, and the entity slots keep where each   *)
(* entity is.  Entity handles are never reused here: that is what          *)
(* EntitySlots shows of them (HandleTable).  Rows count from 1.            *)
(*                                                                         *)
(* Any allocation or copy of a component may throw, after any of the       *)
(* archetype's columns (their order is that of a hash map).                *)
(***************************************************************************)
EXTENDS Naturals, Sequences

CONSTANTS
    Types, Base, Values, Default,
    Queries,        \* the queries kept by systems
    Required,       \* for each query the types it asks for
    HandleBound,    \* bound: entities created
    RevisionBound,  \* bound: archetypes created and clears
    TickBound       \* bound: ticks that mark a type changed

ASSUME TypesAssumption == Base \subseteq Types /\ Required \in [Queries -> SUBSET Types]
ASSUME BoundsAssumption == {HandleBound, RevisionBound, TickBound} \subseteq Nat

VARIABLES
    archetypes,     \* m_archetypes, in the order they were created
    revision,       \* m_archetypeRevision
    location,       \* the entity slots: the archetype and row of each live entity
    created,        \* the number of handles given out
    iterating,      \* the queries inside each(): m_iterationDepth counts them
    query,          \* for each query its m_revision and m_matches
    tick            \* the last tick given to markChanged

vars == <<archetypes, revision, location, created, iterating, query, tick>>

NeverRefreshed == RevisionBound + 1

\* The map f with v at x.
With(f, x, v) == [y \in DOMAIN f \cup {x} |-> IF y = x THEN v ELSE f[y]]

(***************************************************************************)
(* One archetype.                                                          *)
(***************************************************************************)
NewArchetype(signature) ==
    [signature |-> signature, entities |-> <<>>,
     columns |-> [c \in signature |-> <<>>],
     changed |-> [c \in signature |-> 0],
     adds |-> <<>>, removes |-> <<>>]

RowCountsMatch(a) == \A c \in a.signature : Len(a.columns[c]) = Len(a.entities)

\* appendDefault() on the columns of done.
Appended(a, e, done) ==
    [a EXCEPT !.entities = Append(@, e),
              !.columns = [c \in a.signature |->
                  IF c \in done THEN Append(@[c], Default) ELSE @[c]]]

AddEntity(a, e) == Appended(a, e, a.signature)

PopBack(s) == SubSeq(s, 1, Len(s) - 1)

\* Mutant: every column is popped, those the append never reached too.
AddEntityThrowsMutant(a, e, done) ==
    LET grown == Appended(a, e, done)
    IN [grown EXCEPT !.entities = PopBack(@),
                     !.columns = [c \in grown.signature |->
                         IF @[c] = <<>> THEN @[c] ELSE PopBack(@[c])]]
\* addEntity when a column throws: the columns already longer than the row are popped.
AddEntityThrows(a, e, done) ==
    LET grown == Appended(a, e, done)
    IN [grown EXCEPT !.entities = PopBack(@),
                     !.columns = [c \in grown.signature |->
                         IF Len(@[c]) > Len(a.entities) THEN PopBack(@[c]) ELSE @[c]]]

SwapLast(s, row) == [i \in 1 .. Len(s) - 1 |-> IF i = row THEN s[Len(s)] ELSE s[i]]

EraseSwap(a, row) ==
    [a EXCEPT !.entities = SwapLast(@, row),
              !.columns = [c \in a.signature |-> SwapLast(@[c], row)]]

Swapped(a) == a.entities[Len(a.entities)]

(***************************************************************************)
(* The archetypes of the storage.                                          *)
(***************************************************************************)
Has(as, signature) == \E i \in DOMAIN as : as[i].signature = signature
IndexOf(as, signature) == CHOOSE i \in DOMAIN as : as[i].signature = signature
GetOrCreate(as, signature) ==
    IF Has(as, signature) THEN as ELSE Append(as, NewArchetype(signature))

Live == DOMAIN location
ArchetypeOf(e) == archetypes[location[e].archetype]
ContainsType(e, c) == c \in ArchetypeOf(e).signature

\* Mutant: the entity that moved into the erased row keeps its old location.
RelocatedMutant(loc, swapped, erased, i, row) == loc
\* setLocation of the entity eraseSwap moved, unless it erased that entity itself.
Relocated(loc, swapped, erased, i, row) ==
    IF swapped = erased THEN loc ELSE [loc EXCEPT ![swapped] = [archetype |-> i, row |-> row]]

StructuralMutationAllowed == iterating = {}

Init ==
    /\ archetypes = <<>> /\ revision = 0 /\ location = <<>> /\ created = 0
    /\ iterating = {} /\ tick = 0
    /\ query = [q \in Queries |-> [revision |-> NeverRefreshed, matches |-> <<>>]]

\* Mutant: a new archetype leaves the revision alone.
RevisionAfterMutant(as) == revision
RevisionAfter(as) == revision + (Len(as) - Len(archetypes))
Bounded(as) == RevisionAfter(as) <= RevisionBound

CreateEntity ==
    LET e == created + 1
        as == GetOrCreate(archetypes, Base)
        i == IndexOf(as, Base)
    IN /\ StructuralMutationAllowed
       /\ e <= HandleBound /\ Bounded(as)
       /\ created' = e
       /\ revision' = RevisionAfter(as)
       /\ \/ /\ archetypes' = [as EXCEPT ![i] = AddEntity(@, e)]
             /\ location' = With(location, e, [archetype |-> i, row |-> Len(as[i].entities) + 1])
          \/ \E done \in (SUBSET Base) \ {Base} :
                /\ archetypes' = [as EXCEPT ![i] = AddEntityThrows(@, e, done)]
                /\ UNCHANGED location
       /\ UNCHANGED <<iterating, query, tick>>

DestroyEntity(e) ==
    LET i == location[e].archetype
        row == location[e].row
        moved == Relocated(location, Swapped(archetypes[i]), e, i, row)
    IN /\ StructuralMutationAllowed
       /\ archetypes' = [archetypes EXCEPT ![i] = EraseSwap(@, row)]
       /\ location' = [f \in Live \ {e} |-> moved[f]]
       /\ UNCHANGED <<revision, created, iterating, query, tick>>

(***************************************************************************)
(* Changing archetype: the cached edge of the source, or a new one.        *)
(***************************************************************************)
Edge(as, i, kind, c, signature) ==
    IF c \in DOMAIN as[i][kind] THEN as[i][kind][c] ELSE IndexOf(as, signature)

WithEdge(as, i, kind, c, signature) ==
    IF c \in DOMAIN as[i][kind] THEN as
    ELSE LET bs == GetOrCreate(as, signature)
         IN [bs EXCEPT ![i][kind] = With(@, c, IndexOf(bs, signature))]

\* Mutant: the shared columns are left at their defaults.
CopiedMutant(source, row, destination, e, given) ==
    LET d == AddEntity(destination, e)
        last == Len(d.entities)
    IN [d EXCEPT !.columns = [c \in d.signature |-> [@[c] EXCEPT ![last] =
          IF c \in DOMAIN given THEN given[c] ELSE Default]]]
\* The new row of the destination: its shared columns copied, the rest given.
Copied(source, row, destination, e, given) ==
    LET d == AddEntity(destination, e)
        last == Len(d.entities)
    IN [d EXCEPT !.columns = [c \in d.signature |-> [@[c] EXCEPT ![last] =
          IF c \in source.signature THEN source.columns[c][row]
          ELSE IF c \in DOMAIN given THEN given[c] ELSE Default]]]

Move(e, kind, c, signature, given) ==
    LET i == location[e].archetype
        row == location[e].row
        as == WithEdge(archetypes, i, kind, c, signature)
        d == Edge(as, i, kind, c, signature)
        there == [location EXCEPT ![e] = [archetype |-> d, row |-> Len(as[d].entities) + 1]]
    IN /\ StructuralMutationAllowed
       /\ Bounded(as)
       /\ revision' = RevisionAfter(as)
       /\ \/ /\ archetypes' = [as EXCEPT ![d] = Copied(as[i], row, @, e, given),
                                         ![i] = EraseSwap(@, row)]
             /\ location' = Relocated(there, Swapped(as[i]), e, i, row)
          \/ \E done \in (SUBSET signature) \ {signature} : \* a column could not grow
                /\ archetypes' = [as EXCEPT ![d] = AddEntityThrows(@, e, done)]
                /\ UNCHANGED location
          \/ /\ signature # {} \* a copy threw: the new row is erased again
             /\ archetypes' = [as EXCEPT ![d] = EraseSwap(AddEntity(@, e), Len(@.entities) + 1)]
             /\ UNCHANGED location
       /\ UNCHANGED <<created, iterating, query, tick>>

AddComponent(e, c, v) ==
    /\ ~ContainsType(e, c)
    /\ Move(e, "adds", c, ArchetypeOf(e).signature \cup {c}, [d \in {c} |-> v])

RemoveComponent(e, c) ==
    /\ ContainsType(e, c)
    /\ Move(e, "removes", c, ArchetypeOf(e).signature \ {c}, <<>>)

\* component<T>() or componentRaw(), and a write through the pointer.
WriteComponent(e, c, v) ==
    /\ ContainsType(e, c)
    /\ archetypes' = [archetypes EXCEPT ![location[e].archetype].columns[c][location[e].row] = v]
    /\ UNCHANGED <<revision, location, created, iterating, query, tick>>

Clear ==
    /\ StructuralMutationAllowed
    /\ revision < RevisionBound
    /\ archetypes' = <<>> /\ location' = <<>>
    /\ revision' = revision + 1
    /\ UNCHANGED <<created, iterating, query, tick>>

MarkChanged(c) ==
    /\ tick < TickBound
    /\ tick' = tick + 1
    /\ archetypes' = [i \in DOMAIN archetypes |->
          IF c \in archetypes[i].signature THEN [archetypes[i] EXCEPT !.changed[c] = tick'] ELSE archetypes[i]]
    /\ UNCHANGED <<revision, location, created, iterating, query>>

(***************************************************************************)
(* Queries.                                                                *)
(***************************************************************************)
Matching(q) ==
    LET among[n \in 0 .. Len(archetypes)] ==   \* of the first n archetypes
          IF n = 0 THEN <<>>
          ELSE IF Required[q] \subseteq archetypes[n].signature THEN Append(among[n - 1], n)
          ELSE among[n - 1]
    IN  among[Len(archetypes)]

\* Mutant: a query that matched something once never looks again.
RefreshedMutant(q) ==
    IF query[q].matches # <<>> THEN query[q] ELSE [revision |-> revision, matches |-> Matching(q)]
\* refreshMatches.
Refreshed(q) ==
    IF query[q].revision = revision THEN query[q] ELSE [revision |-> revision, matches |-> Matching(q)]

\* each(): the iteration guard is held while the function is called for every row.
BeginEach(q) ==
    /\ q \notin iterating
    /\ query' = [query EXCEPT ![q] = Refreshed(q)]
    /\ iterating' = iterating \cup {q}
    /\ UNCHANGED <<archetypes, revision, location, created, tick>>

EndEach(q) ==
    /\ q \in iterating
    /\ iterating' = iterating \ {q}
    /\ UNCHANGED <<archetypes, revision, location, created, query, tick>>

Next ==
    \/ CreateEntity \/ Clear
    \/ \E e \in Live :
          \/ DestroyEntity(e)
          \/ \E c \in Types :
                \/ RemoveComponent(e, c)
                \/ \E v \in Values : AddComponent(e, c, v) \/ WriteComponent(e, c, v)
    \/ \E c \in Types : MarkChanged(c)
    \/ \E q \in Queries : BeginEach(q) \/ EndEach(q)

Spec == Init /\ [][Next]_vars

(***************************************************************************)
(* Properties.                                                             *)
(***************************************************************************)
\* A column per type of the signature; edges for some of the types.
IsArchetype(x) ==
    /\ x \in [signature : SUBSET Types, entities : Seq(1 .. HandleBound),
              columns : [x.signature -> Seq(Values \cup {Default})],
              changed : [x.signature -> 0 .. TickBound],
              adds : [DOMAIN x.adds -> Nat], removes : [DOMAIN x.removes -> Nat]]
    /\ DOMAIN x.adds \cup DOMAIN x.removes \subseteq Types

TypeOK ==
    /\ archetypes \in Seq({archetypes[i] : i \in DOMAIN archetypes})
    /\ \A i \in DOMAIN archetypes : IsArchetype(archetypes[i])
    /\ revision \in 0 .. RevisionBound
    /\ location \in [Live -> [archetype : Nat, row : Nat]] /\ Live \subseteq 1 .. created
    /\ created \in 0 .. HandleBound
    /\ iterating \subseteq Queries
    /\ query \in [Queries -> [revision : 0 .. NeverRefreshed, matches : Seq(Nat)]]
    /\ tick \in 0 .. TickBound

\* The columns of an archetype are as long as its rows (Archetype.cpp:69), and a
\* cached edge leads to the signature it stands for.
ArchetypeSound(as, i) ==
    /\ RowCountsMatch(as[i])
    /\ \A c \in DOMAIN as[i].adds :
          /\ as[i].adds[c] \in DOMAIN as
          /\ as[as[i].adds[c]].signature = as[i].signature \cup {c}
    /\ \A c \in DOMAIN as[i].removes :
          /\ as[i].removes[c] \in DOMAIN as
          /\ as[as[i].removes[c]].signature = as[i].signature \ {c}

\* No two archetypes have the same signature.
SignaturesDiffer(as) ==
    \A i, j \in DOMAIN as : as[i].signature = as[j].signature => i = j

\* Every entity is in the row its slot says, and every row has an entity whose
\* slot says so.
RowsAgree(as, loc) ==
    /\ \A e \in DOMAIN loc :
          /\ loc[e].archetype \in DOMAIN as
          /\ loc[e].row \in DOMAIN as[loc[e].archetype].entities
          /\ as[loc[e].archetype].entities[loc[e].row] = e
    /\ \A i \in DOMAIN as : \A r \in DOMAIN as[i].entities :
          as[i].entities[r] \in DOMAIN loc /\ loc[as[i].entities[r]] = [archetype |-> i, row |-> r]

WellStored(as, loc) ==
    /\ \A i \in DOMAIN as : ArchetypeSound(as, i)
    /\ SignaturesDiffer(as)
    /\ RowsAgree(as, loc)

LocationsSound == WellStored(archetypes, location)

\* The archetypes a query of this revision has to visit.
Matched(q) == {i \in DOMAIN archetypes : Required[q] \subseteq archetypes[i].signature}

\* A query whose revision is the storage's lists each of them once; while it
\* iterates, its revision is that one.
QueriesKept ==
    \A q \in Queries :
        /\ query[q].revision <= revision \/ query[q].revision = NeverRefreshed
        /\ q \in iterating => query[q].revision = revision
        /\ query[q].revision = revision =>
              /\ {query[q].matches[k] : k \in DOMAIN query[q].matches} = Matched(q)
              /\ \A k, l \in DOMAIN query[q].matches :
                    query[q].matches[k] = query[q].matches[l] => k = l

Visited(q) == UNION {{archetypes[i].entities[r] : r \in DOMAIN archetypes[i].entities} :
                        i \in {query[q].matches[k] : k \in DOMAIN query[q].matches}}

\* While a query iterates, what it visits is every live entity with the
\* required types and no other, each once, although its list of archetypes may
\* have been built before most of them existed or before a clear().
QueryComplete ==
    \A q \in iterating :
        /\ \A k \in DOMAIN query[q].matches : query[q].matches[k] \in DOMAIN archetypes
        /\ Visited(q) = {e \in Live : Required[q] \subseteq ArchetypeOf(e).signature}
        /\ \A k, l \in DOMAIN query[q].matches : query[q].matches[k] = query[q].matches[l] => k = l

\* Every entity is where its slot says it is, in columns as long as the rows,
\* and a query visits every entity it asks for, whenever its cache was built.
StorageSound == TypeOK /\ LocationsSound /\ QueriesKept /\ QueryComplete

\* The components of the entities and their values.
Data(as, loc) ==
    [e \in DOMAIN loc |-> [c \in as[loc[e].archetype].signature |->
        as[loc[e].archetype].columns[c][loc[e].row]]]

Map == INSTANCE EntityComponents WITH data <- Data(archetypes, location)

\* No component changes but by a call that names it, whatever rows move and
\* wherever a call throws.
ImplementsMap == Map!ESpec
=============================================================================
