--------------------------- MODULE StorageProofs ----------------------------
(***************************************************************************)
(* The storage of a scene, for every limit on slots and generations, any   *)
(* types, queries and number of entities.  Of the slots of the entities    *)
(* and of the resources: the free list has every slot that can live again, *)
(* also when clear() rebuilds it, the count of the occupied slots is       *)
(* right, and both implement HandleTable.  Of the archetypes: every entity *)
(* is where its location says, a query visits what it asks for and nothing *)
(* else, and the storage implements EntityComponents.                      *)
(***************************************************************************)
EXTENDS MCStorage, FiniteSetTheorems, SequenceTheorems, NumberInduction, TLAPS

-----------------------------------------------------------------------------
(* A free list, for any slots, links and head.                             *)

\* The slots F are linked from head to the last, each rank once.
Ranked(F, head, next, rank) ==
    /\ rank \in [F -> Nat]
    /\ \A i \in F : rank[i] < Cardinality(F)
    /\ head # Null => head \in F /\ rank[head] = 0
    /\ \A i \in F :
         /\ rank[i] = 0 => i = head
         /\ rank[i] # 0 => \E j \in F : next[j] = i
         /\ next[i] # Null => next[i] \in F /\ rank[next[i]] = rank[i] + 1

OneList(F, head, next) == IsFiniteSet(F) /\ Null \notin F /\ \E rank : Ranked(F, head, next, rank)

\* One step of the recursion of FreeList.
Links(head, next, f) ==
    [n \in Nat |-> IF n = 0 THEN {head} \ {Null}
                  ELSE f[n - 1] \cup ({next[i] : i \in f[n - 1]} \ {Null})]

\* The links reach every slot, each at its rank.
LEMMA ListReached ==
  ASSUME NEW F, NEW head, NEW next, OneList(F, head, next), NEW N \in Nat, Cardinality(F) <= N
  PROVE  \E g : g = Links(head, next, g) /\ \A h : h = Links(head, next, h) => h[N] = F
<1>1. PICK rank : Ranked(F, head, next, rank)
  BY DEF OneList
<1> DEFINE g == [n \in Nat |-> {i \in F : rank[i] <= n}]
<1>2. \A i \in F : rank[i] \in Nat /\ rank[i] < Cardinality(F) /\ Cardinality(F) \in Nat
  BY <1>1, FS_CardinalityType DEF OneList, Ranked
<1>3. /\ head # Null => head \in F /\ rank[head] = 0
      /\ \A i \in F : /\ rank[i] = 0 => i = head
                      /\ rank[i] # 0 => \E j \in F : next[j] = i
                      /\ next[i] # Null => next[i] \in F /\ rank[next[i]] = rank[i] + 1
                      /\ i # Null
  BY <1>1 DEF Ranked, OneList
<1>4. g[0] = {head} \ {Null}
  <2>1. \A i \in F : rank[i] <= 0 <=> i = head
    BY <1>2, <1>3
  <2> QED  BY <1>3, <2>1
<1>5. ASSUME NEW n \in Nat \ {0}
      PROVE  g[n] = g[n - 1] \cup ({next[i] : i \in g[n - 1]} \ {Null})
  <2>1. n - 1 \in Nat /\ n \in Nat
    BY <1>5
  <2>2. g[n] = {i \in F : rank[i] <= n} /\ g[n - 1] = {i \in F : rank[i] <= n - 1}
    BY <2>1
  <2>3. ASSUME NEW i \in F, rank[i] <= n, ~(rank[i] <= n - 1)
        PROVE  \E j \in F : rank[j] <= n - 1 /\ next[j] = i /\ i # Null
    <3>1. PICK j \in F : next[j] = i /\ i # Null
      BY <1>2, <1>3, <1>5, <2>3
    <3>2. rank[i] = rank[j] + 1
      BY <1>3, <3>1
    <3> QED  BY <1>2, <2>1, <2>3, <3>1, <3>2
  <2>4. ASSUME NEW i \in F, rank[i] <= n - 1
        PROVE  rank[i] <= n /\ (next[i] # Null => next[i] \in F /\ rank[next[i]] <= n)
    BY <1>2, <1>3, <2>1, <2>4
  <2> HIDE DEF g
  <2> QED  BY <2>2, <2>3, <2>4
<1> HIDE DEF g
<1>6. g = Links(head, next, g)
  <2>1. \A n \in Nat : g[n] = IF n = 0 THEN {head} \ {Null}
                              ELSE g[n - 1] \cup ({next[i] : i \in g[n - 1]} \ {Null})
    BY <1>4, <1>5
  <2>2. g = [n \in Nat |-> g[n]]
    BY DEF g
  <2> QED  BY <2>1, <2>2 DEF Links
<1>7. g[N] = F
  <2>1. \A i \in F : rank[i] <= N
    BY <1>2
  <2> QED  BY <2>1 DEF g
<1>8. ASSUME NEW h, h = Links(head, next, h) PROVE h[N] = F
  <2>1. h[0] = g[0]
    BY <1>6, <1>8 DEF Links
  <2>2. ASSUME NEW k \in 1 .. N, h[k - 1] = g[k - 1] PROVE h[k] = g[k]
    <3>1. k \in Nat /\ k # 0
      OBVIOUS
    <3>2. /\ Links(head, next, g)[k] = g[k - 1] \cup ({next[i] : i \in g[k - 1]} \ {Null})
          /\ Links(head, next, h)[k] = h[k - 1] \cup ({next[i] : i \in h[k - 1]} \ {Null})
      BY <3>1 DEF Links
    <3> QED  BY <1>6, <1>8, <2>2, <3>2
  <2>3. \A k \in 0 .. N : h[k] = g[k]
    BY <2>1, <2>2, IterationUnique
  <2> QED  BY <1>7, <2>3
<1> QED  BY <1>6, <1>8

\* create() takes the head.
LEMMA HeadTaken ==
  ASSUME NEW F, NEW head, NEW next, OneList(F, head, next), head # Null,
         NEW next2, \A i \in F : i # head => next2[i] = next[i]
  PROVE  head \in F /\ OneList(F \ {head}, next[head], next2)
<1>1. PICK rank : Ranked(F, head, next, rank)
  BY DEF OneList
<1>2. head \in F /\ IsFiniteSet(F) /\ Null \notin F
  BY <1>1 DEF Ranked, OneList
<1> DEFINE G == F \ {head}
           rank2 == [i \in G |-> rank[i] - 1]
<1>3. IsFiniteSet(G) /\ Cardinality(G) = Cardinality(F) - 1 /\ Cardinality(F) \in Nat
  BY <1>2, FS_RemoveElement, FS_CardinalityType
<1>4. \A i \in F : rank[i] \in Nat /\ rank[i] < Cardinality(F)
  BY <1>1 DEF Ranked
<1>5. /\ rank[head] = 0
      /\ \A i \in F : /\ rank[i] = 0 => i = head
                      /\ rank[i] # 0 => \E j \in F : next[j] = i
                      /\ next[i] # Null => next[i] \in F /\ rank[next[i]] = rank[i] + 1
  BY <1>1 DEF Ranked
<1>6. \A i \in G : i \in F /\ rank[i] \in Nat \ {0} /\ rank2[i] = rank[i] - 1 /\ next2[i] = next[i]
  BY <1>4, <1>5
<1>7. rank2 \in [G -> Nat] /\ \A i \in G : rank2[i] < Cardinality(G)
  BY <1>3, <1>4, <1>6
<1> HIDE DEF rank2
<1>8. next[head] # Null => next[head] \in G /\ rank2[next[head]] = 0
  <2>1. ASSUME next[head] # Null PROVE next[head] \in G /\ rank2[next[head]] = 0
    <3>1. next[head] \in F /\ rank[next[head]] = 1
      BY <1>2, <1>5, <2>1
    <3> QED  BY <1>5, <1>6, <3>1
  <2> QED  BY <2>1
<1>9. ASSUME NEW i \in G
      PROVE  /\ rank2[i] = 0 => i = next[head]
             /\ rank2[i] # 0 => \E j \in G : next2[j] = i
             /\ next2[i] # Null => next2[i] \in G /\ rank2[next2[i]] = rank2[i] + 1
  <2>1. PICK j \in F : next[j] = i
    BY <1>5, <1>6
  <2>2. next[j] # Null /\ rank[i] = rank[j] + 1 /\ rank[j] \in Nat
    BY <1>2, <1>4, <1>5, <1>6, <2>1
  <2>3. rank2[i] = 0 => i = next[head]
    BY <1>5, <1>6, <2>1, <2>2
  <2>4. rank2[i] # 0 => \E k \in G : next2[k] = i
    BY <1>5, <1>6, <2>1, <2>2
  <2>5. ASSUME next2[i] # Null PROVE next2[i] \in G /\ rank2[next2[i]] = rank2[i] + 1
    <3>1. next[i] \in F /\ rank[next[i]] = rank[i] + 1 /\ next2[i] = next[i]
      BY <1>5, <1>6, <2>5
    <3>2. next[i] \in G
      BY <1>5, <1>6, <3>1
    <3> QED  BY <1>6, <3>1, <3>2
  <2> QED  BY <2>3, <2>4, <2>5
<1>10. Ranked(G, next[head], next2, rank2)
  BY <1>7, <1>8, <1>9 DEF Ranked
<1> QED  BY <1>2, <1>3, <1>10 DEF OneList

\* destroy() puts a slot before the head.
LEMMA SlotFreed ==
  ASSUME NEW F, NEW head, NEW next, OneList(F, head, next),
         NEW i, i \notin F, i # Null, NEW next2, next2[i] = head, \A j \in F : next2[j] = next[j]
  PROVE  OneList(F \cup {i}, i, next2)
<1>1. PICK rank : Ranked(F, head, next, rank)
  BY DEF OneList
<1> DEFINE G == F \cup {i}
           rank2 == [j \in G |-> IF j = i THEN 0 ELSE rank[j] + 1]
<1>2. IsFiniteSet(G) /\ Cardinality(G) = Cardinality(F) + 1 /\ Cardinality(F) \in Nat /\ Null \notin G
  BY FS_AddElement, FS_CardinalityType DEF OneList
<1>3. \A j \in F : rank[j] \in Nat /\ rank[j] < Cardinality(F) /\ j # Null
  BY <1>1 DEF Ranked, OneList
<1>4. /\ head # Null => head \in F /\ rank[head] = 0
      /\ \A j \in F : /\ rank[j] = 0 => j = head
                      /\ rank[j] # 0 => \E k \in F : next[k] = j
                      /\ next[j] # Null => next[j] \in F /\ rank[next[j]] = rank[j] + 1
  BY <1>1 DEF Ranked
<1>5. rank2[i] = 0 /\ \A j \in F : j \in G /\ j # i /\ rank2[j] = rank[j] + 1 /\ next2[j] = next[j]
  OBVIOUS
<1>6. rank2 \in [G -> Nat] /\ \A j \in G : rank2[j] < Cardinality(G)
  <2>1. \A j \in G : rank2[j] \in Nat /\ rank2[j] < Cardinality(G)
    BY <1>2, <1>3, <1>5
  <2> QED  BY <2>1
<1> HIDE DEF rank2
<1>7. ASSUME NEW j \in G
      PROVE  /\ rank2[j] = 0 => j = i
             /\ rank2[j] # 0 => \E k \in G : next2[k] = j
             /\ next2[j] # Null => next2[j] \in G /\ rank2[next2[j]] = rank2[j] + 1
  <2>1. CASE j = i
    BY <1>4, <1>5, <2>1
  <2>2. CASE j \in F
    <3>1. rank2[j] # 0
      BY <1>3, <1>5, <2>2
    <3>2. \E k \in G : next2[k] = j
      BY <1>3, <1>4, <1>5, <2>2
    <3>3. next2[j] # Null => next2[j] \in G /\ rank2[next2[j]] = rank2[j] + 1
      BY <1>3, <1>4, <1>5, <2>2
    <3> QED  BY <3>1, <3>2, <3>3
  <2> QED  BY <2>1, <2>2
<1>8. i \in G /\ rank2[i] = 0
  BY <1>5
<1>9. Ranked(G, i, next2, rank2)
  BY <1>6, <1>7, <1>8 DEF Ranked
<1> QED  BY <1>2, <1>9 DEF OneList

\* The links of other slots are nothing to the list.
LEMMA ListKept ==
  ASSUME NEW F, NEW head, NEW next, OneList(F, head, next),
         NEW next2, \A i \in F : next2[i] = next[i]
  PROVE  OneList(F, head, next2)
BY DEF OneList, Ranked

\* clear() links each slot to the nearest one below it.
LEMMA SlotsLinked ==
  ASSUME NEW F \in SUBSET Nat, IsFiniteSet(F), NEW head, NEW next,
         \/ F = {} /\ head = Null
         \/ head \in F /\ \A j \in F : j <= head,
         \A i \in F : \/ next[i] = Null /\ \A j \in F : ~(j < i)
                      \/ next[i] \in F /\ next[i] < i /\ \A j \in F : j < i => j <= next[i]
  PROVE  OneList(F, head, next)
<1> DEFINE Above(i) == {j \in F : i < j}
           rank == [i \in F |-> Cardinality(Above(i))]
<1>0. Null \notin F
  BY NullAssumption
<1>1. \A i \in F : IsFiniteSet(Above(i)) /\ Cardinality(Above(i)) \in Nat /\ i \notin Above(i)
  BY FS_Subset, FS_CardinalityType
<1>2. ASSUME NEW i \in F PROVE Cardinality(Above(i)) < Cardinality(F)
  <2>1. IsFiniteSet(F \ {i}) /\ Cardinality(F \ {i}) = Cardinality(F) - 1 /\ Cardinality(F) \in Nat
    BY FS_RemoveElement, FS_CardinalityType
  <2>2. Above(i) \in SUBSET (F \ {i})
    OBVIOUS
  <2>3. Cardinality(Above(i)) <= Cardinality(F \ {i})
    BY <2>1, <2>2, FS_Subset
  <2> QED  BY <1>1, <2>1, <2>3
<1>3. ASSUME NEW i \in F, Above(i) # {} PROVE \E j \in F : next[j] = i
  <2>1. Above(i) \in SUBSET Nat
    OBVIOUS
  <2>2. PICK j \in Above(i) : \A k \in Above(i) : j <= k
    <3> HIDE DEF Above
    <3> QED  BY <1>3, <2>1, LeastNumber
  <2>3. j \in F /\ i < j /\ j \in Nat /\ i \in Nat
    OBVIOUS
  <2>4. PICK n \in F : n = next[j] /\ n < j /\ i <= n
    BY <2>3
  <2>5. ~(i < n)
    <3> SUFFICES ASSUME i < n PROVE FALSE
      OBVIOUS
    <3>1. n \in Above(i)
      BY <2>4
    <3>2. j <= n
      BY <2>2, <3>1
    <3>3. n \in Nat /\ j \in Nat
      BY <2>3
    <3> QED  BY <2>4, <3>2, <3>3
  <2>6. next[j] = i
    <3>1. n \in Nat
      OBVIOUS
    <3> QED  BY <2>3, <2>4, <2>5, <3>1
  <2> QED  BY <2>3, <2>6
<1>4. ASSUME NEW i \in F, next[i] # Null
      PROVE  next[i] \in F /\ Cardinality(Above(next[i])) = Cardinality(Above(i)) + 1
  <2>1. next[i] \in F /\ next[i] < i /\ \A j \in F : j < i => j <= next[i]
    BY <1>4
  <2>2. PICK n \in F : n = next[i]
    BY <2>1
  <2>3. Above(n) = Above(i) \cup {i}
    <3>1. ASSUME NEW j \in F PROVE n < j <=> i < j \/ j = i
      BY <2>1, <2>2
    <3> QED  BY <3>1
  <2> HIDE DEF Above
  <2>4. Cardinality(Above(n)) = Cardinality(Above(i)) + 1
    BY <1>1, <2>3, FS_AddElement
  <2> QED  BY <2>2, <2>4
<1>5. ASSUME NEW i \in F PROVE Cardinality(Above(i)) = 0 <=> Above(i) = {}
  BY <1>1, FS_EmptySet
<1>6. ASSUME NEW i \in F, Above(i) = {} PROVE i = head
  <2>1. head \in F /\ i <= head /\ ~(i < head)
    BY <1>6
  <2> QED  BY <2>1
<1>7. head # Null => head \in F /\ Above(head) = {}
  <2>1. ASSUME head # Null PROVE head \in F /\ Above(head) = {}
    <3>1. head \in F /\ \A j \in F : j <= head
      BY <2>1
    <3>2. \A j \in F : j \in Nat /\ head \in Nat /\ ~(head < j)
      BY <3>1
    <3> QED  BY <3>1, <3>2
  <2> QED  BY <2>1
<1> HIDE DEF Above
<1>8. \A i \in F : rank[i] = Cardinality(Above(i))
  OBVIOUS
<1>9. rank \in [F -> Nat]
  BY <1>1
<1> HIDE DEF rank
<1>10. ASSUME NEW i \in F
       PROVE  /\ rank[i] < Cardinality(F)
              /\ rank[i] = 0 => i = head
              /\ rank[i] # 0 => \E j \in F : next[j] = i
              /\ next[i] # Null => next[i] \in F /\ rank[next[i]] = rank[i] + 1
  BY <1>2, <1>3, <1>4, <1>5, <1>6, <1>8, ZenonT(60)
<1>11. head # Null => head \in F /\ rank[head] = 0
  BY <1>5, <1>7, <1>8
<1>12. Ranked(F, head, next, rank)
  BY <1>9, <1>10, <1>11 DEF Ranked
<1> QED  BY <1>0, <1>12 DEF OneList

-----------------------------------------------------------------------------
(* The slots of the entities.                                              *)

\* Counting and the numbers of slots, as EntitySlots and as this module have them.
LEMMA EntityCardinality == \A S : Entity!Cardinality(S) = Cardinality(S)
BY DEF Entity!Cardinality, Cardinality

LEMMA EntityIndex == Entity!Index = Index /\ Entity!Handle = Handle
BY DEF Entity!Index, Index, Entity!Handle, Handle, Entity!Generations, Generations

\* The slots are finitely many, so their number can be counted.
LEMMA OccupiedFinite == IsFiniteSet(Entity!Occupied)
<1>1. IsFiniteSet(0 .. SlotLimit - 1)
  BY LimitsAssumption, FS_Interval
<1> QED  BY <1>1, FS_Subset DEF Entity!Occupied, Entity!Exists, Entity!Index

LEMMA InitInvariant == Entity!Init => Entity!IInv
<1> SUFFICES ASSUME Entity!Init PROVE Entity!IInv
  OBVIOUS
<1> USE LimitsAssumption, NullAssumption DEF Entity!Init, Entity!Index
<1>1. Entity!TypeOK
  BY DEF Entity!TypeOK, Entity!Generations
<1>2. Entity!FreshGeneration /\ Entity!FreeAreFree /\ Entity!ListShape
  BY DEF Entity!FreshGeneration, Entity!FreeAreFree, Entity!ListShape, Entity!OnList
<1>3. Entity!OccupiedIssued /\ Entity!CountIsOccupied
  BY FS_EmptySet, EntityCardinality DEF Entity!OccupiedIssued, Entity!CountIsOccupied,
       Entity!Occupied,
       Entity!Exists
<1> QED  BY <1>1, <1>2, <1>3 DEF Entity!IInv

(***************************************************************************)
(* The slot create() takes: what it was before, and what changes.          *)
(***************************************************************************)
LEMMA CreateTakes ==
  ASSUME Entity!IInv, Entity!Create
  PROVE  /\ Entity!NextSlot \in Entity!Index
         /\ ~(Entity!NextSlot \in Entity!Occupied)
         /\ Entity!NextHandle \in Entity!Handle \ issued
         /\ Entity!Exists' = Entity!Exists \cup {Entity!NextSlot}
         /\ Entity!Occupied' = Entity!Occupied \cup {Entity!NextSlot}
         /\ occupied' = [occupied EXCEPT ![Entity!NextSlot] = TRUE]
<1> USE LimitsAssumption, NullAssumption DEF Entity!IInv, Entity!TypeOK
<1>1. CASE Entity!Reuse
  <2>1. freeHead \in Entity!Exists /\ ~occupied[freeHead] /\ Entity!NextSlot = freeHead
    BY <1>1 DEF Entity!Reuse, Entity!FreeAreFree, Entity!OnList, Entity!NextSlot
  <2>2. <<freeHead, generation[freeHead]>> \notin issued
    BY <1>1, <2>1 DEF Entity!FreshGeneration, Entity!FreeAreFree, Entity!OnList,
         Entity!Reuse
  <2>3. Entity!Exists' = Entity!Exists /\ occupied' = [occupied EXCEPT ![Entity!NextSlot] = TRUE]
    BY <1>1, <2>1 DEF Entity!Reuse, Entity!Exists
  <2> QED  BY <2>1, <2>2, <2>3 DEF Entity!NextHandle, Entity!Handle, Entity!Occupied,
       Entity!Exists
<1>2. CASE Entity!Grow
  <2>1. Entity!NextSlot = slotCount /\ slotCount \in Entity!Index /\ slotCount \notin Entity!Exists
    BY <1>2 DEF Entity!Grow, Entity!NextSlot, Entity!Exists, Entity!Index
  <2>2. Entity!NextHandle \notin issued
    BY <2>1 DEF Entity!NextHandle, Entity!FreshGeneration
  <2>3. Entity!Exists' = Entity!Exists \cup {slotCount}
    BY <1>2, <2>1 DEF Entity!Grow, Entity!Exists, Entity!Index
  <2>4. occupied' = [occupied EXCEPT ![slotCount] = TRUE]
    BY <1>2 DEF Entity!Grow
  <2> QED  BY <2>1, <2>2, <2>3, <2>4 DEF Entity!NextHandle, Entity!Handle, Entity!Occupied,
       Entity!Exists
<1> QED  BY <1>1, <1>2 DEF Entity!Create

LEMMA CreateInvariant == ASSUME Entity!IInv, Entity!Create PROVE Entity!IInv'
<1> USE LimitsAssumption, NullAssumption
<1> DEFINE n == Entity!NextSlot
<1>1. /\ n \in Entity!Index /\ n \notin Entity!Occupied /\ Entity!NextHandle \in Entity!Handle \ issued
      /\ Entity!Exists' = Entity!Exists \cup {n} /\ Entity!Occupied' = Entity!Occupied \cup {n}
      /\ occupied' = [occupied EXCEPT ![n] = TRUE]
  BY CreateTakes
<1>2. /\ UNCHANGED <<generation, retired>>
      /\ size' = size + 1
      /\ issued' = issued \cup {Entity!NextHandle}
      /\ Entity!NextHandle = <<n, generation[n]>>
  BY DEF Entity!Create, Entity!NextHandle
<1>3. Entity!TypeOK'
  <2>1. CASE Entity!Reuse
    <3>1. nextFree[freeHead] \in Entity!Index \cup {Null}
      BY <2>1 DEF Entity!Reuse, Entity!IInv, Entity!TypeOK
    <3>2. /\ nextFree' \in [Entity!Index -> Entity!Index \cup {Null}]
          /\ freeHead' \in Entity!Index \cup {Null}
      BY <2>1, <3>1 DEF Entity!Reuse, Entity!IInv, Entity!TypeOK
    <3> QED  BY <1>1, <1>2, <2>1, <3>2 DEF Entity!Reuse, Entity!IInv, Entity!TypeOK
  <2>2. CASE Entity!Grow
    <3>1. slotCount' \in 0 .. SlotLimit
      BY <2>2 DEF Entity!Grow, Entity!IInv, Entity!TypeOK
    <3> QED  BY <1>1, <1>2, <2>2, <3>1 DEF Entity!Grow, Entity!IInv, Entity!TypeOK
  <2> QED  BY <2>1, <2>2 DEF Entity!Create
\* The list only loses its head, if anything.
<1>4. \A i \in Entity!Index : Entity!OnList(i)' => Entity!OnList(i) /\ i # n
  <2>1. CASE Entity!Reuse
    <3>1. n = freeHead
      BY <2>1 DEF Entity!Reuse, Entity!NextSlot
    <3>2. \A i \in Entity!Index : nextFree'[i] = IF i = n THEN Null ELSE nextFree[i]
      BY <2>1, <3>1 DEF Entity!Reuse, Entity!IInv, Entity!TypeOK
    <3>3. \A i \in Entity!Index : nextFree[i] # n
      BY <2>1, <3>1 DEF Entity!Reuse, Entity!IInv, Entity!ListShape
    <3>4. freeHead' = nextFree[n]
      BY <2>1, <3>1 DEF Entity!Reuse
    <3> QED  BY <1>1, <3>2, <3>3, <3>4 DEF Entity!OnList, Entity!Index
  <2>2. CASE Entity!Grow
    <3>1. \A i \in Entity!Index : Entity!OnList(i) => i \in Entity!Exists
      BY DEF Entity!IInv, Entity!FreeAreFree
    <3>2. n \notin Entity!Exists
      BY <2>2 DEF Entity!Grow, Entity!NextSlot, Entity!Exists, Entity!IInv, Entity!TypeOK
    <3> QED  BY <2>2, <3>1, <3>2 DEF Entity!Grow, Entity!OnList
  <2> QED  BY <2>1, <2>2 DEF Entity!Create
<1>5. Entity!FreshGeneration'
  <2>1. ASSUME NEW h \in issued' PROVE h[1] \in Entity!Exists' /\ h[2] <= generation'[h[1]]
    BY <1>1, <1>2, <2>1 DEF Entity!IInv, Entity!FreshGeneration, Entity!TypeOK,
         Entity!Generations, Entity!Handle
  <2>2. ASSUME NEW i \in Entity!Exists', ~occupied'[i], ~retired'[i]
        PROVE  <<i, generation'[i]>> \notin issued'
    BY <1>1, <1>2, <2>2 DEF Entity!IInv, Entity!FreshGeneration, Entity!TypeOK
  <2> QED  BY <2>1, <2>2 DEF Entity!FreshGeneration
<1>6. Entity!FreeAreFree'
  <2>1. ~retired[n]
    <3>1. CASE Entity!Reuse
      BY <3>1 DEF Entity!Reuse, Entity!NextSlot, Entity!IInv, Entity!TypeOK,
           Entity!FreeAreFree, Entity!OnList
    <3>2. CASE Entity!Grow
      <4>1. n = slotCount /\ slotCount \notin Entity!Exists
        BY <3>2 DEF Entity!Grow, Entity!NextSlot, Entity!IInv, Entity!TypeOK, Entity!Exists
      <4> QED  BY <1>1, <4>1 DEF Entity!IInv, Entity!FreeAreFree
    <3> QED  BY <3>1, <3>2 DEF Entity!Create
  <2>2. \A i \in Entity!Index : Entity!OnList(i)' => i \in Entity!Exists' /\ ~occupied'[i] /\ ~retired'[i]
    BY <1>1, <1>2, <1>4 DEF Entity!IInv, Entity!FreeAreFree, Entity!TypeOK
  <2>3. \A i \in Entity!Index : retired'[i] => i \in Entity!Exists' /\ ~occupied'[i]
    BY <1>1, <1>2, <2>1 DEF Entity!IInv, Entity!FreeAreFree, Entity!TypeOK
  <2> QED  BY <2>2, <2>3 DEF Entity!FreeAreFree
<1>7. Entity!ListShape'
  <2>1. CASE Entity!Reuse
    <3>1. \A i \in Entity!Index : nextFree'[i] = IF i = freeHead THEN Null ELSE nextFree[i]
      BY <2>1 DEF Entity!Reuse, Entity!IInv, Entity!TypeOK
    <3> QED  BY <2>1, <3>1 DEF Entity!Reuse, Entity!IInv, Entity!ListShape, Entity!TypeOK
  <2>2. CASE Entity!Grow
    BY <2>2 DEF Entity!Grow, Entity!IInv, Entity!ListShape
  <2> QED  BY <2>1, <2>2 DEF Entity!Create
<1>8. Entity!OccupiedIssued'
  BY <1>1, <1>2 DEF Entity!IInv, Entity!OccupiedIssued
<1>9. Entity!CountIsOccupied'
  BY <1>1, <1>2, OccupiedFinite, FS_AddElement, EntityCardinality
     DEF Entity!IInv, Entity!CountIsOccupied
<1> QED  BY <1>3, <1>5, <1>6, <1>7, <1>8, <1>9 DEF Entity!IInv

LEMMA DestroyInvariant ==
  ASSUME Entity!IInv, NEW h \in Entity!Handle, Entity!Destroy(h) PROVE Entity!IInv'
<1> USE LimitsAssumption, NullAssumption
<1> DEFINE i == h[1]
<1>1. /\ i \in Entity!Index /\ i \in Entity!Exists /\ i \in Entity!Occupied /\ ~Entity!OnList(i)
      /\ occupied' = [occupied EXCEPT ![i] = FALSE]
      /\ size' = size - 1
      /\ UNCHANGED <<slotCount, issued>>
  BY DEF Entity!Destroy, Entity!contains, Entity!Exists, Entity!Occupied, Entity!IInv,
       Entity!FreeAreFree
<1>2. Entity!Exists' = Entity!Exists /\ Entity!Occupied' = Entity!Occupied \ {i}
  BY <1>1 DEF Entity!Exists, Entity!Occupied, Entity!IInv, Entity!TypeOK
<1>3. size \in Nat \ {0}
  <2>1. Entity!Cardinality(Entity!Occupied) # 0
    BY <1>1, OccupiedFinite, FS_EmptySet, EntityCardinality
  <2> QED  BY <2>1 DEF Entity!IInv, Entity!CountIsOccupied, Entity!TypeOK
<1>4. Entity!CountIsOccupied'
  BY <1>1, <1>2, OccupiedFinite, FS_RemoveElement, EntityCardinality
     DEF Entity!IInv, Entity!CountIsOccupied
<1>5. CASE Entity!Retiring(i)
  <2>1. /\ nextFree' = [nextFree EXCEPT ![i] = Null]
        /\ retired' = [retired EXCEPT ![i] = TRUE]
        /\ UNCHANGED <<generation, freeHead>>
    BY <1>5 DEF Entity!Destroy
  <2>2. Entity!TypeOK'
    BY <1>1, <1>3, <2>1 DEF Entity!IInv, Entity!TypeOK
  <2>3. \A k \in Entity!Index : Entity!OnList(k)' => Entity!OnList(k)
    BY <1>1, <2>1 DEF Entity!OnList, Entity!IInv, Entity!TypeOK, Entity!Index
  <2>4. Entity!FreshGeneration' /\ Entity!FreeAreFree'
    BY <1>1, <1>2, <2>1, <2>3 DEF Entity!IInv, Entity!FreshGeneration, Entity!FreeAreFree,
         Entity!TypeOK
  <2>5. Entity!ListShape'
    BY <1>1, <2>1 DEF Entity!IInv, Entity!ListShape, Entity!TypeOK
  <2>6. Entity!OccupiedIssued'
    BY <1>1, <1>2, <2>1 DEF Entity!IInv, Entity!OccupiedIssued
  <2> QED  BY <1>4, <2>2, <2>4, <2>5, <2>6 DEF Entity!IInv
<1>6. CASE ~Entity!Retiring(i)
  <2>1. /\ generation' = [generation EXCEPT ![i] = generation[i] + 1]
        /\ nextFree' = [nextFree EXCEPT ![i] = freeHead]
        /\ freeHead' = i
        /\ UNCHANGED retired
    BY <1>6 DEF Entity!Destroy, Entity!NextGeneration
  <2>2. generation[i] + 1 \in Entity!Generations
    BY <1>1, <1>6 DEF Entity!IInv, Entity!TypeOK, Entity!Generations, Entity!Retiring
  <2>3. Entity!TypeOK'
    BY <1>1, <1>3, <2>1, <2>2 DEF Entity!IInv, Entity!TypeOK
  <2>4. \A k \in Entity!Index : Entity!OnList(k)' => Entity!OnList(k) \/ k = i
    BY <1>1, <2>1 DEF Entity!OnList, Entity!IInv, Entity!TypeOK, Entity!Index
  <2>5. Entity!FreshGeneration'
    <3>1. ASSUME NEW g \in issued PROVE g[1] \in Entity!Exists /\ g[2] <= generation'[g[1]]
      <4>1. g \in Entity!Handle /\ g[1] \in Entity!Exists /\ g[2] <= generation[g[1]]
        BY <3>1 DEF Entity!IInv, Entity!FreshGeneration, Entity!TypeOK
      <4> QED  BY <4>1, <2>1 DEF Entity!IInv, Entity!TypeOK, Entity!Generations,
           Entity!Handle
    <3>2. <<i, generation[i] + 1>> \notin issued
      BY <1>1 DEF Entity!IInv, Entity!FreshGeneration, Entity!TypeOK, Entity!Generations
    <3>3. ASSUME NEW k \in Entity!Exists, ~occupied'[k], ~retired'[k]
          PROVE  <<k, generation'[k]>> \notin issued
      BY <1>1, <2>1, <3>2, <3>3 DEF Entity!IInv, Entity!FreshGeneration, Entity!TypeOK,
           Entity!Exists
    <3> QED  BY <1>1, <1>2, <3>1, <3>3 DEF Entity!FreshGeneration
  <2>6. Entity!FreeAreFree'
    <3>1. ~retired[i] /\ ~retired'[i] /\ ~occupied'[i]
      BY <1>1, <2>1 DEF Entity!IInv, Entity!FreeAreFree, Entity!TypeOK, Entity!Occupied
    <3>2. ASSUME NEW k \in Entity!Index, k # i PROVE occupied'[k] = occupied[k]
      BY <1>1, <3>2 DEF Entity!IInv, Entity!TypeOK
    <3>3. \A k \in Entity!Index : Entity!OnList(k)' => k \in Entity!Exists' /\ ~occupied'[k] /\ ~retired'[k]
      BY <1>1, <1>2, <2>1, <2>4, <3>1, <3>2 DEF Entity!IInv, Entity!FreeAreFree
    <3>4. \A k \in Entity!Index : retired'[k] => k \in Entity!Exists' /\ ~occupied'[k]
      BY <1>1, <1>2, <2>1, <3>1, <3>2 DEF Entity!IInv, Entity!FreeAreFree
    <3> QED  BY <3>3, <3>4 DEF Entity!FreeAreFree
  <2>7. Entity!ListShape'
    <3>1. \A k \in Entity!Index : nextFree'[k] = IF k = i THEN freeHead ELSE nextFree[k]
      BY <2>1 DEF Entity!IInv, Entity!TypeOK
    <3>2. freeHead # i /\ \A k \in Entity!Index : nextFree[k] # i
      BY <1>1 DEF Entity!OnList
    <3>3. \A k \in Entity!Index : nextFree[k] # Null => nextFree[k] # freeHead
      BY DEF Entity!IInv, Entity!ListShape
    <3> QED  BY <2>1, <3>1, <3>2, <3>3 DEF Entity!IInv, Entity!ListShape
  <2>8. Entity!OccupiedIssued'
    BY <1>1, <1>2, <2>1 DEF Entity!IInv, Entity!OccupiedIssued, Entity!TypeOK,
         Entity!Exists, Entity!Occupied
  <2> QED  BY <1>4, <2>3, <2>5, <2>6, <2>7, <2>8 DEF Entity!IInv
<1> QED  BY <1>5, <1>6

(***************************************************************************)
(* The last of some slots: Last really picks one.                          *)
(***************************************************************************)
LEMMA LastExists ==
  ASSUME NEW S \in SUBSET Entity!Index, S # {}
  PROVE  Entity!Last(S) \in S /\ \A j \in S : j <= Entity!Last(S)
<1> USE LimitsAssumption DEF Entity!Index
<1> DEFINE T == {SlotLimit - i : i \in S}
<1>1. T \subseteq Nat /\ T # {}
  <2>1. \A i \in S : i \in 0 .. SlotLimit - 1
    OBVIOUS
  <2>2. \A i \in S : SlotLimit - i \in Nat
    BY <2>1
  <2> QED  BY <2>2
<1>2. PICK x \in T : \A y \in T : ~(<<y, x>> \in OpToRel(<, Nat))
  <2> HIDE DEF T
  <2> QED  BY <1>1, NatLessThanWellFounded, WFMin
<1>3. PICK i \in S : x = SlotLimit - i
  OBVIOUS
<1>4. ASSUME NEW j \in S PROVE j <= i
  <2>1. ~(SlotLimit - j < x)
    BY <1>1, <1>2 DEF OpToRel
  <2> QED  BY <1>3, <2>1
<1> QED  BY <1>3, <1>4 DEF Entity!Last

LEMMA ClearInvariant == ASSUME Entity!IInv, Entity!Clear PROVE Entity!IInv'
<1> USE LimitsAssumption, NullAssumption
<1> DEFINE Below(i) == {j \in Entity!Relinked : j < i}
<1>1. /\ UNCHANGED <<slotCount, issued>> /\ Entity!Exists' = Entity!Exists /\ Entity!Occupied' = {}
      /\ \A i \in Entity!Index : ~occupied'[i]
      /\ size' = 0
      /\ Entity!Relinked \subseteq Entity!Exists /\ Entity!Exists \subseteq Entity!Index
  BY DEF Entity!Clear, Entity!Exists, Entity!Occupied, Entity!Relinked, Entity!Reusable
<1>2. /\ generation' \in [Entity!Index -> Entity!Generations]
      /\ \A i \in Entity!Index : generation[i] <= generation'[i]
      /\ \A i \in Entity!Occupied : i \in Entity!Relinked => generation'[i] = generation[i] + 1
      /\ \A i \in Entity!Index : i \notin Entity!Occupied => generation'[i] = generation[i]
  <2>1. ASSUME NEW i \in Entity!Index
        PROVE  /\ Entity!ClearedGeneration(i) \in Entity!Generations
               /\ generation[i] <= Entity!ClearedGeneration(i)
               /\ i \in Entity!Occupied /\ i \in Entity!Relinked => Entity!ClearedGeneration(i) = generation[i] + 1
               /\ i \notin Entity!Occupied => Entity!ClearedGeneration(i) = generation[i]
    BY DEF Entity!ClearedGeneration, Entity!NextGeneration, Entity!Retiring,
         Entity!Relinked, Entity!Reusable, Entity!Generations,
           Entity!IInv, Entity!TypeOK, Entity!Occupied
  <2>2. \A i \in Entity!Index : generation'[i] = Entity!ClearedGeneration(i)
    BY DEF Entity!Clear
  <2>3. generation' = [i \in Entity!Index |-> Entity!ClearedGeneration(i)]
    BY DEF Entity!Clear
  <2>4. Entity!Occupied \subseteq Entity!Index
    BY DEF Entity!Occupied, Entity!Exists
  <2> HIDE DEF Entity!Index, Entity!Generations
  <2> QED  BY <2>1, <2>2, <2>3, <2>4
<1>3. \A i \in Entity!Index : retired'[i] <=> i \in Entity!Exists /\ i \notin Entity!Relinked
  BY DEF Entity!Clear, Entity!Relinked
<1>4. \A i \in Entity!Index : nextFree'[i] = IF i \in Entity!Relinked THEN Entity!Last(Below(i)) ELSE Null
  BY DEF Entity!Clear
<1>5. freeHead' = Entity!Last(Entity!Relinked)
  BY DEF Entity!Clear
\* A link points to a lower slot of the new list, and to nothing in between.
<1>6. ASSUME NEW i \in Entity!Relinked
      PROVE  \/ Below(i) = {} /\ nextFree'[i] = Null
             \/ /\ nextFree'[i] \in Entity!Relinked /\ nextFree'[i] < i
                /\ \A j \in Entity!Relinked : j < i => j <= nextFree'[i]
  <2>1. nextFree'[i] = Entity!Last(Below(i))
    BY <1>1, <1>4
  <2>2. CASE Below(i) = {}
    BY <2>1, <2>2 DEF Entity!Last
  <2>3. CASE Below(i) # {}
    <3>1. Below(i) \in SUBSET Entity!Index
      BY <1>1
    <3> HIDE DEF Below
    <3>2. Entity!Last(Below(i)) \in Below(i) /\ \A j \in Below(i) : j <= Entity!Last(Below(i))
      BY <2>3, <3>1, LastExists
    <3> QED  BY <2>1, <3>2 DEF Below
  <2> QED  BY <2>2, <2>3
<1>7. \/ Entity!Relinked = {} /\ freeHead' = Null
      \/ freeHead' \in Entity!Relinked /\ \A j \in Entity!Relinked : j <= freeHead'
  <2>1. CASE Entity!Relinked = {}
    BY <1>5, <2>1 DEF Entity!Last
  <2>2. CASE Entity!Relinked # {}
    <3>1. Entity!Relinked \in SUBSET Entity!Index
      BY <1>1
    <3> QED  BY <1>5, <2>2, <3>1, LastExists
  <2> QED  BY <2>1, <2>2
<1>8. \A i \in Entity!Index : i \notin Entity!Relinked => nextFree'[i] = Null
  BY <1>4
<1>9. Entity!TypeOK'
  <2>1. freeHead' \in Entity!Index \cup {Null}
    BY <1>1, <1>7
  <2>2. \A i \in Entity!Index : nextFree'[i] \in Entity!Index \cup {Null}
    BY <1>1, <1>6, <1>8
  <2>3. nextFree' \in [Entity!Index -> Entity!Index \cup {Null}]
    BY <2>2 DEF Entity!Clear
  <2>4. /\ occupied' \in [Entity!Index -> BOOLEAN] /\ retired' \in [Entity!Index -> BOOLEAN]
        /\ size' \in Nat
    BY DEF Entity!Clear
  <2> QED  BY <1>1, <1>2, <2>1, <2>3, <2>4 DEF Entity!TypeOK, Entity!IInv
<1>10. \A i \in Entity!Index : Entity!OnList(i)' => i \in Entity!Relinked
  <2> SUFFICES ASSUME NEW i \in Entity!Index, Entity!OnList(i)' PROVE i \in Entity!Relinked
    OBVIOUS
  <2>1. CASE i = freeHead'
    BY <1>7, <2>1 DEF Entity!Index
  <2>2. CASE \E j \in Entity!Index : nextFree'[j] = i
    <3>1. PICK j \in Entity!Index : nextFree'[j] = i
      BY <2>2
    <3>2. i # Null
      BY DEF Entity!Index
    <3>3. j \in Entity!Relinked
      BY <1>8, <3>1, <3>2
    <3> QED  BY <1>6, <3>1, <3>2, <3>3
  <2> QED  BY <2>1, <2>2 DEF Entity!OnList
<1>11. Entity!FreshGeneration'
  <2>1. ASSUME NEW h \in issued PROVE h[1] \in Entity!Exists /\ h[2] <= generation'[h[1]]
    <3>1. h \in Entity!Handle /\ h[1] \in Entity!Exists /\ h[2] <= generation[h[1]]
      BY DEF Entity!IInv, Entity!TypeOK, Entity!FreshGeneration
    <3>2. generation[h[1]] <= generation'[h[1]] /\ h[1] \in Entity!Index
      BY <1>1, <1>2, <3>1
    <3> QED  BY <1>2, <3>1, <3>2 DEF Entity!Handle, Entity!Generations, Entity!IInv,
         Entity!TypeOK
  <2>2. ASSUME NEW i \in Entity!Exists, ~retired'[i] PROVE <<i, generation'[i]>> \notin issued
    <3>1. i \in Entity!Index /\ i \in Entity!Relinked
      BY <1>1, <1>3, <2>2
    <3>2. CASE i \in Entity!Occupied
      <4>1. generation'[i] = generation[i] + 1 /\ generation[i] \in Nat
        BY <1>2, <3>1, <3>2 DEF Entity!IInv, Entity!TypeOK, Entity!Generations
      <4> QED  BY <4>1 DEF Entity!IInv, Entity!FreshGeneration
    <3>3. CASE i \notin Entity!Occupied
      BY <1>2, <3>1, <3>3 DEF Entity!IInv, Entity!FreshGeneration, Entity!Occupied,
           Entity!Relinked, Entity!Reusable
    <3> QED  BY <3>2, <3>3
  <2> QED  BY <1>1, <2>1, <2>2 DEF Entity!FreshGeneration
<1>12. Entity!FreeAreFree'
  BY <1>1, <1>3, <1>10 DEF Entity!FreeAreFree
<1>13. Entity!ListShape'
  <2>1. ASSUME NEW i \in Entity!Index, NEW j \in Entity!Index,
               nextFree'[i] = nextFree'[j], nextFree'[i] # Null
        PROVE  i = j
    <3>1. i \in Entity!Relinked /\ j \in Entity!Relinked
      BY <1>8, <2>1
    <3>2. /\ nextFree'[i] < i /\ nextFree'[i] < j
          /\ \A k \in Entity!Relinked : (k < i \/ k < j) => k <= nextFree'[i]
      BY <1>6, <2>1, <3>1
    <3>3. i \in Nat /\ j \in Nat /\ nextFree'[i] \in Nat
      <4>1. nextFree'[i] \in Entity!Relinked
        BY <1>6, <2>1, <3>1
      <4>2. Entity!Relinked \subseteq Nat
        BY <1>1 DEF Entity!Index
      <4> QED  BY <3>1, <4>1, <4>2
    <3>4. ~(i < j)
      <4> SUFFICES ASSUME i < j PROVE FALSE
        OBVIOUS
      <4>1. i <= nextFree'[i]
        BY <3>1, <3>2
      <4> QED  BY <3>2, <3>3, <4>1
    <3>5. ~(j < i)
      <4> SUFFICES ASSUME j < i PROVE FALSE
        OBVIOUS
      <4>1. j <= nextFree'[i]
        BY <3>1, <3>2
      <4> QED  BY <3>2, <3>3, <4>1
    <3> QED  BY <3>3, <3>4, <3>5
  <2>2. ASSUME NEW i \in Entity!Index, freeHead' # Null PROVE nextFree'[i] # freeHead'
    <3>1. freeHead' \in Entity!Relinked /\ \A j \in Entity!Relinked : j <= freeHead'
      BY <1>7, <2>2
    <3>2. CASE i \in Entity!Relinked
      BY <1>1, <1>6, <2>2, <3>1, <3>2 DEF Entity!Index
    <3>3. CASE i \notin Entity!Relinked
      BY <1>8, <2>2, <3>3
    <3> QED  BY <3>2, <3>3
  <2> QED  BY <2>1, <2>2 DEF Entity!ListShape
<1>14. Entity!OccupiedIssued' /\ Entity!CountIsOccupied'
  BY <1>1, FS_EmptySet, EntityCardinality DEF Entity!OccupiedIssued, Entity!CountIsOccupied
<1> QED  BY <1>9, <1>11, <1>12, <1>13, <1>14 DEF Entity!IInv

LEMMA StepInvariant == Entity!IInv /\ [Entity!Next]_Entity!vars => Entity!IInv'
<1> SUFFICES ASSUME Entity!IInv, [Entity!Next]_Entity!vars PROVE Entity!IInv'
  OBVIOUS
<1>1. CASE Entity!Create
  BY <1>1, CreateInvariant
<1>2. ASSUME NEW h \in Entity!Handle, Entity!Destroy(h) PROVE Entity!IInv'
  BY <1>2, DestroyInvariant
<1>3. CASE Entity!Clear
  BY <1>3, ClearInvariant
<1>4. CASE UNCHANGED Entity!vars
  BY <1>4 DEF Entity!vars, Entity!IInv, Entity!TypeOK, Entity!FreshGeneration,
       Entity!FreeAreFree, Entity!ListShape, Entity!OnList,
              Entity!OccupiedIssued, Entity!CountIsOccupied, Entity!Occupied, Entity!Exists
<1> QED  BY <1>1, <1>2, <1>3, <1>4 DEF Entity!Next

LEMMA Invariance == Entity!Spec => []Entity!IInv
<1> QED  BY InitInvariant, StepInvariant, PTL DEF Entity!Spec

(***************************************************************************)
(* Every variable keeps its type: no generation passes its limit, no link  *)
(* leaves the table.                                                       *)
(***************************************************************************)
THEOREM TypeCorrect == Entity!Spec => []Entity!TypeOK
<1>1. Entity!IInv => Entity!TypeOK
  BY DEF Entity!IInv
<1> QED  BY <1>1, Invariance, PTL

(***************************************************************************)
(* size() is the number of occupied slots.                                 *)
(***************************************************************************)
THEOREM CountCorrect == Entity!Spec => []Entity!CountIsOccupied
<1>1. Entity!IInv => Entity!CountIsOccupied
  BY DEF Entity!IInv
<1> QED  BY <1>1, Invariance, PTL

(***************************************************************************)
(* EntitySlots implements HandleTable: no handle is given out twice, and   *)
(* one resolves exactly from create() to destroy() or clear().             *)
(***************************************************************************)
THEOREM ImplementsTableCorrect == Entity!Spec => EntityImplementsTable
<1>1. Entity!Init => EntityTable!Init
  BY DEF Entity!Init, EntityTable!Init, Entity!Live, Entity!contains, Entity!Exists,
       Entity!Index
<1>2. ASSUME Entity!IInv, [Entity!Next]_Entity!vars PROVE [EntityTable!Next]_<<Entity!Live, issued>>
  <2>1. CASE Entity!Create
    <3>1. /\ Entity!NextSlot \in Entity!Index /\ Entity!NextSlot \notin Entity!Occupied
          /\ Entity!NextHandle \in Entity!Handle \ issued
          /\ Entity!Exists' = Entity!Exists \cup {Entity!NextSlot}
          /\ occupied' = [occupied EXCEPT ![Entity!NextSlot] = TRUE]
      BY <1>2, <2>1, CreateTakes
    <3>2. UNCHANGED generation /\ issued' = issued \cup {Entity!NextHandle}
      BY <2>1 DEF Entity!Create
    <3>3. Entity!Live' = Entity!Live \cup {Entity!NextHandle}
      <4>1. ASSUME NEW h \in Entity!Handle
            PROVE  h \in Entity!Live' <=> h \in Entity!Live \/ h = Entity!NextHandle
        <5>1. CASE h[1] = Entity!NextSlot
          BY <1>2, <3>1, <3>2, <5>1 DEF Entity!Live, Entity!contains, Entity!NextHandle,
               Entity!Handle, Entity!Occupied, Entity!IInv,
               Entity!TypeOK
        <5>2. CASE h[1] # Entity!NextSlot
          BY <1>2, <3>1, <3>2, <5>2 DEF Entity!Live, Entity!contains, Entity!NextHandle,
               Entity!Exists, Entity!IInv, Entity!TypeOK
        <5> QED  BY <5>1, <5>2
      <4> QED  BY <3>1, <4>1 DEF Entity!Live
    <3> QED  BY <3>1, <3>2, <3>3, EntityIndex DEF EntityTable!Next, EntityTable!Create
  <2>2. ASSUME NEW g \in Entity!Handle, Entity!Destroy(g) PROVE EntityTable!Next
    <3>1. /\ g \in Entity!Live /\ g[1] \in Entity!Exists
          /\ occupied' = [occupied EXCEPT ![g[1]] = FALSE]
          /\ UNCHANGED <<slotCount, issued>>
          /\ \A k \in Entity!Index : k # g[1] => generation'[k] = generation[k]
      BY <1>2, <2>2 DEF Entity!Destroy, Entity!Live, Entity!contains, Entity!IInv,
           Entity!TypeOK
    <3>2. Entity!Live' = Entity!Live \ {g}
      <4>1. ASSUME NEW h \in Entity!Handle PROVE h \in Entity!Live' <=> h \in Entity!Live /\ h # g
        <5>1. CASE h[1] = g[1]
          BY <1>2, <3>1, <5>1 DEF Entity!Live, Entity!contains, Entity!Handle,
               Entity!Exists, Entity!IInv, Entity!TypeOK
        <5>2. CASE h[1] # g[1]
          BY <1>2, <3>1, <5>2 DEF Entity!Live, Entity!contains, Entity!Exists, Entity!IInv,
               Entity!TypeOK
        <5> QED  BY <5>1, <5>2
      <4> QED  BY <4>1 DEF Entity!Live
    <3> QED  BY <3>1, <3>2 DEF EntityTable!Next, EntityTable!Destroy
  <2>3. CASE Entity!Clear
    BY <2>3 DEF Entity!Clear, Entity!Live, Entity!contains, Entity!Exists, Entity!Handle,
         EntityTable!Next, EntityTable!Clear
  <2>4. CASE UNCHANGED Entity!vars
    BY <2>4 DEF Entity!vars, Entity!Live, Entity!contains, Entity!Exists
  <2> QED  BY <1>2, <2>1, <2>2, <2>3, <2>4 DEF Entity!Next
<1> QED  BY <1>1, <1>2, Invariance, PTL DEF Entity!Spec, EntityImplementsTable,
     EntityTable!Spec

-----------------------------------------------------------------------------
(* The slots of the resources.                                             *)

\* Counting, as ResourceSlots and as this module have it.
LEMMA ResourceCardinality == \A S : Resource!Cardinality(S) = Cardinality(S)
BY DEF Resource!Cardinality, Cardinality

\* The slots are finitely many, so their number can be counted.
LEMMA ResourceOccupiedFinite == IsFiniteSet(Resource!Occupied)
<1>1. IsFiniteSet(0 .. SlotLimit - 1)
  BY LimitsAssumption, FS_Interval
<1> QED  BY <1>1, FS_Subset DEF Resource!Occupied, Resource!Exists, Resource!Index

LEMMA ResourceInitInvariant == Resource!Init => Resource!IInv
<1> SUFFICES ASSUME Resource!Init PROVE Resource!IInv
  OBVIOUS
<1> USE LimitsAssumption, NullAssumption DEF Resource!Init, Resource!Index
<1>1. Resource!TypeOK
  BY DEF Resource!TypeOK, Resource!Generations
<1>2. Resource!FreshGeneration /\ Resource!FreeAreFree /\ Resource!ListShape
  BY DEF Resource!FreshGeneration, Resource!FreeAreFree, Resource!ListShape, Resource!OnList
<1>3. Resource!OccupiedIssued /\ Resource!CountIsOccupied
  BY FS_EmptySet, ResourceCardinality DEF Resource!OccupiedIssued,
       Resource!CountIsOccupied, Resource!Occupied, Resource!Exists
<1> QED  BY <1>1, <1>2, <1>3 DEF Resource!IInv

(***************************************************************************)
(* The slot create() takes: what it was before, and what changes.          *)
(***************************************************************************)
LEMMA ResourceCreateTakes ==
  ASSUME Resource!IInv, Resource!Create
  PROVE  /\ Resource!NextSlot \in Resource!Index
         /\ ~(Resource!NextSlot \in Resource!Occupied)
         /\ Resource!NextHandle \in Resource!Handle \ rIssued
         /\ Resource!Exists' = Resource!Exists \cup {Resource!NextSlot}
         /\ Resource!Occupied' = Resource!Occupied \cup {Resource!NextSlot}
         /\ rOccupied' = [rOccupied EXCEPT ![Resource!NextSlot] = TRUE]
<1> USE LimitsAssumption, NullAssumption DEF Resource!IInv, Resource!TypeOK
<1>1. CASE Resource!Reuse
  <2>1. rFreeHead \in Resource!Exists /\ ~rOccupied[rFreeHead] /\ Resource!NextSlot = rFreeHead
    BY <1>1 DEF Resource!Reuse, Resource!FreeAreFree, Resource!OnList, Resource!NextSlot
  <2>2. <<rFreeHead, rGeneration[rFreeHead]>> \notin rIssued
    BY <2>1 DEF Resource!FreshGeneration, Resource!OnList, Resource!Exists
  <2>3. /\ Resource!Exists' = Resource!Exists
        /\ rOccupied' = [rOccupied EXCEPT ![Resource!NextSlot] = TRUE]
    BY <1>1, <2>1 DEF Resource!Reuse, Resource!Exists
  <2> QED  BY <2>1, <2>2, <2>3 DEF Resource!NextHandle, Resource!Handle, Resource!Occupied,
       Resource!Exists
<1>2. CASE Resource!Grow
  <2>1. /\ Resource!NextSlot = rSlotCount /\ rSlotCount \in Resource!Index
        /\ rSlotCount \notin Resource!Exists
    BY <1>2 DEF Resource!Grow, Resource!NextSlot, Resource!Exists, Resource!Index
  <2>2. Resource!NextHandle \notin rIssued
    BY <2>1 DEF Resource!NextHandle, Resource!FreshGeneration
  <2>3. Resource!Exists' = Resource!Exists \cup {rSlotCount}
    BY <1>2, <2>1 DEF Resource!Grow, Resource!Exists, Resource!Index
  <2>4. rOccupied' = [rOccupied EXCEPT ![rSlotCount] = TRUE]
    BY <1>2 DEF Resource!Grow
  <2> QED  BY <2>1, <2>2, <2>3, <2>4 DEF Resource!NextHandle, Resource!Handle,
       Resource!Occupied, Resource!Exists
<1> QED  BY <1>1, <1>2 DEF Resource!Create

LEMMA ResourceCreateInvariant == ASSUME Resource!IInv, Resource!Create PROVE Resource!IInv'
<1> USE LimitsAssumption, NullAssumption
<1> DEFINE n == Resource!NextSlot
<1>1. /\ n \in Resource!Index /\ n \notin Resource!Occupied
      /\ Resource!NextHandle \in Resource!Handle \ rIssued
      /\ Resource!Exists' = Resource!Exists \cup {n} /\ Resource!Occupied' = Resource!Occupied \cup {n}
      /\ rOccupied' = [rOccupied EXCEPT ![n] = TRUE]
  BY ResourceCreateTakes
<1>2. /\ UNCHANGED rGeneration
      /\ rLiveCount' = rLiveCount + 1
      /\ rIssued' = rIssued \cup {Resource!NextHandle}
      /\ Resource!NextHandle = <<n, rGeneration[n]>>
  BY DEF Resource!Create, Resource!NextHandle
<1>3. Resource!TypeOK'
  <2>1. CASE Resource!Reuse
    <3>1. rNextFree[rFreeHead] \in Resource!Index \cup {Null}
      BY <2>1 DEF Resource!Reuse, Resource!IInv, Resource!TypeOK
    <3>2. /\ rNextFree' \in [Resource!Index -> Resource!Index \cup {Null}]
          /\ rFreeHead' \in Resource!Index \cup {Null}
      BY <2>1, <3>1 DEF Resource!Reuse, Resource!IInv, Resource!TypeOK
    <3> QED  BY <1>1, <1>2, <2>1, <3>2 DEF Resource!Reuse, Resource!IInv, Resource!TypeOK
  <2>2. CASE Resource!Grow
    <3>1. rSlotCount' \in 0 .. SlotLimit
      BY <2>2 DEF Resource!Grow, Resource!IInv, Resource!TypeOK
    <3> QED  BY <1>1, <1>2, <2>2, <3>1 DEF Resource!Grow, Resource!IInv, Resource!TypeOK
  <2> QED  BY <2>1, <2>2 DEF Resource!Create
\* The list only loses its head, if anything.
<1>4. \A i \in Resource!Index : Resource!OnList(i)' => Resource!OnList(i) /\ i # n
  <2>1. CASE Resource!Reuse
    <3>1. n = rFreeHead
      BY <2>1 DEF Resource!Reuse, Resource!NextSlot
    <3>2. \A i \in Resource!Index : rNextFree'[i] = IF i = n THEN Null ELSE rNextFree[i]
      BY <2>1, <3>1 DEF Resource!Reuse, Resource!IInv, Resource!TypeOK
    <3>3. \A i \in Resource!Index : rNextFree[i] # n
      BY <2>1, <3>1 DEF Resource!Reuse, Resource!IInv, Resource!ListShape
    <3>4. rFreeHead' = rNextFree[n]
      BY <2>1, <3>1 DEF Resource!Reuse
    <3> QED  BY <1>1, <3>2, <3>3, <3>4 DEF Resource!OnList, Resource!Index
  <2>2. CASE Resource!Grow
    <3>1. \A i \in Resource!Index : Resource!OnList(i) => i \in Resource!Exists
      BY DEF Resource!IInv, Resource!FreeAreFree
    <3>2. n \notin Resource!Exists
      BY <2>2 DEF Resource!Grow, Resource!NextSlot, Resource!Exists, Resource!IInv,
           Resource!TypeOK
    <3> QED  BY <2>2, <3>1, <3>2 DEF Resource!Grow, Resource!OnList
  <2> QED  BY <2>1, <2>2 DEF Resource!Create
<1>5. Resource!FreshGeneration'
  <2>1. ASSUME NEW h \in rIssued' PROVE h[1] \in Resource!Exists' /\ h[2] <= rGeneration'[h[1]]
    BY <1>1, <1>2, <2>1 DEF Resource!IInv, Resource!FreshGeneration, Resource!TypeOK,
         Resource!Generations, Resource!Handle
  <2>2. ASSUME NEW i \in Resource!Index, Resource!OnList(i)'
        PROVE  <<i, rGeneration'[i]>> \notin rIssued'
    BY <1>2, <1>4, <2>2 DEF Resource!IInv, Resource!FreshGeneration
  <2> QED  BY <2>1, <2>2 DEF Resource!FreshGeneration
<1>6. Resource!FreeAreFree'
  BY <1>1, <1>4 DEF Resource!IInv, Resource!FreeAreFree, Resource!TypeOK
<1>7. Resource!ListShape'
  <2>1. CASE Resource!Reuse
    <3>1. \A i \in Resource!Index : rNextFree'[i] = IF i = rFreeHead THEN Null ELSE rNextFree[i]
      BY <2>1 DEF Resource!Reuse, Resource!IInv, Resource!TypeOK
    <3> QED  BY <2>1, <3>1 DEF Resource!Reuse, Resource!IInv, Resource!ListShape,
         Resource!TypeOK
  <2>2. CASE Resource!Grow
    BY <2>2 DEF Resource!Grow, Resource!IInv, Resource!ListShape
  <2> QED  BY <2>1, <2>2 DEF Resource!Create
<1>8. Resource!OccupiedIssued'
  BY <1>1, <1>2 DEF Resource!IInv, Resource!OccupiedIssued
<1>9. Resource!CountIsOccupied'
  BY <1>1, <1>2, ResourceOccupiedFinite, FS_AddElement, ResourceCardinality
       DEF Resource!IInv, Resource!CountIsOccupied
<1> QED  BY <1>3, <1>5, <1>6, <1>7, <1>8, <1>9 DEF Resource!IInv

LEMMA ResourceDestroyInvariant ==
  ASSUME Resource!IInv, NEW h \in Resource!Handle, Resource!Destroy(h) PROVE Resource!IInv'
<1> USE LimitsAssumption, NullAssumption
<1> DEFINE i == h[1]
<1>1. /\ i \in Resource!Index /\ i \in Resource!Exists /\ i \in Resource!Occupied /\ ~Resource!OnList(i)
      /\ rOccupied' = [rOccupied EXCEPT ![i] = FALSE]
      /\ rLiveCount' = rLiveCount - 1
      /\ UNCHANGED <<rSlotCount, rIssued>>
  BY DEF Resource!Destroy, Resource!IsSlotValid, Resource!Exists, Resource!Occupied,
       Resource!IInv, Resource!FreeAreFree
<1>2. Resource!Exists' = Resource!Exists /\ Resource!Occupied' = Resource!Occupied \ {i}
  BY <1>1 DEF Resource!Exists, Resource!Occupied, Resource!IInv, Resource!TypeOK
<1>3. rLiveCount \in Nat \ {0}
  <2>1. Cardinality(Resource!Occupied) # 0
    BY <1>1, ResourceOccupiedFinite, FS_EmptySet
  <2> QED  BY <2>1, ResourceCardinality DEF Resource!IInv, Resource!CountIsOccupied,
       Resource!TypeOK
<1>4. Resource!CountIsOccupied'
  BY <1>1, <1>2, ResourceOccupiedFinite, FS_RemoveElement, ResourceCardinality
       DEF Resource!IInv, Resource!CountIsOccupied
<1>5. CASE Resource!Retiring(i)
  <2>1. /\ rNextFree' = [rNextFree EXCEPT ![i] = Null]
        /\ UNCHANGED <<rGeneration, rFreeHead>>
    BY <1>5 DEF Resource!Destroy
  <2>2. Resource!TypeOK'
    BY <1>1, <1>3, <2>1 DEF Resource!IInv, Resource!TypeOK
  <2>3. \A k \in Resource!Index : Resource!OnList(k)' => Resource!OnList(k)
    <3>1. \A j \in Resource!Index : rNextFree'[j] = IF j = i THEN Null ELSE rNextFree[j]
      BY <1>1, <2>1 DEF Resource!IInv, Resource!TypeOK
    <3>2. \A k \in Resource!Index : k # Null
      BY DEF Resource!Index
    <3> QED  BY <2>1, <3>1, <3>2 DEF Resource!OnList
  <2>4. Resource!FreshGeneration' /\ Resource!FreeAreFree'
    BY <1>1, <1>2, <2>1, <2>3 DEF Resource!IInv, Resource!FreshGeneration,
         Resource!FreeAreFree, Resource!TypeOK
  <2>5. Resource!ListShape'
    BY <1>1, <2>1 DEF Resource!IInv, Resource!ListShape, Resource!TypeOK
  <2>6. Resource!OccupiedIssued'
    BY <1>1, <1>2, <2>1 DEF Resource!IInv, Resource!OccupiedIssued
  <2> QED  BY <1>4, <2>2, <2>4, <2>5, <2>6 DEF Resource!IInv
<1>6. CASE ~Resource!Retiring(i)
  <2>1. /\ rGeneration' = [rGeneration EXCEPT ![i] = rGeneration[i] + 1]
        /\ rNextFree' = [rNextFree EXCEPT ![i] = rFreeHead]
        /\ rFreeHead' = i
    BY <1>6 DEF Resource!Destroy, Resource!NextGeneration
  <2>2. rGeneration[i] + 1 \in Resource!Generations
    BY <1>1, <1>6 DEF Resource!IInv, Resource!TypeOK, Resource!Generations,
         Resource!Retiring
  <2>3. Resource!TypeOK'
    BY <1>1, <1>3, <2>1, <2>2 DEF Resource!IInv, Resource!TypeOK
  <2>4. \A k \in Resource!Index : Resource!OnList(k)' => Resource!OnList(k) \/ k = i
    BY <1>1, <2>1 DEF Resource!OnList, Resource!IInv, Resource!TypeOK, Resource!Index
  <2>5. Resource!FreshGeneration'
    <3>1. ASSUME NEW g \in rIssued PROVE g[1] \in Resource!Exists /\ g[2] <= rGeneration'[g[1]]
      <4>1. g \in Resource!Handle /\ g[1] \in Resource!Exists /\ g[2] <= rGeneration[g[1]]
        BY <3>1 DEF Resource!IInv, Resource!FreshGeneration, Resource!TypeOK
      <4> QED  BY <4>1, <2>1 DEF Resource!IInv, Resource!TypeOK, Resource!Generations,
           Resource!Handle
    <3>2. <<i, rGeneration[i] + 1>> \notin rIssued
      BY <1>1 DEF Resource!IInv, Resource!FreshGeneration, Resource!TypeOK,
           Resource!Generations
    <3>3. ASSUME NEW k \in Resource!Index, Resource!OnList(k)'
          PROVE  <<k, rGeneration'[k]>> \notin rIssued
      BY <2>1, <2>4, <3>2, <3>3 DEF Resource!IInv, Resource!FreshGeneration, Resource!TypeOK
    <3> QED  BY <1>1, <1>2, <3>1, <3>3 DEF Resource!FreshGeneration
  <2>6. Resource!FreeAreFree'
    BY <1>1, <1>2, <2>4 DEF Resource!IInv, Resource!FreeAreFree, Resource!TypeOK
  <2>7. Resource!ListShape'
    <3>1. \A k \in Resource!Index : rNextFree'[k] = IF k = i THEN rFreeHead ELSE rNextFree[k]
      BY <2>1 DEF Resource!IInv, Resource!TypeOK
    <3>2. rFreeHead # i /\ \A k \in Resource!Index : rNextFree[k] # i
      BY <1>1 DEF Resource!OnList
    <3>3. \A k \in Resource!Index : rNextFree[k] # Null => rNextFree[k] # rFreeHead
      BY DEF Resource!IInv, Resource!ListShape
    <3> QED  BY <2>1, <3>1, <3>2, <3>3 DEF Resource!IInv, Resource!ListShape
  <2>8. Resource!OccupiedIssued'
    BY <1>1, <1>2, <2>1 DEF Resource!IInv, Resource!OccupiedIssued, Resource!TypeOK,
         Resource!Exists, Resource!Occupied
  <2> QED  BY <1>4, <2>3, <2>5, <2>6, <2>7, <2>8 DEF Resource!IInv
<1> QED  BY <1>5, <1>6

LEMMA ResourceStepInvariant == Resource!IInv /\ [Resource!Next]_Resource!vars => Resource!IInv'
<1> SUFFICES ASSUME Resource!IInv, [Resource!Next]_Resource!vars PROVE Resource!IInv'
  OBVIOUS
<1>1. CASE Resource!Create
  BY <1>1, ResourceCreateInvariant
<1>2. ASSUME NEW h \in Resource!Handle, Resource!Destroy(h) PROVE Resource!IInv'
  BY <1>2, ResourceDestroyInvariant
<1>3. CASE UNCHANGED Resource!vars
  BY <1>3 DEF Resource!vars, Resource!IInv, Resource!TypeOK, Resource!FreshGeneration,
       Resource!FreeAreFree, Resource!ListShape, Resource!OnList,
              Resource!OccupiedIssued, Resource!CountIsOccupied, Resource!Occupied,
              Resource!Exists
<1> QED  BY <1>1, <1>2, <1>3 DEF Resource!Next

LEMMA ResourceInvariance == Resource!Spec => []Resource!IInv
<1> QED  BY ResourceInitInvariant, ResourceStepInvariant, PTL DEF Resource!Spec

(***************************************************************************)
(* Every variable keeps its type: no generation passes its limit, no link  *)
(* leaves the table.                                                       *)
(***************************************************************************)
THEOREM ResourceTypeCorrect == Resource!Spec => []Resource!TypeOK
<1>1. Resource!IInv => Resource!TypeOK
  BY DEF Resource!IInv
<1> QED  BY <1>1, ResourceInvariance, PTL

(***************************************************************************)
(* size() is the number of occupied slots.                                 *)
(***************************************************************************)
THEOREM ResourceCountCorrect == Resource!Spec => []Resource!CountIsOccupied
<1>1. Resource!IInv => Resource!CountIsOccupied
  BY DEF Resource!IInv
<1> QED  BY <1>1, ResourceInvariance, PTL

(***************************************************************************)
(* ResourceSlots implements HandleTable: no handle is given out twice, and *)
(* a handle resolves exactly from create() to destroy().                   *)
(***************************************************************************)
THEOREM ResourceImplementsTableCorrect == Resource!Spec => ResourceImplementsTable
<1>1. Resource!Init => ResourceTable!Init
  BY DEF Resource!Init, ResourceTable!Init, Resource!Live, Resource!IsSlotValid,
       Resource!Exists, Resource!Index
<1>2. ASSUME Resource!IInv, [Resource!Next]_Resource!vars
      PROVE  [ResourceTable!Next]_<<Resource!Live, rIssued>>
  <2>1. CASE Resource!Create
    <3>1. /\ Resource!NextSlot \in Resource!Index
          /\ Resource!NextSlot \notin Resource!Occupied
          /\ Resource!NextHandle \in Resource!Handle \ rIssued
          /\ Resource!Exists' = Resource!Exists \cup {Resource!NextSlot}
          /\ rOccupied' = [rOccupied EXCEPT ![Resource!NextSlot] = TRUE]
      BY <1>2, <2>1, ResourceCreateTakes
    <3>2. UNCHANGED rGeneration /\ rIssued' = rIssued \cup {Resource!NextHandle}
      BY <2>1 DEF Resource!Create
    <3>3. Resource!Live' = Resource!Live \cup {Resource!NextHandle}
      <4>1. ASSUME NEW h \in Resource!Handle
            PROVE  h \in Resource!Live' <=> h \in Resource!Live \/ h = Resource!NextHandle
        <5>1. CASE h[1] = Resource!NextSlot
          BY <1>2, <3>1, <3>2, <5>1 DEF Resource!Live, Resource!IsSlotValid,
               Resource!NextHandle, Resource!Handle, Resource!Occupied, Resource!IInv,
               Resource!TypeOK
        <5>2. CASE h[1] # Resource!NextSlot
          BY <1>2, <3>1, <3>2, <5>2 DEF Resource!Live, Resource!IsSlotValid,
               Resource!NextHandle, Resource!Exists, Resource!IInv, Resource!TypeOK
        <5> QED  BY <5>1, <5>2
      <4> QED  BY <3>1, <4>1 DEF Resource!Live
    <3>4. Resource!Handle = Handle
      BY DEF Resource!Handle, Resource!Index, Resource!Generations, Handle, Index,
           Generations
    <3> QED  BY <3>1, <3>2, <3>3, <3>4 DEF ResourceTable!Next, ResourceTable!Create
  <2>2. ASSUME NEW g \in Resource!Handle, Resource!Destroy(g) PROVE ResourceTable!Next
    <3>1. /\ g \in Resource!Live /\ g[1] \in Resource!Exists
          /\ rOccupied' = [rOccupied EXCEPT ![g[1]] = FALSE]
          /\ UNCHANGED <<rSlotCount, rIssued>>
          /\ \A k \in Resource!Index : k # g[1] => rGeneration'[k] = rGeneration[k]
      BY <1>2, <2>2 DEF Resource!Destroy, Resource!Live, Resource!IsSlotValid,
           Resource!IInv, Resource!TypeOK
    <3>2. Resource!Live' = Resource!Live \ {g}
      <4>1. ASSUME NEW h \in Resource!Handle PROVE h \in Resource!Live' <=> h \in Resource!Live /\ h # g
        <5>1. CASE h[1] = g[1]
          BY <1>2, <3>1, <5>1 DEF Resource!Live, Resource!IsSlotValid, Resource!Handle,
               Resource!Exists, Resource!IInv, Resource!TypeOK
        <5>2. CASE h[1] # g[1]
          BY <1>2, <3>1, <5>2 DEF Resource!Live, Resource!IsSlotValid, Resource!Exists,
               Resource!IInv, Resource!TypeOK
        <5> QED  BY <5>1, <5>2
      <4> QED  BY <4>1 DEF Resource!Live
    <3> QED  BY <3>1, <3>2 DEF ResourceTable!Next, ResourceTable!Destroy
  <2>3. CASE UNCHANGED Resource!vars
    BY <2>3 DEF Resource!vars, Resource!Live, Resource!IsSlotValid, Resource!Exists
  <2> QED  BY <1>2, <2>1, <2>2, <2>3 DEF Resource!Next
<1> QED  BY <1>1, <1>2, ResourceInvariance, PTL DEF Resource!Spec, ResourceImplementsTable,
     ResourceTable!Spec

-----------------------------------------------------------------------------
(* No slot leaks: the list has every slot that can live again.             *)

\* Finitely many slots, and no more than the limit.
LEMMA SlotsCounted ==
  ASSUME NEW F \in SUBSET Index
  PROVE  IsFiniteSet(F) /\ Cardinality(F) \in Nat /\ Cardinality(F) <= SlotLimit /\ Null \notin F
<1>1. IsFiniteSet(0 .. SlotLimit - 1) /\ Cardinality(0 .. SlotLimit - 1) = SlotLimit
  BY LimitsAssumption, FS_Interval
<1>2. IsFiniteSet(F) /\ Cardinality(F) <= SlotLimit
  BY <1>1, FS_Subset DEF Index
<1>3. Null \notin F
  <2>1. Index \subseteq Nat
    BY DEF Index
  <2> QED  BY <2>1, NullAssumption
<1> QED  BY <1>2, <1>3, FS_CardinalityType

\* The slots of EntitySlots that can live again.
Free == {i \in Entity!Exists : ~occupied[i] /\ ~retired[i]}
FreeListed == OneList(Free, freeHead, nextFree)

LEMMA FreeInit == Entity!Init => FreeListed
<1> SUFFICES ASSUME Entity!Init PROVE FreeListed
  OBVIOUS
<1>1. Free = {} /\ freeHead = Null
  BY LimitsAssumption DEF Entity!Init, Free, Entity!Exists, Entity!Index
<1> QED  BY <1>1, SlotsLinked, FS_EmptySet DEF FreeListed

LEMMA FreeStep == ASSUME Entity!IInv, FreeListed, [Entity!Next]_Entity!vars PROVE FreeListed'
<1> USE NullAssumption
<1>1. /\ Free \in SUBSET Entity!Index /\ Free' \in SUBSET Entity!Index /\ Null \notin Entity!Index
      /\ occupied \in [Entity!Index -> BOOLEAN] /\ retired \in [Entity!Index -> BOOLEAN]
      /\ nextFree \in [Entity!Index -> Entity!Index \cup {Null}]
  BY LimitsAssumption DEF Free, Entity!Exists, Entity!IInv, Entity!TypeOK, Entity!Index
<1>2. CASE Entity!Create
  <2>1. /\ Entity!Exists' = Entity!Exists \cup {Entity!NextSlot} /\ Entity!NextSlot \in Entity!Index
        /\ occupied' = [occupied EXCEPT ![Entity!NextSlot] = TRUE] /\ UNCHANGED retired
    BY <1>2, CreateTakes DEF Entity!Create
  <2>2. Free' = Free \ {Entity!NextSlot}
    BY <1>1, <2>1 DEF Free
  <2>3. CASE Entity!Reuse
    <3>1. /\ freeHead # Null /\ Entity!NextSlot = freeHead /\ freeHead' = nextFree[freeHead]
          /\ nextFree' = [nextFree EXCEPT ![freeHead] = Null]
      BY <2>3 DEF Entity!Reuse, Entity!NextSlot
    <3>2. \A i \in Free : i # freeHead => nextFree'[i] = nextFree[i]
      BY <1>1, <3>1
    <3>3. OneList(Free \ {freeHead}, nextFree[freeHead], nextFree')
      BY <3>1, <3>2, HeadTaken DEF FreeListed
    <3> QED  BY <2>2, <3>1, <3>3 DEF FreeListed
  <2>4. CASE Entity!Grow
    <3>1. freeHead' = freeHead /\ nextFree' = nextFree /\ Entity!NextSlot = slotCount
      BY <2>4 DEF Entity!Grow, Entity!NextSlot
    <3>2. Entity!NextSlot \notin Free
      BY <3>1, <1>2 DEF Free, Entity!Exists, Entity!IInv, Entity!TypeOK
    <3>3. Free' = Free
      BY <2>2, <3>2
    <3> QED  BY <3>1, <3>3 DEF FreeListed
  <2> QED  BY <1>2, <2>3, <2>4 DEF Entity!Create
<1>3. ASSUME NEW h \in Entity!Handle, Entity!Destroy(h) PROVE FreeListed'
  <2>1. PICK i : i = h[1]
    OBVIOUS
  <2>2. /\ i \in Entity!Index /\ i \in Entity!Exists /\ occupied[i] /\ i \notin Free /\ ~retired[i] /\ i # Null
        /\ occupied' = [occupied EXCEPT ![i] = FALSE] /\ Entity!Exists' = Entity!Exists
    BY <1>1, <1>3, <2>1 DEF Entity!Destroy, Entity!contains, Free, Entity!Exists,
         Entity!Occupied, Entity!IInv, Entity!FreeAreFree
  <2>3. CASE Entity!Retiring(i)
    <3>1. /\ retired' = [retired EXCEPT ![i] = TRUE] /\ nextFree' = [nextFree EXCEPT ![i] = Null]
          /\ UNCHANGED freeHead
      BY <1>3, <2>1, <2>3 DEF Entity!Destroy
    <3>2. Free' = Free /\ \A j \in Free : nextFree'[j] = nextFree[j]
      BY <1>1, <2>2, <3>1 DEF Free
    <3> QED  BY <3>1, <3>2, ListKept DEF FreeListed
  <2>4. CASE ~Entity!Retiring(i)
    <3>1. /\ retired' = retired /\ nextFree' = [nextFree EXCEPT ![i] = freeHead] /\ freeHead' = i
      BY <1>3, <2>1, <2>4 DEF Entity!Destroy
    <3>2. Free' = Free \cup {i}
      BY <1>1, <2>2, <3>1 DEF Free
    <3>3. nextFree'[i] = freeHead /\ \A j \in Free : nextFree'[j] = nextFree[j]
      BY <1>1, <2>2, <3>1
    <3>4. OneList(Free \cup {i}, i, nextFree')
      BY <2>2, <3>3, SlotFreed DEF FreeListed
    <3> QED  BY <3>1, <3>2, <3>4 DEF FreeListed
  <2> QED  BY <2>3, <2>4
<1>4. CASE Entity!Clear
  <2>1. /\ Entity!Exists' = Entity!Exists /\ Entity!Relinked = Entity!Reusable
        /\ Entity!Reusable \subseteq Entity!Exists /\ Entity!Exists \subseteq Entity!Index
        /\ \A i \in Entity!Index : ~occupied'[i] /\ (retired'[i] <=> i \in Entity!Exists \ Entity!Reusable)
        /\ freeHead' = Entity!Last(Entity!Relinked)
        /\ \A i \in Entity!Relinked : nextFree'[i] = Entity!Last({j \in Entity!Relinked : j < i})
    BY <1>4 DEF Entity!Clear, Entity!Exists, Entity!Relinked, Entity!Reusable
  <2>2. Free' = Entity!Relinked
    BY <2>1 DEF Free
  <2>3. /\ Entity!Relinked \in SUBSET Nat /\ IsFiniteSet(Entity!Relinked)
        /\ Entity!Relinked \in SUBSET Entity!Index
    BY <2>1, SlotsCounted, EntityIndex DEF Index
  <2>4. \/ Entity!Relinked = {} /\ freeHead' = Null
        \/ freeHead' \in Entity!Relinked /\ \A j \in Entity!Relinked : j <= freeHead'
    <3>1. CASE Entity!Relinked = {}
      BY <2>1, <3>1 DEF Entity!Last
    <3>2. CASE Entity!Relinked # {}
      BY <2>1, <2>3, <3>2, LastExists
    <3> QED  BY <3>1, <3>2
  <2>5. ASSUME NEW i \in Entity!Relinked
        PROVE  \/ nextFree'[i] = Null /\ \A j \in Entity!Relinked : ~(j < i)
               \/ /\ nextFree'[i] \in Entity!Relinked /\ nextFree'[i] < i
                  /\ \A j \in Entity!Relinked : j < i => j <= nextFree'[i]
    <3> DEFINE Below == {j \in Entity!Relinked : j < i}
    <3>1. CASE Below = {}
      BY <2>1, <3>1 DEF Entity!Last
    <3>2. CASE Below # {}
      <4>1. Below \in SUBSET Entity!Index /\ nextFree'[i] = Entity!Last(Below)
        BY <2>1, <2>3
      <4> HIDE DEF Below
      <4>2. Entity!Last(Below) \in Below /\ \A j \in Below : j <= Entity!Last(Below)
        BY <3>2, <4>1, LastExists
      <4> QED  BY <4>1, <4>2 DEF Below
    <3> QED  BY <3>1, <3>2
  <2>6. OneList(Entity!Relinked, freeHead', nextFree')
    <3> HIDE DEF Entity!Relinked
    <3> QED  BY <2>3, <2>4, <2>5, SlotsLinked
  <2> QED  BY <2>2, <2>6 DEF FreeListed
<1>5. CASE UNCHANGED Entity!vars
  BY <1>5 DEF Entity!vars, FreeListed, Free, Entity!Exists
<1> QED  BY <1>2, <1>3, <1>4, <1>5 DEF Entity!Next

LEMMA FreeSound == ASSUME Entity!IInv, FreeListed PROVE Entity!SlotsSound
<1>1. Entity!FreeList[SlotLimit] = Free
  <2>1. Free \in SUBSET Index
    BY EntityIndex DEF Free, Entity!Exists
  <2>2. Cardinality(Free) <= SlotLimit /\ SlotLimit \in Nat
    BY <2>1, SlotsCounted, LimitsAssumption
  <2>3. Entity!FreeList = CHOOSE f : f = Links(freeHead, nextFree, f)
    BY DEF Entity!FreeList, Links
  <2>4. /\ \E g : g = Links(freeHead, nextFree, g)
        /\ \A g : g = Links(freeHead, nextFree, g) => g[SlotLimit] = Free
    BY <2>2, ListReached DEF FreeListed
  <2> QED  BY <2>3, <2>4
<1> QED  BY <1>1 DEF Entity!SlotsSound, Entity!NoSlotLost, Free, Entity!IInv

\* The slots of ResourceSlots that can live again.
ResourceFree == {i \in Resource!Exists : ~rOccupied[i] /\ ~Resource!Retired(i)}
ResourceFreeListed == OneList(ResourceFree, rFreeHead, rNextFree)

LEMMA ResourceFreeInit == Resource!Init => ResourceFreeListed
<1> SUFFICES ASSUME Resource!Init PROVE ResourceFreeListed
  OBVIOUS
<1>1. ResourceFree = {} /\ rFreeHead = Null
  BY LimitsAssumption DEF Resource!Init, ResourceFree, Resource!Exists, Resource!Index
<1> QED  BY <1>1, SlotsLinked, FS_EmptySet DEF ResourceFreeListed

LEMMA ResourceFreeStep ==
  ASSUME Resource!IInv, ResourceFreeListed, [Resource!Next]_Resource!vars
  PROVE  ResourceFreeListed'
<1> USE NullAssumption
<1>1. /\ Resource!Index = Index /\ Resource!Handle = Handle
      /\ ResourceFree \in SUBSET Index /\ ResourceFree' \in SUBSET Index /\ Null \notin Index
      /\ rOccupied \in [Index -> BOOLEAN] /\ rNextFree \in [Index -> Index \cup {Null}]
      /\ rGeneration \in [Index -> Generations] /\ GenerationLimit \in Nat
  BY LimitsAssumption DEF ResourceFree, Resource!Exists, Resource!IInv, Resource!TypeOK,
       Index, Resource!Index,
       Resource!Generations, Generations, Resource!Handle, Handle
<1>2. CASE Resource!Create
  <2> DEFINE n == Resource!NextSlot
  <2>1. /\ Resource!Exists' = Resource!Exists \cup {n} /\ n \in Index
        /\ rOccupied' = [rOccupied EXCEPT ![n] = TRUE]
        /\ rIssued' = rIssued \cup {<<n, rGeneration[n]>>}
    BY <1>1, <1>2, ResourceCreateTakes DEF Resource!Create, Resource!NextHandle
  <2> HIDE DEF n
  <2>2. ResourceFree' = ResourceFree \ {n}
    <3>1. \A i \in Index : i # n => (rOccupied'[i] <=> rOccupied[i])
                                    /\ (<<i, GenerationLimit>> \in rIssued' <=> <<i, GenerationLimit>> \in rIssued)
      BY <1>1, <2>1
    <3>2. rOccupied'[n]
      BY <1>1, <2>1
    <3>3. \A i \in Index : i \in ResourceFree' <=> i \in ResourceFree /\ i # n
      BY <2>1, <3>1, <3>2 DEF ResourceFree, Resource!Retired
    <3> QED  BY <1>1, <3>3
  <2>3. CASE Resource!Reuse
    <3>1. /\ rFreeHead # Null /\ n = rFreeHead /\ rFreeHead' = rNextFree[rFreeHead]
          /\ rNextFree' = [rNextFree EXCEPT ![rFreeHead] = Null]
      BY <2>3 DEF Resource!Reuse, Resource!NextSlot, n
    <3>2. \A i \in ResourceFree : i # rFreeHead => rNextFree'[i] = rNextFree[i]
      BY <1>1, <3>1
    <3>3. OneList(ResourceFree \ {rFreeHead}, rNextFree[rFreeHead], rNextFree')
      BY <3>1, <3>2, HeadTaken DEF ResourceFreeListed
    <3> QED  BY <2>2, <3>1, <3>3 DEF ResourceFreeListed
  <2>4. CASE Resource!Grow
    <3>1. rFreeHead' = rFreeHead /\ rNextFree' = rNextFree /\ n = rSlotCount
      BY <2>4 DEF Resource!Grow, Resource!NextSlot, n
    <3>2. n \notin ResourceFree
      BY <3>1, <1>2 DEF ResourceFree, Resource!Exists, Resource!IInv, Resource!TypeOK
    <3>3. ResourceFree' = ResourceFree
      BY <2>2, <3>2
    <3> QED  BY <3>1, <3>3 DEF ResourceFreeListed
  <2> QED  BY <1>2, <2>3, <2>4 DEF Resource!Create
<1>3. ASSUME NEW h \in Handle, Resource!Destroy(h) PROVE ResourceFreeListed'
  <2>1. PICK i : i = h[1]
    OBVIOUS
  <2>2. /\ i \in Index /\ i \in Resource!Exists /\ rOccupied[i] /\ i \notin ResourceFree /\ i # Null
        /\ rOccupied' = [rOccupied EXCEPT ![i] = FALSE] /\ Resource!Exists' = Resource!Exists
        /\ rIssued' = rIssued
    BY <1>1, <1>3, <2>1 DEF Resource!Destroy, Resource!IsSlotValid, ResourceFree,
         Resource!Exists
  <2>3. <<i, rGeneration[i]>> \in rIssued
    BY <2>2 DEF Resource!IInv, Resource!OccupiedIssued, Resource!Occupied
  <2>4. \A j \in ResourceFree : j # i /\ j \in Index
    BY <1>1, <2>2
  <2>5. \A j \in Index : j # i => (j \in ResourceFree' <=> j \in ResourceFree)
    BY <1>1, <2>2 DEF ResourceFree, Resource!Retired
  <2>6. i \in ResourceFree' <=> <<i, GenerationLimit>> \notin rIssued
    BY <1>1, <2>2 DEF ResourceFree, Resource!Retired
  <2>7. CASE Resource!Retiring(i)
    <3>1. rNextFree' = [rNextFree EXCEPT ![i] = Null] /\ UNCHANGED rFreeHead
      BY <1>3, <2>1, <2>7 DEF Resource!Destroy
    <3>2. i \notin ResourceFree'
      BY <2>3, <2>6, <2>7 DEF Resource!Retiring
    <3>3. ResourceFree' = ResourceFree /\ \A j \in ResourceFree : rNextFree'[j] = rNextFree[j]
      BY <1>1, <2>2, <2>4, <2>5, <3>1, <3>2
    <3> QED  BY <3>1, <3>3, ListKept DEF ResourceFreeListed
  <2>8. CASE ~Resource!Retiring(i)
    <3>1. rNextFree' = [rNextFree EXCEPT ![i] = rFreeHead] /\ rFreeHead' = i
      BY <1>3, <2>1, <2>8 DEF Resource!Destroy
    <3>2. <<i, GenerationLimit>> \notin rIssued
      <4>1. rGeneration[i] \in 0 .. GenerationLimit /\ rGeneration[i] # GenerationLimit
        BY <1>1, <2>2, <2>8 DEF Resource!Retiring, Generations
      <4>2. <<i, GenerationLimit>> \in rIssued => GenerationLimit <= rGeneration[i]
        BY DEF Resource!IInv, Resource!FreshGeneration
      <4> QED  BY <1>1, <4>1, <4>2
    <3>3. ResourceFree' = ResourceFree \cup {i}
      BY <1>1, <2>2, <2>4, <2>5, <2>6, <3>2
    <3>4. rNextFree'[i] = rFreeHead /\ \A j \in ResourceFree : rNextFree'[j] = rNextFree[j]
      BY <1>1, <2>2, <2>4, <3>1
    <3>5. OneList(ResourceFree \cup {i}, i, rNextFree')
      BY <2>2, <3>4, SlotFreed DEF ResourceFreeListed
    <3> QED  BY <3>1, <3>3, <3>5 DEF ResourceFreeListed
  <2> QED  BY <2>7, <2>8
<1>4. CASE UNCHANGED Resource!vars
  BY <1>4 DEF Resource!vars, ResourceFreeListed, ResourceFree, Resource!Exists,
       Resource!Retired
<1> QED  BY <1>1, <1>2, <1>3, <1>4 DEF Resource!Next

LEMMA ResourceFreeSound == ASSUME Resource!IInv, ResourceFreeListed PROVE Resource!SlotsSound
<1>1. Resource!FreeList[SlotLimit] = ResourceFree
  <2>1. ResourceFree \in SUBSET Index
    BY DEF ResourceFree, Resource!Exists, Resource!Index, Index
  <2>2. Cardinality(ResourceFree) <= SlotLimit /\ SlotLimit \in Nat
    BY <2>1, SlotsCounted, LimitsAssumption
  <2>3. Resource!FreeList = CHOOSE f : f = Links(rFreeHead, rNextFree, f)
    BY DEF Resource!FreeList, Links
  <2>4. /\ \E g : g = Links(rFreeHead, rNextFree, g)
        /\ \A g : g = Links(rFreeHead, rNextFree, g) => g[SlotLimit] = ResourceFree
    BY <2>2, ListReached DEF ResourceFreeListed
  <2> QED  BY <2>3, <2>4
<1> QED  BY <1>1 DEF Resource!SlotsSound, Resource!NoSlotLost, ResourceFree,
     Resource!Retired, Resource!IInv

(***************************************************************************)
(* In both slot tables no slot leaks and none is in two places: a slot is  *)
(* occupied, on the free list within as many links as there are slots, or  *)
(* retired, in whatever order create(), destroy() and clear() are called.  *)
(***************************************************************************)
THEOREM SlotTablesAreSound == Entity!Spec /\ Resource!Spec => []SlotTablesSound
<1>1. Entity!Init => Entity!IInv /\ FreeListed
  BY InitInvariant, FreeInit
<1>2. (Entity!IInv /\ FreeListed) /\ [Entity!Next]_Entity!vars => (Entity!IInv /\ FreeListed)'
  BY StepInvariant, FreeStep
<1>3. Resource!Init => Resource!IInv /\ ResourceFreeListed
  BY ResourceInitInvariant, ResourceFreeInit
<1>4. (Resource!IInv /\ ResourceFreeListed) /\ [Resource!Next]_Resource!vars
        => (Resource!IInv /\ ResourceFreeListed)'
  BY ResourceStepInvariant, ResourceFreeStep
<1>5. (Entity!IInv /\ FreeListed) /\ (Resource!IInv /\ ResourceFreeListed) => SlotTablesSound
  BY FreeSound, ResourceFreeSound DEF SlotTablesSound
<1> QED  BY <1>1, <1>2, <1>3, <1>4, <1>5, PTL DEF Entity!Spec, Resource!Spec

-----------------------------------------------------------------------------
(* One archetype.                                                          *)

Cells == Values \cup {Default}
Partial(S, T) == UNION {[D -> T] : D \in SUBSET S}
Archetype == [signature : SUBSET Types, entities : Seq(1 .. HandleBound),
              columns : Partial(Types, Seq(Cells)), changed : Partial(Types, 0 .. TickBound),
              adds : Partial(Types, Nat), removes : Partial(Types, Nat)]

LEMMA IsArchetypeIs ==
  ASSUME NEW x
  PROVE  IsArchetype(x) <=> /\ x \in Archetype
                            /\ DOMAIN x.columns = x.signature /\ DOMAIN x.changed = x.signature
BY DEF IsArchetype, Archetype, Partial, Cells

\* An archetype and its rows.
Sound(x) == IsArchetype(x) /\ RowCountsMatch(x)

\* Other rows for an archetype; one more, with values for e; none but the others.
Replaced(x, rows, columns) == [x EXCEPT !.entities = rows, !.columns = columns]
RowAdded(x, e, values) ==
    Replaced(x, Append(x.entities, e), [c \in x.signature |-> Append(x.columns[c], values[c])])

\* Another last element for a sequence.
LEMMA LastReplaced ==
  ASSUME NEW S, NEW t \in Seq(S), NEW v \in S, NEW w
  PROVE  [Append(t, v) EXCEPT ![Len(t) + 1] = w] = Append(t, w)
<1> DEFINE U == S \cup {w}
           u == [Append(t, v) EXCEPT ![Len(t) + 1] = w]
<1>1. t \in Seq(U) /\ v \in U /\ w \in U /\ Len(t) \in Nat
  BY SeqMonotonic
<1> HIDE DEF U
<1>2. /\ Append(t, v) \in Seq(U) /\ Append(t, w) \in Seq(U)
      /\ Len(Append(t, v)) = Len(t) + 1 /\ Len(Append(t, w)) = Len(t) + 1
      /\ \A i \in 1 .. Len(t) + 1 : /\ Append(t, v)[i] = IF i = Len(t) + 1 THEN v ELSE t[i]
                                   /\ Append(t, w)[i] = IF i = Len(t) + 1 THEN w ELSE t[i]
  BY <1>1
<1>3. /\ u \in Seq(U) /\ Len(u) = Len(t) + 1
      /\ \A i \in 1 .. Len(t) + 1 : u[i] = IF i = Len(t) + 1 THEN w ELSE Append(t, v)[i]
  <2>1. PICK n \in 1 .. Len(Append(t, v)) : n = Len(t) + 1
    BY <1>1, <1>2
  <2>2. u = [Append(t, v) EXCEPT ![n] = w]
    BY <2>1
  <2> HIDE DEF u
  <2>3. PICK t2 \in Seq(U) : t2 = Append(t, v) /\ Len(t2) = Len(t) + 1
    BY <1>2
  <2>4. /\ [t2 EXCEPT ![n] = w] \in Seq(U) /\ Len([t2 EXCEPT ![n] = w]) = Len(t2)
        /\ \A i \in 1 .. Len(t2) : [t2 EXCEPT ![n] = w][i] = IF i = n THEN w ELSE t2[i]
    <3>1. n \in 1 .. Len(t2) /\ w \in U
      BY <1>1, <2>1, <2>3
    <3> QED  BY <3>1, ExceptSeq
  <2> QED  BY <2>1, <2>2, <2>3, <2>4
<1> HIDE DEF u
<1>4. u = Append(t, w)
  BY <1>2, <1>3, SeqEqual
<1> QED  BY <1>4 DEF u

\* What a new archetype is.
LEMMA NewIsSound ==
  ASSUME NEW signature \in SUBSET Types
  PROVE  /\ Sound(NewArchetype(signature))
         /\ NewArchetype(signature).signature = signature
         /\ NewArchetype(signature).entities = <<>>
         /\ DOMAIN NewArchetype(signature).adds = {} /\ DOMAIN NewArchetype(signature).removes = {}
<1>1. TickBound \in Nat
  BY BoundsAssumption
<1> QED  BY <1>1 DEF NewArchetype, Sound, IsArchetype, RowCountsMatch

\* The other fields stay.
LEMMA ReplacedIs ==
  ASSUME NEW x, IsArchetype(x), NEW rows \in Seq(1 .. HandleBound),
         NEW columns \in [x.signature -> Seq(Cells)],
         \A c \in x.signature : Len(columns[c]) = Len(rows)
  PROVE  /\ Sound(Replaced(x, rows, columns))
         /\ Replaced(x, rows, columns).signature = x.signature
         /\ Replaced(x, rows, columns).entities = rows
         /\ Replaced(x, rows, columns).columns = columns
         /\ Replaced(x, rows, columns).adds = x.adds
         /\ Replaced(x, rows, columns).removes = x.removes
<1> DEFINE y == Replaced(x, rows, columns)
<1>1. PICK A, R : /\ A = [DOMAIN x.adds -> Nat] /\ R = [DOMAIN x.removes -> Nat]
                  /\ x \in [signature : SUBSET Types, entities : Seq(1 .. HandleBound),
                            columns : [x.signature -> Seq(Cells)],
                            changed : [x.signature -> 0 .. TickBound], adds : A, removes : R]
  BY DEF IsArchetype, Cells
<1>2. /\ y \in [signature : SUBSET Types, entities : Seq(1 .. HandleBound),
                columns : [x.signature -> Seq(Cells)],
                changed : [x.signature -> 0 .. TickBound], adds : A, removes : R]
      /\ y.signature = x.signature /\ y.entities = rows /\ y.columns = columns
      /\ y.adds = x.adds /\ y.removes = x.removes /\ y.changed = x.changed
  BY <1>1 DEF Replaced
<1> HIDE DEF y
<1>3. IsArchetype(y) /\ RowCountsMatch(y)
  BY <1>1, <1>2 DEF IsArchetype, Cells, RowCountsMatch
<1> QED  BY <1>2, <1>3 DEF y, Sound

\* The same rows again are the same archetype.
LEMMA ReplacedBySame ==
  ASSUME NEW x, IsArchetype(x), NEW y, y = Replaced(x, x.entities, x.columns)
  PROVE  y = x
BY DEF Replaced, IsArchetype

\* The fields of an archetype with one more row.
LEMMA RowAddedIs ==
  ASSUME NEW x, Sound(x), NEW e \in 1 .. HandleBound, NEW values \in [x.signature -> Cells]
  PROVE  /\ Sound(RowAdded(x, e, values))
         /\ RowAdded(x, e, values).signature = x.signature
         /\ RowAdded(x, e, values).entities = Append(x.entities, e)
         /\ RowAdded(x, e, values).columns = [c \in x.signature |-> Append(x.columns[c], values[c])]
         /\ RowAdded(x, e, values).adds = x.adds
         /\ RowAdded(x, e, values).removes = x.removes
<1>1. x.columns \in [x.signature -> Seq(Cells)] /\ x.entities \in Seq(1 .. HandleBound)
  BY DEF Sound, IsArchetype, Cells
<1>2. PICK columns, rows : /\ columns = [c \in x.signature |-> Append(x.columns[c], values[c])]
                           /\ rows = Append(x.entities, e)
  OBVIOUS
<1>3. columns \in [x.signature -> Seq(Cells)] /\ rows \in Seq(1 .. HandleBound)
  BY <1>1, <1>2
<1>4. \A c \in x.signature : Len(columns[c]) = Len(rows)
  BY <1>1, <1>2 DEF Sound, RowCountsMatch
<1>5. RowAdded(x, e, values) = Replaced(x, rows, columns) /\ IsArchetype(x)
  BY <1>2 DEF RowAdded, Sound
<1>6. /\ Sound(Replaced(x, rows, columns))
      /\ Replaced(x, rows, columns).signature = x.signature
      /\ Replaced(x, rows, columns).entities = rows
      /\ Replaced(x, rows, columns).columns = columns
      /\ Replaced(x, rows, columns).adds = x.adds
      /\ Replaced(x, rows, columns).removes = x.removes
  BY <1>3, <1>4, <1>5, ReplacedIs
<1> QED  BY <1>2, <1>5, <1>6

\* addEntity adds a row of defaults.
LEMMA AddEntityAdds ==
  ASSUME NEW x, Sound(x), NEW e
  PROVE  AddEntity(x, e) = RowAdded(x, e, [c \in x.signature |-> Default])
<1>1. [c \in x.signature |-> IF c \in x.signature THEN Append(x.columns[c], Default) ELSE x.columns[c]]
        = [c \in x.signature |-> Append(x.columns[c], [d \in x.signature |-> Default][c])]
  OBVIOUS
<1> QED  BY <1>1 DEF AddEntity, Appended, RowAdded, Replaced, Sound, IsArchetype

\* A copied row is a row of the values copied and given.
CopiedValues(source, row, x, given) ==
    [c \in x.signature |-> IF c \in source.signature THEN source.columns[c][row]
                           ELSE IF c \in DOMAIN given THEN given[c] ELSE Default]

LEMMA CopiedAdds ==
  ASSUME NEW x, Sound(x), NEW e \in 1 .. HandleBound, NEW source, NEW row, NEW given,
         CopiedValues(source, row, x, given) \in [x.signature -> Cells]
  PROVE  Copied(source, row, x, e, given) = RowAdded(x, e, CopiedValues(source, row, x, given))
<1> DEFINE values == CopiedValues(source, row, x, given)
           d == AddEntity(x, e)
           last == Len(d.entities)
<1>1. x.columns \in [x.signature -> Seq(Cells)] /\ x.entities \in Seq(1 .. HandleBound)
      /\ \A c \in x.signature : Len(x.columns[c]) = Len(x.entities)
  BY DEF Sound, IsArchetype, Cells, RowCountsMatch
<1>2. Default \in Cells
  BY DEF Cells
<1>3. PICK plain : plain = [c \in x.signature |-> Default]
  OBVIOUS
<1> plain \in [x.signature -> Cells]
  BY <1>2, <1>3
<1>4. /\ d = RowAdded(x, e, plain) /\ d.signature = x.signature
      /\ d.entities = Append(x.entities, e)
      /\ d.columns = [c \in x.signature |-> Append(x.columns[c], plain[c])]
  BY <1>3, AddEntityAdds, RowAddedIs
<1>5. last = Len(x.entities) + 1
  BY <1>1, <1>4
<1>6. ASSUME NEW c \in x.signature
      PROVE  [d.columns[c] EXCEPT ![last] = values[c]] = Append(x.columns[c], values[c])
  <2>1. x.columns[c] \in Seq(Cells) /\ Len(x.columns[c]) = Len(x.entities)
    BY <1>1
  <2>2. d.columns[c] = Append(x.columns[c], Default) /\ last = Len(x.columns[c]) + 1
    BY <1>3, <1>4, <1>5, <2>1
  <2>3. [Append(x.columns[c], Default) EXCEPT ![Len(x.columns[c]) + 1] = values[c]]
          = Append(x.columns[c], values[c])
    BY <1>2, <2>1, LastReplaced, ZenonT(30)
  <2> HIDE DEF d, last, values
  <2> QED  BY <2>2, <2>3
<1>7. [c \in d.signature |-> [d.columns[c] EXCEPT ![last] = values[c]]]
        = [c \in x.signature |-> Append(x.columns[c], values[c])]
  BY <1>4, <1>6
<1>8. Copied(source, row, x, e, given)
        = [d EXCEPT !.columns = [c \in d.signature |-> [d.columns[c] EXCEPT ![last] = values[c]]]]
  BY <1>4 DEF Copied, CopiedValues
<1>9. [Replaced(x, Append(x.entities, e), d.columns) EXCEPT
         !.columns = [c \in x.signature |-> Append(x.columns[c], values[c])]]
        = Replaced(x, Append(x.entities, e), [c \in x.signature |-> Append(x.columns[c], values[c])])
  BY DEF Replaced, Sound, IsArchetype
<1>10. d = Replaced(x, Append(x.entities, e), d.columns)
  BY <1>4 DEF RowAdded
<1> QED  BY <1>7, <1>8, <1>9, <1>10 DEF RowAdded

\* What is appended can be popped.
LEMMA PoppedAgain ==
  ASSUME NEW S, NEW t \in Seq(S), NEW v
  PROVE  PopBack(Append(t, v)) = t
<1> DEFINE U == S \cup {v}
           u == Append(t, v)
<1>1. t \in Seq(U) /\ v \in U
  BY SeqMonotonic
<1> HIDE DEF U
<1>2. /\ u \in Seq(U) /\ Len(u) = Len(t) + 1 /\ Len(t) \in Nat
      /\ \A i \in 1 .. Len(t) : u[i] = t[i]
  BY <1>1
<1> HIDE DEF u
<1>3. \A i \in 1 .. Len(u) - 1 : u[i] \in U
  BY <1>2, ElementOfSeq
<1>4. /\ SubSeq(u, 1, Len(u) - 1) \in Seq(U)
      /\ Len(SubSeq(u, 1, Len(u) - 1)) = Len(t)
      /\ \A i \in 1 .. Len(t) : SubSeq(u, 1, Len(u) - 1)[i] = t[i]
  <2>1. 1 \in Int /\ Len(u) - 1 \in Int /\ Len(u) - 1 - 1 + 1 = Len(t)
    BY <1>2
  <2>2. /\ SubSeq(u, 1, Len(u) - 1) \in Seq(U)
        /\ Len(SubSeq(u, 1, Len(u) - 1)) = IF 1 <= Len(u) - 1 THEN Len(u) - 1 - 1 + 1 ELSE 0
        /\ \A i \in 1 .. Len(u) - 1 - 1 + 1 : SubSeq(u, 1, Len(u) - 1)[i] = u[1 + i - 1]
    BY <1>3, <2>1, SubSeqProperties
  <2>3. \A i \in 1 .. Len(t) : 1 + i - 1 = i
    BY <1>2
  <2> QED  BY <1>2, <2>1, <2>2, <2>3
<1>5. SubSeq(u, 1, Len(u) - 1) = t
  BY <1>1, <1>4, SeqEqual
<1> QED  BY <1>5 DEF PopBack, u

\* The last element in the place of another.
LEMMA SwapLastIs ==
  ASSUME NEW S, NEW t \in Seq(S), NEW row \in 1 .. Len(t)
  PROVE  /\ SwapLast(t, row) \in Seq(S) /\ Len(SwapLast(t, row)) = Len(t) - 1
         /\ DOMAIN SwapLast(t, row) = 1 .. Len(t) - 1
         /\ \A i \in 1 .. Len(t) - 1 : SwapLast(t, row)[i] = IF i = row THEN t[Len(t)] ELSE t[i]
<1>1. Len(t) \in Nat /\ Len(t) \in 1 .. Len(t) /\ Len(t) - 1 \in Nat
  OBVIOUS
<1>2. SwapLast(t, row) \in [1 .. Len(t) - 1 -> S]
  BY <1>1 DEF SwapLast
<1>3. SwapLast(t, row) \in Seq(S)
  BY <1>1, <1>2, SeqDef
<1>4. DOMAIN SwapLast(t, row) = 1 .. Len(SwapLast(t, row)) /\ Len(SwapLast(t, row)) \in Nat
  BY <1>3, LenProperties
<1>5. Len(SwapLast(t, row)) = Len(t) - 1
  BY <1>1, <1>2, <1>4
<1> QED  BY <1>1, <1>3, <1>5 DEF SwapLast

\* What is appended can be erased.
LEMMA ErasedAgain ==
  ASSUME NEW S, NEW t \in Seq(S), NEW v
  PROVE  SwapLast(Append(t, v), Len(t) + 1) = t
<1> DEFINE U == S \cup {v}
           u == Append(t, v)
<1>1. t \in Seq(U) /\ v \in U
  BY SeqMonotonic
<1> HIDE DEF U
<1>2. /\ u \in Seq(U) /\ Len(u) = Len(t) + 1 /\ Len(t) \in Nat
      /\ \A i \in 1 .. Len(t) : u[i] = t[i]
  BY <1>1
<1> HIDE DEF u
<1>3. PICK n \in 1 .. Len(u) : n = Len(t) + 1
  BY <1>2
<1>4. /\ SwapLast(u, n) \in Seq(U) /\ Len(SwapLast(u, n)) = Len(u) - 1
      /\ \A i \in 1 .. Len(u) - 1 : SwapLast(u, n)[i] = IF i = n THEN u[Len(u)] ELSE u[i]
  BY <1>2, SwapLastIs
<1>5. SwapLast(u, n) = t
  BY <1>1, <1>2, <1>3, <1>4, SeqEqual
<1> QED  BY <1>3, <1>5 DEF u

\* A call that throws leaves the archetype as it was, however far it came.
LEMMA AddEntityThrowsNothing ==
  ASSUME NEW x, Sound(x), NEW e, NEW done
  PROVE  AddEntityThrows(x, e, done) = x
<1> DEFINE columns == [c \in x.signature |->
               IF c \in done THEN Append(x.columns[c], Default) ELSE x.columns[c]]
           popped == [c \in x.signature |->
               IF Len(columns[c]) > Len(x.entities) THEN PopBack(columns[c]) ELSE columns[c]]
<1>1. /\ x.columns \in [x.signature -> Seq(Cells)] /\ x.entities \in Seq(1 .. HandleBound)
      /\ \A c \in x.signature : Len(x.columns[c]) = Len(x.entities)
      /\ Default \in Cells
  BY DEF Sound, IsArchetype, Cells, RowCountsMatch
<1>2. ASSUME NEW c \in x.signature PROVE popped[c] = x.columns[c]
  <2>1. x.columns[c] \in Seq(Cells) /\ Len(x.columns[c]) = Len(x.entities) /\ Len(x.entities) \in Nat
    BY <1>1
  <2>2. PopBack(Append(x.columns[c], Default)) = x.columns[c]
    BY <2>1, PoppedAgain
  <2>3. Len(Append(x.columns[c], Default)) = Len(x.entities) + 1
    BY <1>1, <2>1
  <2> QED  BY <2>1, <2>2, <2>3
<1>3. popped = x.columns
  <2>1. x.columns = [c \in x.signature |-> x.columns[c]]
    BY <1>1
  <2> QED  BY <1>2, <2>1
<1>4. PopBack(Append(x.entities, e)) = x.entities
  BY <1>1, PoppedAgain
<1>5. AddEntityThrows(x, e, done) = Replaced(x, PopBack(Append(x.entities, e)), popped)
  BY DEF AddEntityThrows, Appended, Replaced, Sound, IsArchetype
<1> HIDE DEF popped
<1>6. AddEntityThrows(x, e, done) = Replaced(x, x.entities, x.columns)
  BY <1>3, <1>4, <1>5
<1> QED  BY <1>6, ReplacedBySame DEF Sound

\* The fields of an archetype with one row less.
LEMMA EraseSwapIs ==
  ASSUME NEW x, Sound(x), NEW row \in 1 .. Len(x.entities)
  PROVE  /\ Sound(EraseSwap(x, row))
         /\ EraseSwap(x, row).signature = x.signature
         /\ EraseSwap(x, row).entities = SwapLast(x.entities, row)
         /\ EraseSwap(x, row).columns = [c \in x.signature |-> SwapLast(x.columns[c], row)]
         /\ EraseSwap(x, row).adds = x.adds
         /\ EraseSwap(x, row).removes = x.removes
<1>1. /\ x.columns \in [x.signature -> Seq(Cells)] /\ x.entities \in Seq(1 .. HandleBound)
      /\ \A c \in x.signature : Len(x.columns[c]) = Len(x.entities)
  BY DEF Sound, IsArchetype, Cells, RowCountsMatch
<1>2. PICK columns, rows : /\ columns = [c \in x.signature |-> SwapLast(x.columns[c], row)]
                           /\ rows = SwapLast(x.entities, row)
  OBVIOUS
<1>3. rows \in Seq(1 .. HandleBound) /\ Len(rows) = Len(x.entities) - 1
  BY <1>1, <1>2, SwapLastIs
<1>4. ASSUME NEW c \in x.signature
      PROVE  columns[c] \in Seq(Cells) /\ Len(columns[c]) = Len(rows)
  <2>1. x.columns[c] \in Seq(Cells) /\ row \in 1 .. Len(x.columns[c])
    BY <1>1
  <2>2. SwapLast(x.columns[c], row) \in Seq(Cells)
        /\ Len(SwapLast(x.columns[c], row)) = Len(x.columns[c]) - 1
    BY <2>1, SwapLastIs
  <2> QED  BY <1>1, <1>2, <1>3, <2>2
<1>5. columns \in [x.signature -> Seq(Cells)]
  BY <1>2, <1>4
<1>6. EraseSwap(x, row) = Replaced(x, rows, columns) /\ IsArchetype(x)
  BY <1>2 DEF EraseSwap, Replaced, Sound, IsArchetype
<1>7. /\ Sound(Replaced(x, rows, columns))
      /\ Replaced(x, rows, columns).signature = x.signature
      /\ Replaced(x, rows, columns).entities = rows
      /\ Replaced(x, rows, columns).columns = columns
      /\ Replaced(x, rows, columns).adds = x.adds
      /\ Replaced(x, rows, columns).removes = x.removes
  BY <1>3, <1>4, <1>5, <1>6, ReplacedIs
<1> QED  BY <1>2, <1>6, <1>7

\* A row that is added and erased again, when a copy throws, leaves no trace.
LEMMA EraseSwapRestores ==
  ASSUME NEW x, Sound(x), NEW e \in 1 .. HandleBound
  PROVE  EraseSwap(AddEntity(x, e), Len(x.entities) + 1) = x
<1> DEFINE y == AddEntity(x, e)
           n == Len(x.entities) + 1
<1>1. /\ x.columns \in [x.signature -> Seq(Cells)] /\ x.entities \in Seq(1 .. HandleBound)
      /\ Default \in Cells
      /\ \A c \in x.signature : Len(x.columns[c]) = Len(x.entities)
  BY DEF Sound, IsArchetype, Cells, RowCountsMatch
<1>2. PICK plain : plain = [c \in x.signature |-> Default]
  OBVIOUS
<1>3. plain \in [x.signature -> Cells] /\ y = RowAdded(x, e, plain)
  BY <1>1, <1>2, AddEntityAdds
<1>4. /\ Sound(y) /\ y.signature = x.signature /\ y.entities = Append(x.entities, e)
      /\ y.columns = [c \in x.signature |-> Append(x.columns[c], plain[c])]
  BY <1>3, RowAddedIs
<1>5. EraseSwap(y, n) = Replaced(y, SwapLast(y.entities, n),
                                 [c \in y.signature |-> SwapLast(y.columns[c], n)])
  BY <1>4 DEF EraseSwap, Replaced, Sound, IsArchetype
<1>6. SwapLast(y.entities, n) = x.entities
  BY <1>1, <1>4, ErasedAgain
<1>7. [c \in y.signature |-> SwapLast(y.columns[c], n)] = x.columns
  <2>1. ASSUME NEW c \in x.signature PROVE SwapLast(Append(x.columns[c], plain[c]), n) = x.columns[c]
    <3>1. x.columns[c] \in Seq(Cells) /\ n = Len(x.columns[c]) + 1
      BY <1>1
    <3> QED  BY <3>1, ErasedAgain
  <2>2. x.columns = [c \in x.signature |-> x.columns[c]]
    BY <1>1
  <2>3. [c \in y.signature |-> SwapLast(y.columns[c], n)]
          = [c \in x.signature |-> SwapLast(Append(x.columns[c], plain[c]), n)]
    BY <1>4
  <2> HIDE DEF y, n
  <2> QED  BY <2>1, <2>2, <2>3
<1>8. EraseSwap(y, n) = Replaced(y, x.entities, x.columns)
  BY <1>5, <1>6, <1>7
<1>9. Replaced(y, x.entities, x.columns) = Replaced(x, x.entities, x.columns)
  BY <1>3 DEF RowAdded, Replaced, Sound, IsArchetype
<1> QED  BY <1>8, <1>9, ReplacedBySame DEF Sound

-----------------------------------------------------------------------------
(* The archetypes of the storage, and where the entities are in them.      *)

Place == [archetype : Nat, row : Nat]

\* A list of archetypes in order, apart from the entities.
Store(xs) ==
    /\ xs \in Seq(Archetype)
    /\ \A i \in DOMAIN xs : IsArchetype(xs[i]) /\ ArchetypeSound(xs, i)
    /\ SignaturesDiffer(xs)

\* ... and with them.
Stored(xs, loc) ==
    /\ Store(xs) /\ RowsAgree(xs, loc)
    /\ loc \in [DOMAIN loc -> Place] /\ DOMAIN loc \in SUBSET (1 .. HandleBound)

\* New archetypes and edges, with every row where it was.
SameRows(x, y) == y.signature = x.signature /\ y.entities = x.entities /\ y.columns = x.columns
Grown(xs, ys) ==
    /\ DOMAIN xs \in SUBSET DOMAIN ys
    /\ \A i \in DOMAIN xs : SameRows(xs[i], ys[i])
    /\ \A i \in DOMAIN ys : i \notin DOMAIN xs => ys[i].entities = <<>>

LEMMA SeqIs ==
  ASSUME NEW S, NEW t \in Seq(S)
  PROVE  DOMAIN t = 1 .. Len(t) /\ Len(t) \in Nat /\ \A i \in DOMAIN t : t[i] \in S
OBVIOUS

LEMMA AppendIs ==
  ASSUME NEW S, NEW t \in Seq(S), NEW v \in S
  PROVE  /\ Append(t, v) \in Seq(S) /\ Len(Append(t, v)) = Len(t) + 1
         /\ DOMAIN Append(t, v) = DOMAIN t \cup {Len(t) + 1} /\ Len(t) + 1 \notin DOMAIN t
         /\ Append(t, v)[Len(t) + 1] = v /\ \A i \in DOMAIN t : Append(t, v)[i] = t[i]
OBVIOUS

LEMMA ArchetypeAppended ==
  ASSUME NEW xs, xs \in Seq(Archetype), NEW x, x \in Archetype
  PROVE  /\ Append(xs, x) \in Seq(Archetype) /\ Append(xs, x)[Len(xs) + 1] = x
         /\ DOMAIN Append(xs, x) = DOMAIN xs \cup {Len(xs) + 1} /\ Len(xs) + 1 \notin DOMAIN xs
         /\ \A i \in DOMAIN xs : Append(xs, x)[i] = xs[i]
BY AppendIs

LEMMA ReplacedInSeq ==
  ASSUME NEW S, NEW t \in Seq(S), NEW i \in DOMAIN t, NEW v \in S
  PROVE  /\ [t EXCEPT ![i] = v] \in Seq(S) /\ Len([t EXCEPT ![i] = v]) = Len(t)
         /\ DOMAIN [t EXCEPT ![i] = v] = DOMAIN t
         /\ \A j \in DOMAIN t : [t EXCEPT ![i] = v][j] = IF j = i THEN v ELSE t[j]
BY ExceptSeq, LenProperties

LEMMA StoreSound ==
  ASSUME NEW xs, Store(xs), NEW i \in DOMAIN xs
  PROVE  /\ Sound(xs[i]) /\ xs[i] \in Archetype /\ xs[i].signature \in SUBSET Types
         /\ DOMAIN xs = 1 .. Len(xs) /\ Len(xs) \in Nat /\ i \in Nat
         /\ xs[i].entities \in Seq(1 .. HandleBound)
         /\ xs[i].columns \in [xs[i].signature -> Seq(Cells)]
         /\ \A c \in xs[i].signature : Len(xs[i].columns[c]) = Len(xs[i].entities)
<1>1. IsArchetype(xs[i]) /\ RowCountsMatch(xs[i])
  BY DEF Store, ArchetypeSound
<1>2. xs \in Seq(Archetype)
  BY DEF Store
<1>3. DOMAIN xs = 1 .. Len(xs) /\ Len(xs) \in Nat /\ i \in Nat
  <2>1. DOMAIN xs = 1 .. Len(xs) /\ Len(xs) \in Nat
    BY <1>2, SeqIs
  <2>2. i \in 1 .. Len(xs)
    BY <2>1
  <2>3. \A n \in Nat : i \in 1 .. n => i \in Nat
    OBVIOUS
  <2> QED  BY <2>1, <2>2, <2>3
<1>4. /\ xs[i].entities \in Seq(1 .. HandleBound) /\ xs[i].signature \in SUBSET Types
      /\ xs[i].columns \in [xs[i].signature -> Seq(Cells)]
  BY <1>1 DEF IsArchetype, Cells
<1>5. \A c \in xs[i].signature : Len(xs[i].columns[c]) = Len(xs[i].entities)
  BY <1>1 DEF RowCountsMatch
<1> QED  BY <1>1, <1>3, <1>4, <1>5, IsArchetypeIs DEF Sound

\* The empty storage.
LEMMA EmptyStored == Stored(<<>>, <<>>) /\ Data(<<>>, <<>>) = <<>>
<1>1. DOMAIN <<>> = {} /\ <<>> \in [{} -> Place] /\ <<>> \in Seq(Archetype)
  OBVIOUS
<1>2. Stored(<<>>, <<>>)
  BY <1>1 DEF Stored, Store, RowsAgree, SignaturesDiffer
<1> QED  BY <1>1, <1>2 DEF Data

\* Another archetype in the place of one with its signature and its edges.
Put(xs, i, y) == [xs EXCEPT ![i] = y]

LEMMA OneReplaced ==
  ASSUME NEW xs, Store(xs), NEW i \in DOMAIN xs, NEW y, Sound(y),
         y.signature = xs[i].signature, y.adds = xs[i].adds, y.removes = xs[i].removes
  PROVE  /\ Store(Put(xs, i, y)) /\ DOMAIN Put(xs, i, y) = DOMAIN xs
         /\ \A j \in DOMAIN xs : Put(xs, i, y)[j] = IF j = i THEN y ELSE xs[j]
         /\ \A j \in DOMAIN xs : Put(xs, i, y)[j].signature = xs[j].signature
<1> DEFINE ys == [xs EXCEPT ![i] = y]
<1>1. xs \in Seq(Archetype) /\ y \in Archetype
  BY IsArchetypeIs DEF Store, Sound
<1>2. DOMAIN ys = DOMAIN xs /\ \A j \in DOMAIN xs : ys[j] = IF j = i THEN y ELSE xs[j]
  BY <1>1
<1>3. ys \in Seq(Archetype)
  BY <1>1, ReplacedInSeq
<1> HIDE DEF ys
<1>4. \A j \in DOMAIN xs : /\ ys[j].signature = xs[j].signature
                           /\ ys[j].adds = xs[j].adds /\ ys[j].removes = xs[j].removes
  BY <1>2
<1>5. \A j \in DOMAIN xs : IsArchetype(ys[j]) /\ RowCountsMatch(ys[j])
  BY <1>2 DEF Store, ArchetypeSound, Sound
<1>6. ASSUME NEW j \in DOMAIN xs PROVE ArchetypeSound(ys, j)
  <2>1. ArchetypeSound(xs, j) /\ RowCountsMatch(ys[j])
    BY <1>5 DEF Store
  <2>2. \A c \in DOMAIN xs[j].adds : /\ xs[j].adds[c] \in DOMAIN xs
                                    /\ ys[xs[j].adds[c]].signature = xs[j].signature \cup {c}
    BY <1>4, <2>1 DEF ArchetypeSound
  <2>3. \A c \in DOMAIN xs[j].removes : /\ xs[j].removes[c] \in DOMAIN xs
                                       /\ ys[xs[j].removes[c]].signature = xs[j].signature \ {c}
    BY <1>4, <2>1 DEF ArchetypeSound
  <2> QED  BY <1>2, <1>4, <2>1, <2>2, <2>3 DEF ArchetypeSound
<1>7. SignaturesDiffer(ys)
  BY <1>2, <1>4 DEF Store, SignaturesDiffer
<1>8. Store(ys)
  BY <1>2, <1>3, <1>5, <1>6, <1>7 DEF Store
<1> QED  BY <1>2, <1>4, <1>8 DEF ys, Put

\* getOrCreate finds the archetype of a signature or appends it.
LEMMA GetOrCreateGrows ==
  ASSUME NEW xs, Store(xs), NEW signature \in SUBSET Types, NEW ys, ys = GetOrCreate(xs, signature),
         NEW n, n = IndexOf(ys, signature)
  PROVE  /\ Store(ys) /\ Grown(xs, ys) /\ n \in DOMAIN ys /\ ys[n].signature = signature
         /\ \A i \in DOMAIN xs : ys[i] = xs[i]
<1>1. Has(ys, signature) => n \in DOMAIN ys /\ ys[n].signature = signature
  BY DEF Has, IndexOf
<1>2. CASE Has(xs, signature)
  <2>1. ys = xs
    BY <1>2 DEF GetOrCreate
  <2> QED  BY <1>1, <1>2, <2>1 DEF Grown, SameRows
<1>3. CASE ~Has(xs, signature)
  <2> DEFINE x == NewArchetype(signature)
  <2>1. ys = Append(xs, x)
    BY <1>3 DEF GetOrCreate
  <2>2. /\ Sound(x) /\ x.signature = signature /\ x.entities = <<>> /\ x \in Archetype
        /\ DOMAIN x.adds = {} /\ DOMAIN x.removes = {}
    BY NewIsSound, IsArchetypeIs DEF Sound
  <2> HIDE DEF x
  <2>3. xs \in Seq(Archetype)
    BY DEF Store
  <2>4. PICK m : m = Len(xs) + 1
    OBVIOUS
  <2>5. /\ ys \in Seq(Archetype) /\ ys[m] = x /\ \A i \in DOMAIN xs : ys[i] = xs[i]
        /\ DOMAIN ys = DOMAIN xs \cup {m} /\ m \notin DOMAIN xs
    <3>1. x \in Archetype /\ xs \in Seq(Archetype)
      BY <2>2, <2>3
    <3>2. /\ Append(xs, x) \in Seq(Archetype) /\ Append(xs, x)[Len(xs) + 1] = x
          /\ DOMAIN Append(xs, x) = DOMAIN xs \cup {Len(xs) + 1} /\ Len(xs) + 1 \notin DOMAIN xs
          /\ \A i \in DOMAIN xs : Append(xs, x)[i] = xs[i]
      BY <3>1, ArchetypeAppended, Zenon
    <3> QED  BY <2>1, <2>4, <3>2
  <2>6. m \in DOMAIN ys /\ ys[m].signature = signature
    BY <2>2, <2>5
  <2>7. Has(ys, signature)
    BY <2>6 DEF Has
  <2>8. ASSUME NEW i \in DOMAIN ys PROVE IsArchetype(ys[i]) /\ ArchetypeSound(ys, i)
    <3>1. CASE i = m
      <4>1. ys[i] = x
        BY <2>5, <3>1
      <4>2. IsArchetype(x) /\ RowCountsMatch(x)
        BY <2>2 DEF Sound
      <4>3. DOMAIN ys[i].adds = {} /\ DOMAIN ys[i].removes = {}
        BY <2>2, <4>1
      <4>4. ArchetypeSound(ys, i)
        BY <4>1, <4>2, <4>3 DEF ArchetypeSound
      <4> QED  BY <4>1, <4>2, <4>4
    <3>2. CASE i \in DOMAIN xs
      <4>1. IsArchetype(xs[i]) /\ ArchetypeSound(xs, i) /\ ys[i] = xs[i]
        BY <2>5, <3>2 DEF Store
      <4>2. DOMAIN xs \in SUBSET DOMAIN ys /\ \A k \in DOMAIN xs : ys[k] = xs[k]
        BY <2>5
      <4>3. RowCountsMatch(ys[i])
        BY <4>1 DEF ArchetypeSound
      <4>4. \A c \in DOMAIN ys[i].adds :
              ys[i].adds[c] \in DOMAIN ys /\ ys[ys[i].adds[c]].signature = ys[i].signature \cup {c}
        BY <4>1, <4>2 DEF ArchetypeSound
      <4>5. \A c \in DOMAIN xs[i].removes :
              xs[i].removes[c] \in DOMAIN xs /\ xs[xs[i].removes[c]].signature = xs[i].signature \ {c}
        BY <4>1 DEF ArchetypeSound
      <4>6. ASSUME NEW c \in DOMAIN ys[i].removes
            PROVE  ys[i].removes[c] \in DOMAIN ys /\ ys[ys[i].removes[c]].signature = ys[i].signature \ {c}
        <5>1. PICK j \in DOMAIN xs : j = xs[i].removes[c] /\ xs[j].signature = xs[i].signature \ {c}
          BY <4>1, <4>5, <4>6
        <5>2. ys[j] = xs[j] /\ j \in DOMAIN ys /\ ys[i].removes[c] = j
          BY <4>1, <4>2, <5>1
        <5> QED  BY <4>1, <5>1, <5>2
      <4> QED  BY <4>1, <4>3, <4>4, <4>6 DEF ArchetypeSound
    <3>3. i \in DOMAIN xs \/ i = m
      BY <2>5
    <3> QED  BY <3>1, <3>2, <3>3
  <2>9. SignaturesDiffer(ys)
    <3>1. \A i \in DOMAIN xs : xs[i].signature # signature
      BY <1>3 DEF Has
    <3>2. \A i, j \in DOMAIN xs : xs[i].signature = xs[j].signature => i = j
      BY DEF Store, SignaturesDiffer
    <3>3. ASSUME NEW i \in DOMAIN ys, NEW j \in DOMAIN ys, ys[i].signature = ys[j].signature
          PROVE  i = j
      <4>1. \A k \in DOMAIN xs : ys[k].signature = xs[k].signature /\ ys[k].signature # ys[m].signature
        BY <2>5, <2>6, <3>1
      <4>2. i \in DOMAIN xs \/ i = m
        BY <2>5
      <4>3. j \in DOMAIN xs \/ j = m
        BY <2>5
      <4> QED  BY <3>2, <3>3, <4>1, <4>2, <4>3
    <3> QED  BY <3>3 DEF SignaturesDiffer
  <2>10. Grown(xs, ys)
    BY <2>2, <2>5, <2>6 DEF Grown, SameRows
  <2> QED  BY <1>1, <2>5, <2>7, <2>8, <2>9, <2>10 DEF Store
<1> QED  BY <1>2, <1>3

\* The rows of a grown storage are the same rows.
LEMMA GrownKeeps ==
  ASSUME NEW xs, NEW ys, NEW loc, Stored(xs, loc), Store(ys), Grown(xs, ys)
  PROVE  Stored(ys, loc) /\ Data(ys, loc) = Data(xs, loc)
<1>1. RowsAgree(ys, loc)
  <2>1. ASSUME NEW e \in DOMAIN loc
        PROVE  /\ loc[e].archetype \in DOMAIN ys
               /\ loc[e].row \in DOMAIN ys[loc[e].archetype].entities
               /\ ys[loc[e].archetype].entities[loc[e].row] = e
    BY DEF Stored, RowsAgree, Grown, SameRows
  <2>2. ASSUME NEW i \in DOMAIN ys, NEW r \in DOMAIN ys[i].entities
        PROVE  /\ ys[i].entities[r] \in DOMAIN loc
               /\ loc[ys[i].entities[r]] = [archetype |-> i, row |-> r]
    <3>1. DOMAIN <<>> = {}
      OBVIOUS
    <3>2. i \in DOMAIN xs
      BY <2>2, <3>1 DEF Grown
    <3>3. ys[i].entities = xs[i].entities
      BY <3>2 DEF Grown, SameRows
    <3> QED  BY <3>2, <3>3 DEF Stored, RowsAgree
  <2> QED  BY <2>1, <2>2 DEF RowsAgree
<1>2. ASSUME NEW e \in DOMAIN loc
      PROVE  SameRows(xs[loc[e].archetype], ys[loc[e].archetype])
  BY DEF Stored, RowsAgree, Grown
<1>3. Data(ys, loc) = Data(xs, loc)
  BY <1>2 DEF Data, SameRows
<1> QED  BY <1>1, <1>3 DEF Stored

\* Functions are the same when they are so point by point.
IsFcn(F) == F = [z \in DOMAIN F |-> F[z]]

LEMMA SameFcn ==
  ASSUME NEW F, NEW G, IsFcn(F), IsFcn(G), DOMAIN F = DOMAIN G, \A z \in DOMAIN F : F[z] = G[z]
  PROVE  F = G
BY DEF IsFcn

LEMMA WithIs ==
  ASSUME NEW F, NEW z, NEW v
  PROVE  /\ IsFcn(With(F, z, v)) /\ DOMAIN With(F, z, v) = DOMAIN F \cup {z}
         /\ With(F, z, v)[z] = v /\ \A y \in DOMAIN F : y # z => With(F, z, v)[y] = F[y]
BY DEF With, IsFcn

\* The map F without e.
Without(F, e) == [f \in DOMAIN F \ {e} |-> F[f]]

LEMMA WithoutIs ==
  ASSUME NEW F, NEW e
  PROVE  /\ IsFcn(Without(F, e)) /\ DOMAIN Without(F, e) = DOMAIN F \ {e}
         /\ \A f \in DOMAIN F \ {e} : Without(F, e)[f] = F[f]
BY DEF Without, IsFcn

\* What the rows say of the components.
LEMMA DataIs ==
  ASSUME NEW xs, NEW loc
  PROVE  IsFcn(Data(xs, loc)) /\ DOMAIN Data(xs, loc) = DOMAIN loc
BY DEF Data, IsFcn

LEMMA DataAt ==
  ASSUME NEW xs, NEW loc, NEW f \in DOMAIN loc
  PROVE  /\ IsFcn(Data(xs, loc)[f]) /\ DOMAIN Data(xs, loc)[f] = xs[loc[f].archetype].signature
         /\ \A c \in xs[loc[f].archetype].signature :
               Data(xs, loc)[f][c] = xs[loc[f].archetype].columns[c][loc[f].row]
BY DEF Data, IsFcn

\* Where an entity is.
At(i, r) == [archetype |-> i, row |-> r]

LEMMA StoredAt ==
  ASSUME NEW xs, NEW loc, Stored(xs, loc), NEW e \in DOMAIN loc
  PROVE  /\ e \in 1 .. HandleBound /\ loc[e].archetype \in DOMAIN xs /\ loc[e].row \in Nat
         /\ loc[e].row \in 1 .. Len(xs[loc[e].archetype].entities)
         /\ xs[loc[e].archetype].entities[loc[e].row] = e
         /\ loc[e] = [archetype |-> loc[e].archetype, row |-> loc[e].row]
<1>1. loc \in [DOMAIN loc -> Place] /\ DOMAIN loc \in SUBSET (1 .. HandleBound)
  BY DEF Stored
<1>2. loc[e].row \in Nat /\ loc[e] = [archetype |-> loc[e].archetype, row |-> loc[e].row]
  BY <1>1 DEF Place
<1>3. /\ loc[e].archetype \in DOMAIN xs
      /\ loc[e].row \in DOMAIN xs[loc[e].archetype].entities
      /\ xs[loc[e].archetype].entities[loc[e].row] = e
  BY DEF Stored, RowsAgree
<1>4. xs[loc[e].archetype].entities \in Seq(1 .. HandleBound)
  BY <1>3, StoreSound DEF Stored
<1>5. loc[e].row \in 1 .. Len(xs[loc[e].archetype].entities)
  BY <1>3, <1>4, SeqIs
<1> QED  BY <1>1, <1>2, <1>3, <1>5

\* ... and who is in a row.
LEMMA StoredIn ==
  ASSUME NEW xs, NEW loc, Stored(xs, loc), NEW i \in DOMAIN xs,
         NEW r \in 1 .. Len(xs[i].entities)
  PROVE  /\ xs[i].entities[r] \in DOMAIN loc
         /\ loc[xs[i].entities[r]] = [archetype |-> i, row |-> r]
<1>1. xs[i].entities \in Seq(1 .. HandleBound)
  BY StoreSound DEF Stored
<1>2. r \in DOMAIN xs[i].entities
  BY <1>1, SeqIs
<1> QED  BY <1>2 DEF Stored, RowsAgree

\* A new entity, or an entity that was taken out, in a row of its own.
PutInRow(xs, loc, i, e, values, n, ys, there) ==
    /\ n = Len(xs[i].entities) + 1
    /\ ys = Put(xs, i, RowAdded(xs[i], e, values))
    /\ there = With(loc, e, At(i, n))

LEMMA RowAddedStored ==
  ASSUME NEW xs, NEW loc, Stored(xs, loc), NEW i \in DOMAIN xs,
         NEW e \in 1 .. HandleBound, e \notin DOMAIN loc,
         NEW values \in [xs[i].signature -> Cells],
         NEW n, NEW ys, NEW there, PutInRow(xs, loc, i, e, values, n, ys, there)
  PROVE  /\ Stored(ys, there) /\ Data(ys, there) = With(Data(xs, loc), e, values)
         /\ DOMAIN ys = DOMAIN xs /\ \A j \in DOMAIN xs : ys[j].signature = xs[j].signature
<1>0. /\ n = Len(xs[i].entities) + 1 /\ ys = Put(xs, i, RowAdded(xs[i], e, values))
      /\ there = With(loc, e, At(i, n))
  BY DEF PutInRow
<1>1. /\ Store(xs) /\ Sound(xs[i]) /\ xs[i].entities \in Seq(1 .. HandleBound)
      /\ xs[i].columns \in [xs[i].signature -> Seq(Cells)] /\ i \in Nat
      /\ \A c \in xs[i].signature : Len(xs[i].columns[c]) = Len(xs[i].entities)
  BY StoreSound DEF Stored
<1>2. PICK y : y = RowAdded(xs[i], e, values)
  OBVIOUS
<1>3. /\ Sound(y) /\ y.signature = xs[i].signature /\ y.entities = Append(xs[i].entities, e)
      /\ y.columns = [c \in xs[i].signature |-> Append(xs[i].columns[c], values[c])]
      /\ y.adds = xs[i].adds /\ y.removes = xs[i].removes
  BY <1>1, <1>2, RowAddedIs, ZenonT(30)
<1>4. /\ Store(ys) /\ DOMAIN ys = DOMAIN xs
      /\ \A j \in DOMAIN xs : ys[j] = IF j = i THEN y ELSE xs[j]
      /\ \A j \in DOMAIN xs : ys[j].signature = xs[j].signature
  BY <1>0, <1>1, <1>2, <1>3, OneReplaced, SMTT(30)
<1>5. /\ DOMAIN y.entities = DOMAIN xs[i].entities \cup {n} /\ n \notin DOMAIN xs[i].entities
      /\ y.entities[n] = e /\ \A r \in DOMAIN xs[i].entities : y.entities[r] = xs[i].entities[r]
  BY <1>0, <1>1, <1>3, AppendIs
<1>6. n \in Nat
  BY <1>0, <1>1, SeqIs
<1>7. /\ DOMAIN there = DOMAIN loc \cup {e} /\ there[e] = [archetype |-> i, row |-> n]
      /\ \A f \in DOMAIN loc : there[f] = loc[f]
  BY <1>0 DEF With, At
<1>8. RowsAgree(ys, there)
  <2>1. ASSUME NEW f \in DOMAIN there
        PROVE  /\ there[f].archetype \in DOMAIN ys
               /\ there[f].row \in DOMAIN ys[there[f].archetype].entities
               /\ ys[there[f].archetype].entities[there[f].row] = f
    <3>1. CASE f = e
      BY <1>4, <1>5, <1>7, <3>1
    <3>2. CASE f \in DOMAIN loc
      <4>1. there[f] = loc[f] /\ loc[f].archetype \in DOMAIN xs
            /\ loc[f].row \in DOMAIN xs[loc[f].archetype].entities
            /\ xs[loc[f].archetype].entities[loc[f].row] = f
        BY <1>7, <3>2 DEF Stored, RowsAgree
      <4> QED  BY <1>4, <1>5, <4>1
    <3> QED  BY <1>7, <3>1, <3>2
  <2>2. ASSUME NEW j \in DOMAIN ys, NEW r \in DOMAIN ys[j].entities
        PROVE  /\ ys[j].entities[r] \in DOMAIN there
               /\ there[ys[j].entities[r]] = [archetype |-> j, row |-> r]
    <3>1. CASE j = i /\ r = n
      BY <1>4, <1>5, <1>7, <3>1
    <3>2. CASE ~(j = i /\ r = n)
      <4>1. r \in DOMAIN xs[j].entities /\ ys[j].entities[r] = xs[j].entities[r] /\ j \in DOMAIN xs
        BY <1>4, <1>5, <3>2
      <4>2. /\ xs[j].entities[r] \in DOMAIN loc
            /\ loc[xs[j].entities[r]] = [archetype |-> j, row |-> r]
        BY <4>1 DEF Stored, RowsAgree
      <4> QED  BY <1>7, <4>1, <4>2
    <3> QED  BY <3>1, <3>2
  <2> QED  BY <2>1, <2>2 DEF RowsAgree
<1>9. there \in [DOMAIN there -> Place] /\ DOMAIN there \in SUBSET (1 .. HandleBound)
  <2>1. [archetype |-> i, row |-> n] \in Place
    BY <1>1, <1>6 DEF Place
  <2>2. loc \in [DOMAIN loc -> Place] /\ DOMAIN loc \in SUBSET (1 .. HandleBound)
    BY DEF Stored
  <2>3. \A f \in DOMAIN there : there[f] \in Place
    BY <1>7, <2>1, <2>2
  <2>4. there = [f \in DOMAIN there |-> there[f]]
    BY <1>0 DEF With
  <2> QED  BY <1>7, <2>2, <2>3, <2>4
<1>10. Stored(ys, there)
  BY <1>4, <1>8, <1>9 DEF Stored
<1>11. Data(ys, there) = With(Data(xs, loc), e, values)
  <2>1. ASSUME NEW f \in DOMAIN there
        PROVE  Data(ys, there)[f] = With(Data(xs, loc), e, values)[f]
    <3>1. CASE f = e
      <4>1. /\ IsFcn(Data(ys, there)[f]) /\ DOMAIN Data(ys, there)[f] = y.signature
            /\ \A c \in y.signature : Data(ys, there)[f][c] = y.columns[c][n]
        <5>1. there[f].archetype = i /\ there[f].row = n /\ ys[i] = y
          BY <1>4, <1>7, <3>1
        <5> QED  BY <5>1, DataAt
      <4>2. ASSUME NEW c \in xs[i].signature PROVE y.columns[c][n] = values[c]
        <5>1. xs[i].columns[c] \in Seq(Cells) /\ values[c] \in Cells /\ n = Len(xs[i].columns[c]) + 1
          BY <1>0, <1>1
        <5> QED  BY <1>3, <5>1, AppendIs
      <4>3. IsFcn(values) /\ DOMAIN values = xs[i].signature
        BY DEF IsFcn
      <4>4. Data(ys, there)[f] = values
        <5>1. DOMAIN Data(ys, there)[f] = DOMAIN values
          BY <1>3, <4>1, <4>3
        <5>2. \A c \in DOMAIN Data(ys, there)[f] : Data(ys, there)[f][c] = values[c]
          BY <1>3, <4>1, <4>2
        <5>3. IsFcn(Data(ys, there)[f]) /\ IsFcn(values)
          BY <4>1, <4>3
        <5> QED  BY <5>1, <5>2, <5>3, SameFcn
      <4>5. With(Data(xs, loc), e, values)[e] = values
        BY DEF With
      <4> QED  BY <3>1, <4>4, <4>5
    <3>2. CASE f \in DOMAIN loc
      <4>1. PICK k, r : k = loc[f].archetype /\ r = loc[f].row
        OBVIOUS
      <4>2. there[f] = loc[f] /\ k \in DOMAIN xs /\ r \in 1 .. Len(xs[k].entities) /\ f # e
        BY <1>7, <3>2, <4>1, StoredAt
      <4>3. /\ IsFcn(Data(ys, there)[f]) /\ DOMAIN Data(ys, there)[f] = ys[k].signature
            /\ \A c \in ys[k].signature : Data(ys, there)[f][c] = ys[k].columns[c][r]
        BY <4>1, <4>2, DataAt
      <4>4. /\ IsFcn(Data(xs, loc)[f]) /\ DOMAIN Data(xs, loc)[f] = xs[k].signature
            /\ \A c \in xs[k].signature : Data(xs, loc)[f][c] = xs[k].columns[c][r]
        BY <3>2, <4>1, DataAt
      <4>5. ASSUME NEW c \in xs[k].signature PROVE ys[k].columns[c][r] = xs[k].columns[c][r]
        <5>1. CASE k = i
          <6>1. /\ xs[i].columns[c] \in Seq(Cells) /\ values[c] \in Cells
                /\ r \in 1 .. Len(xs[i].columns[c])
            BY <1>1, <4>2, <5>1
          <6>2. ys[k].columns[c] = Append(xs[i].columns[c], values[c])
            BY <1>3, <1>4, <4>2, <5>1
          <6>3. r \in DOMAIN xs[i].columns[c]
            BY <6>1, SeqIs
          <6> QED  BY <5>1, <6>1, <6>2, <6>3, AppendIs
        <5>2. CASE k # i
          BY <1>4, <4>2, <5>2
        <5> QED  BY <5>1, <5>2
      <4>6. ys[k].signature = xs[k].signature
        BY <1>4, <4>2
      <4>7. Data(ys, there)[f] = Data(xs, loc)[f]
        BY <4>3, <4>4, <4>5, <4>6, SameFcn
      <4>8. f \in DOMAIN Data(xs, loc)
        BY <3>2, DataIs
      <4>9. With(Data(xs, loc), e, values)[f] = Data(xs, loc)[f]
        BY <4>2, <4>8 DEF With
      <4> QED  BY <4>7, <4>9
    <3>3. f = e \/ f \in DOMAIN loc
      BY <1>7
    <3> QED  BY <3>1, <3>2, <3>3
  <2>2. /\ IsFcn(Data(ys, there)) /\ DOMAIN Data(ys, there) = DOMAIN there
        /\ IsFcn(With(Data(xs, loc), e, values))
        /\ DOMAIN With(Data(xs, loc), e, values) = DOMAIN there
    <3>1. /\ IsFcn(Data(ys, there)) /\ DOMAIN Data(ys, there) = DOMAIN there
          /\ DOMAIN Data(xs, loc) = DOMAIN loc
      BY DataIs
    <3>2. /\ IsFcn(With(Data(xs, loc), e, values))
          /\ DOMAIN With(Data(xs, loc), e, values) = DOMAIN Data(xs, loc) \cup {e}
      BY WithIs, ZenonT(30)
    <3> QED  BY <1>7, <3>1, <3>2
  <2> QED  BY <2>1, <2>2, SameFcn
<1> QED  BY <1>4, <1>10, <1>11

\* An entity taken out of its row: the last one of the archetype is there now.
TakenFromRow(xs, loc, e, i, row, ys, moved, there) ==
    /\ i = loc[e].archetype /\ row = loc[e].row
    /\ ys = Put(xs, i, EraseSwap(xs[i], row))
    /\ moved = Relocated(loc, Swapped(xs[i]), e, i, row)
    /\ there = Without(moved, e)

LEMMA RowErasedStored ==
  ASSUME NEW xs, NEW loc, Stored(xs, loc), NEW e \in DOMAIN loc,
         NEW i, NEW row, NEW ys, NEW moved, NEW there,
         TakenFromRow(xs, loc, e, i, row, ys, moved, there)
  PROVE  /\ Stored(ys, there) /\ Data(ys, there) = Without(Data(xs, loc), e)
         /\ DOMAIN ys = DOMAIN xs /\ \A j \in DOMAIN xs : ys[j].signature = xs[j].signature
<1>0. /\ i = loc[e].archetype /\ row = loc[e].row /\ ys = Put(xs, i, EraseSwap(xs[i], row))
      /\ moved = Relocated(loc, Swapped(xs[i]), e, i, row) /\ there = Without(moved, e)
  BY DEF TakenFromRow
<1>1. /\ i \in DOMAIN xs /\ row \in 1 .. Len(xs[i].entities) /\ row \in Nat
      /\ xs[i].entities[row] = e /\ loc[e] = [archetype |-> i, row |-> row]
  BY <1>0, StoredAt
<1>2. /\ Store(xs) /\ Sound(xs[i]) /\ xs[i].entities \in Seq(1 .. HandleBound) /\ i \in Nat
      /\ xs[i].columns \in [xs[i].signature -> Seq(Cells)]
      /\ \A c \in xs[i].signature : Len(xs[i].columns[c]) = Len(xs[i].entities)
  BY <1>1, StoreSound DEF Stored
<1>3. PICK n \in Nat : n = Len(xs[i].entities)
  BY <1>2, SeqIs
<1>4. row \in 1 .. n /\ n \in 1 .. n /\ n \in 1 .. Len(xs[i].entities)
  BY <1>1, <1>3
<1>5. PICK last : last = xs[i].entities[n]
  OBVIOUS
<1>6. /\ last \in DOMAIN loc /\ loc[last] = [archetype |-> i, row |-> n]
      /\ Swapped(xs[i]) = last
  BY <1>1, <1>3, <1>4, <1>5, StoredIn DEF Swapped
<1>7. last = e <=> row = n
  BY <1>1, <1>5, <1>6
<1>8. PICK y : y = EraseSwap(xs[i], row)
  OBVIOUS
<1>9. /\ Sound(y) /\ y.signature = xs[i].signature /\ y.entities = SwapLast(xs[i].entities, row)
      /\ y.columns = [c \in xs[i].signature |-> SwapLast(xs[i].columns[c], row)]
      /\ y.adds = xs[i].adds /\ y.removes = xs[i].removes
  <2>1. PICK x : x = xs[i]
    OBVIOUS
  <2>2. Sound(x) /\ row \in 1 .. Len(x.entities)
    BY <1>1, <1>2, <2>1
  <2>3. /\ Sound(EraseSwap(x, row)) /\ EraseSwap(x, row).signature = x.signature
        /\ EraseSwap(x, row).entities = SwapLast(x.entities, row)
        /\ EraseSwap(x, row).columns = [c \in x.signature |-> SwapLast(x.columns[c], row)]
        /\ EraseSwap(x, row).adds = x.adds /\ EraseSwap(x, row).removes = x.removes
    BY <2>2, EraseSwapIs
  <2> QED  BY <1>8, <2>1, <2>3, Zenon
<1>10. /\ Store(ys) /\ DOMAIN ys = DOMAIN xs
       /\ \A j \in DOMAIN xs : ys[j] = IF j = i THEN y ELSE xs[j]
       /\ \A j \in DOMAIN xs : ys[j].signature = xs[j].signature
  BY <1>0, <1>1, <1>2, <1>8, <1>9, OneReplaced
<1>11. /\ DOMAIN y.entities = 1 .. n - 1
       /\ \A r \in 1 .. n - 1 : y.entities[r] = IF r = row THEN last ELSE xs[i].entities[r]
  <2>1. PICK t \in Seq(1 .. HandleBound) : t = xs[i].entities
    BY <1>2
  <2>2. row \in 1 .. Len(t)
    BY <1>1, <2>1
  <2>3. /\ DOMAIN SwapLast(t, row) = 1 .. Len(t) - 1
        /\ \A r \in 1 .. Len(t) - 1 : SwapLast(t, row)[r] = IF r = row THEN t[Len(t)] ELSE t[r]
    BY <2>2, SwapLastIs
  <2> QED  BY <1>3, <1>5, <1>9, <2>1, <2>3
<1>12. /\ DOMAIN there = DOMAIN loc \ {e}
       /\ \A f \in DOMAIN there :
             there[f] = IF f = last THEN [archetype |-> i, row |-> row] ELSE loc[f]
  <2>1. DOMAIN there = DOMAIN loc \ {e} /\ \A f \in DOMAIN loc \ {e} : there[f] = moved[f]
    <3>1. DOMAIN moved = DOMAIN loc
      BY <1>0 DEF Relocated
    <3>2. DOMAIN there = DOMAIN moved \ {e} /\ \A f \in DOMAIN moved \ {e} : there[f] = moved[f]
      BY <1>0 DEF Without
    <3> QED  BY <3>1, <3>2
  <2>2. CASE last = e
    BY <1>0, <1>6, <2>1, <2>2 DEF Relocated
  <2>3. CASE last # e
    <3>1. moved = [loc EXCEPT ![last] = [archetype |-> i, row |-> row]]
      BY <1>0, <1>6, <2>3 DEF Relocated
    <3>2. \A f \in DOMAIN loc : moved[f] = IF f = last THEN [archetype |-> i, row |-> row] ELSE loc[f]
      BY <1>6, <3>1
    <3> QED  BY <2>1, <3>2
  <2> QED  BY <2>2, <2>3
<1>13. ASSUME NEW f \in DOMAIN there, f # last
       PROVE  /\ there[f] = loc[f] /\ loc[f].archetype \in DOMAIN xs /\ f # e
              /\ loc[f].row \in 1 .. Len(xs[loc[f].archetype].entities)
              /\ xs[loc[f].archetype].entities[loc[f].row] = f
              /\ loc[f].archetype = i => loc[f].row \in 1 .. n - 1 /\ loc[f].row # row
  <2>1. /\ there[f] = loc[f] /\ f \in DOMAIN loc /\ f # e
    BY <1>12, <1>13
  <2>2. /\ loc[f].archetype \in DOMAIN xs /\ loc[f].row \in Nat
        /\ loc[f].row \in 1 .. Len(xs[loc[f].archetype].entities)
        /\ xs[loc[f].archetype].entities[loc[f].row] = f
    BY <2>1, StoredAt
  <2>3. ASSUME loc[f].archetype = i PROVE loc[f].row \in 1 .. n - 1 /\ loc[f].row # row
    <3>1. loc[f].row # n /\ loc[f].row # row
      BY <1>1, <1>5, <1>13, <2>1, <2>2, <2>3
    <3>2. loc[f].row \in 1 .. n
      BY <1>3, <2>2, <2>3
    <3> QED  BY <3>1, <3>2
  <2> QED  BY <2>1, <2>2, <2>3
<1>14. ASSUME last \in DOMAIN there
       PROVE  row \in 1 .. n - 1 /\ last # e /\ there[last] = [archetype |-> i, row |-> row]
  BY <1>4, <1>7, <1>12, <1>14
<1>15. RowsAgree(ys, there)
  <2>1. ASSUME NEW f \in DOMAIN there
        PROVE  /\ there[f].archetype \in DOMAIN ys
               /\ there[f].row \in DOMAIN ys[there[f].archetype].entities
               /\ ys[there[f].archetype].entities[there[f].row] = f
    <3>1. CASE f = last
      <4>1. there[f].archetype = i /\ there[f].row = row /\ row \in 1 .. n - 1
        BY <1>14, <3>1
      <4>2. ys[i] = y
        BY <1>1, <1>10
      <4> QED  BY <1>1, <1>10, <1>11, <3>1, <4>1, <4>2
    <3>2. CASE f # last
      <4>1. PICK k, r : k = loc[f].archetype /\ r = loc[f].row
        OBVIOUS
      <4>2. /\ there[f].archetype = k /\ there[f].row = r /\ k \in DOMAIN xs
            /\ r \in 1 .. Len(xs[k].entities) /\ xs[k].entities[r] = f
            /\ k = i => r \in 1 .. n - 1 /\ r # row
        BY <1>13, <3>2, <4>1
      <4>3. CASE k = i
        <5>1. ys[i] = y
          BY <1>1, <1>10
        <5> QED  BY <1>10, <1>11, <4>2, <4>3, <5>1
      <4>4. CASE k # i
        <5>1. ys[k] = xs[k]
          BY <1>10, <4>2, <4>4
        <5>2. xs[k].entities \in Seq(1 .. HandleBound)
          BY <1>2, <4>2, StoreSound
        <5>3. r \in DOMAIN xs[k].entities
          BY <4>2, <5>2, SeqIs
        <5> QED  BY <1>10, <4>2, <5>1, <5>3
      <4> QED  BY <4>3, <4>4
    <3> QED  BY <3>1, <3>2
  <2>2. ASSUME NEW k \in DOMAIN ys, NEW r \in DOMAIN ys[k].entities
        PROVE  /\ ys[k].entities[r] \in DOMAIN there
               /\ there[ys[k].entities[r]] = [archetype |-> k, row |-> r]
    <3>1. CASE k = i
      <4>1. ys[k] = y /\ r \in 1 .. n - 1
        BY <1>10, <1>11, <3>1
      <4>2. CASE r = row
        <5>1. last # e /\ ys[k].entities[r] = last
          BY <1>7, <1>11, <4>1, <4>2
        <5>2. last \in DOMAIN there
          BY <1>6, <1>12, <5>1
        <5> QED  BY <1>12, <3>1, <4>2, <5>1, <5>2
      <4>3. CASE r # row
        <5>1. r \in 1 .. n /\ r # n
          BY <4>1
        <5>2. PICK g : g = xs[i].entities[r]
          OBVIOUS
        <5>3. g \in DOMAIN loc /\ loc[g] = [archetype |-> i, row |-> r]
          BY <1>1, <1>3, <5>1, <5>2, StoredIn
        <5>4. g # e /\ g # last
          BY <1>1, <1>6, <4>3, <5>1, <5>3
        <5>5. ys[k].entities[r] = g
          BY <1>11, <4>1, <4>3, <5>2
        <5> QED  BY <1>12, <3>1, <5>3, <5>4, <5>5
      <4> QED  BY <4>2, <4>3
    <3>2. CASE k # i
      <4>1. ys[k] = xs[k] /\ k \in DOMAIN xs
        BY <1>10, <3>2
      <4>2. PICK g : g = xs[k].entities[r]
        OBVIOUS
      <4>3. g \in DOMAIN loc /\ loc[g] = [archetype |-> k, row |-> r]
        BY <4>1, <4>2 DEF Stored, RowsAgree
      <4>4. g # e /\ g # last
        BY <1>1, <1>6, <3>2, <4>3
      <4> QED  BY <1>12, <4>1, <4>2, <4>3, <4>4
    <3> QED  BY <3>1, <3>2
  <2> QED  BY <2>1, <2>2 DEF RowsAgree
<1>16. there \in [DOMAIN there -> Place] /\ DOMAIN there \in SUBSET (1 .. HandleBound)
  <2>1. [archetype |-> i, row |-> row] \in Place
    BY <1>1, <1>2 DEF Place
  <2>2. loc \in [DOMAIN loc -> Place] /\ DOMAIN loc \in SUBSET (1 .. HandleBound)
    BY DEF Stored
  <2>3. \A f \in DOMAIN there : there[f] \in Place
    BY <1>12, <2>1, <2>2
  <2>4. there = [f \in DOMAIN there |-> there[f]]
    BY <1>0 DEF Without
  <2> QED  BY <1>12, <2>2, <2>3, <2>4
<1>17. ASSUME NEW f \in DOMAIN there
       PROVE  Data(ys, there)[f] = Data(xs, loc)[f]
  <2>1. PICK k, r : k = there[f].archetype /\ r = there[f].row
    OBVIOUS
  <2>2. PICK p, q : p = loc[f].archetype /\ q = loc[f].row
    OBVIOUS
  <2>3. f \in DOMAIN loc
    BY <1>12
  <2>4. /\ k = p /\ p \in DOMAIN xs /\ q \in 1 .. Len(xs[p].entities)
        /\ p = i => r \in 1 .. n - 1 /\ q = IF r = row THEN n ELSE r
        /\ p # i => r = q
    <3>1. CASE f = last
      <4>1. p = i /\ q = n /\ k = i /\ r = row /\ row \in 1 .. n - 1
        BY <1>6, <1>14, <2>1, <2>2, <3>1
      <4> QED  BY <1>1, <1>4, <4>1
    <3>2. CASE f # last
      BY <1>13, <2>1, <2>2, <3>2
    <3> QED  BY <3>1, <3>2
  <2>5. ASSUME NEW c \in xs[p].signature PROVE ys[k].columns[c][r] = xs[p].columns[c][q]
    <3>1. CASE p = i
      <4>1. PICK t : t = xs[i].columns[c]
        OBVIOUS
      <4>2. t \in Seq(Cells) /\ Len(t) = n /\ row \in 1 .. Len(t)
        BY <1>2, <1>3, <1>4, <3>1, <4>1
      <4>3. ys[k].columns[c] = SwapLast(t, row)
        BY <1>9, <1>10, <2>4, <3>1, <4>1
      <4>4. \A m \in 1 .. Len(t) - 1 : SwapLast(t, row)[m] = IF m = row THEN t[Len(t)] ELSE t[m]
        BY <4>2, SwapLastIs
      <4>5. r \in 1 .. n - 1 /\ q = IF r = row THEN n ELSE r
        BY <2>4, <3>1
      <4>6. SwapLast(t, row)[r] = t[q]
        BY <4>2, <4>4, <4>5
      <4> QED  BY <3>1, <4>1, <4>3, <4>6
    <3>2. CASE p # i
      BY <1>10, <2>4, <3>2
    <3> QED  BY <3>1, <3>2
  <2>6. ys[k].signature = xs[p].signature
    BY <1>10, <2>4
  <2>7. PICK F : F = Data(ys, there)[f]
    OBVIOUS
  <2>8. PICK G : G = Data(xs, loc)[f]
    OBVIOUS
  <2>9. /\ IsFcn(F) /\ DOMAIN F = ys[k].signature
        /\ \A c \in ys[k].signature : F[c] = ys[k].columns[c][r]
    <3>1. /\ IsFcn(F) /\ DOMAIN F = ys[there[f].archetype].signature
          /\ \A c \in ys[there[f].archetype].signature :
                F[c] = ys[there[f].archetype].columns[c][there[f].row]
      BY <2>7, DataAt
    <3> QED  BY <2>1, <3>1
  <2>10. /\ IsFcn(G) /\ DOMAIN G = xs[p].signature
         /\ \A c \in xs[p].signature : G[c] = xs[p].columns[c][q]
    <3>1. /\ IsFcn(G) /\ DOMAIN G = xs[loc[f].archetype].signature
          /\ \A c \in xs[loc[f].archetype].signature :
                G[c] = xs[loc[f].archetype].columns[c][loc[f].row]
      BY <2>3, <2>8, DataAt
    <3> QED  BY <2>2, <3>1
  <2>11. \A c \in DOMAIN F : F[c] = G[c]
    BY <2>5, <2>6, <2>9, <2>10
  <2>12. F = G
    BY <2>6, <2>9, <2>10, <2>11, SameFcn
  <2> QED  BY <2>7, <2>8, <2>12
<1>18. Data(ys, there) = Without(Data(xs, loc), e)
  <2>1. /\ IsFcn(Data(ys, there)) /\ DOMAIN Data(ys, there) = DOMAIN there
        /\ DOMAIN Data(xs, loc) = DOMAIN loc
    BY DataIs
  <2>2. /\ IsFcn(Without(Data(xs, loc), e)) /\ DOMAIN Without(Data(xs, loc), e) = DOMAIN there
        /\ \A f \in DOMAIN there : Without(Data(xs, loc), e)[f] = Data(xs, loc)[f]
    <3>1. /\ IsFcn(Without(Data(xs, loc), e))
          /\ DOMAIN Without(Data(xs, loc), e) = DOMAIN Data(xs, loc) \ {e}
          /\ \A f \in DOMAIN Data(xs, loc) \ {e} : Without(Data(xs, loc), e)[f] = Data(xs, loc)[f]
      BY WithoutIs
    <3>2. DOMAIN there = DOMAIN loc \ {e}
      BY <1>12
    <3> QED  BY <2>1, <3>1, <3>2
  <2> QED  BY <1>17, <2>1, <2>2, SameFcn
<1> QED  BY <1>10, <1>15, <1>16, <1>18 DEF Stored

\* An entity that changes archetype is taken out of one row and put into another.
LEMMA RowMovedStored ==
  ASSUME NEW xs, NEW loc, Stored(xs, loc), NEW e \in DOMAIN loc,
         NEW i, i = loc[e].archetype, NEW row, row = loc[e].row,
         NEW d \in DOMAIN xs, d # i, NEW values \in [xs[d].signature -> Cells],
         NEW n, n = Len(xs[d].entities) + 1,
         NEW ys, ys = Put(Put(xs, d, RowAdded(xs[d], e, values)), i, EraseSwap(xs[i], row)),
         NEW there, there = Relocated(Put(loc, e, At(d, n)), Swapped(xs[i]), e, i, row)
  PROVE  /\ Stored(ys, there) /\ Data(ys, there) = With(Without(Data(xs, loc), e), e, values)
         /\ DOMAIN ys = DOMAIN xs /\ \A j \in DOMAIN xs : ys[j].signature = xs[j].signature
<1>1. /\ i \in DOMAIN xs /\ e \in 1 .. HandleBound /\ xs \in Seq(Archetype)
      /\ row \in 1 .. Len(xs[i].entities)
  BY StoredAt DEF Stored, Store
<1>2. PICK moved : moved = Relocated(loc, Swapped(xs[i]), e, i, row)
  OBVIOUS
<1>3. PICK zs, gone : zs = Put(xs, i, EraseSwap(xs[i], row)) /\ gone = Without(moved, e)
  OBVIOUS
<1>4. /\ Stored(zs, gone) /\ Data(zs, gone) = Without(Data(xs, loc), e)
      /\ DOMAIN zs = DOMAIN xs /\ \A j \in DOMAIN xs : zs[j].signature = xs[j].signature
  BY <1>2, <1>3, RowErasedStored DEF TakenFromRow
<1>5. zs[d] = xs[d]
  BY <1>3 DEF Put
<1>6. DOMAIN moved = DOMAIN loc
  BY <1>2 DEF Relocated
<1>7. DOMAIN gone = DOMAIN loc \ {e} /\ \A f \in DOMAIN loc \ {e} : gone[f] = moved[f]
  BY <1>3, <1>6 DEF Without
<1>8. PICK us, back : /\ us = Put(zs, d, RowAdded(zs[d], e, values))
                      /\ back = With(gone, e, At(d, n))
  OBVIOUS
<1>9. /\ Stored(us, back) /\ Data(us, back) = With(Data(zs, gone), e, values)
      /\ DOMAIN us = DOMAIN zs /\ \A j \in DOMAIN zs : us[j].signature = zs[j].signature
  <2>1. d \in DOMAIN zs /\ e \notin DOMAIN gone /\ values \in [zs[d].signature -> Cells]
        /\ n = Len(zs[d].entities) + 1
    BY <1>4, <1>5, <1>7
  <2> QED  BY <1>1, <1>4, <1>8, <2>1, RowAddedStored DEF PutInRow
<1>10. us = ys
  <2>1. PICK y, z : y = RowAdded(xs[d], e, values) /\ z = EraseSwap(xs[i], row)
    OBVIOUS
  <2>2. us = Put(Put(xs, i, z), d, y) /\ ys = Put(Put(xs, d, y), i, z)
    BY <1>3, <1>5, <1>8, <2>1
  <2>3. Put(Put(xs, i, z), d, y) = Put(Put(xs, d, y), i, z)
    BY DEF Put
  <2> QED  BY <2>2, <2>3
<1>11. back = there
  <2>1. PICK last : last = Swapped(xs[i])
    OBVIOUS
  <2>2. PICK to : /\ to = [loc EXCEPT ![e] = At(d, n)] /\ there = Relocated(to, last, e, i, row)
                  /\ DOMAIN to = DOMAIN loc
                  /\ \A f \in DOMAIN loc : to[f] = IF f = e THEN At(d, n) ELSE loc[f]
    BY <2>1 DEF Put
  <2>3. /\ IsFcn(there) /\ DOMAIN there = DOMAIN loc
        /\ \A f \in DOMAIN loc : there[f] = IF f = e THEN At(d, n) ELSE moved[f]
    <3>1. last \in DOMAIN loc
      <4>1. xs[i].entities \in Seq(1 .. HandleBound)
        BY <1>1, StoreSound DEF Stored
      <4>2. Len(xs[i].entities) \in 1 .. Len(xs[i].entities)
        BY <1>1, <4>1
      <4> QED  BY <1>1, <2>1, <4>2, StoredIn DEF Swapped
    <3>2. CASE last = e
      <4>1. there = to /\ moved = loc
        BY <1>2, <2>1, <2>2, <3>2 DEF Relocated
      <4>2. IsFcn(there)
        BY <2>2, <4>1 DEF IsFcn
      <4> QED  BY <2>2, <4>1, <4>2
    <3>3. CASE last # e
      <4>1. /\ there = [to EXCEPT ![last] = [archetype |-> i, row |-> row]]
            /\ moved = [loc EXCEPT ![last] = [archetype |-> i, row |-> row]]
        BY <1>2, <2>1, <2>2, <3>3 DEF Relocated
      <4>2. IsFcn(there)
        BY <4>1 DEF IsFcn
      <4> QED  BY <2>2, <3>1, <3>3, <4>1, <4>2
    <3> QED  BY <3>2, <3>3
  <2>4. /\ IsFcn(back) /\ DOMAIN back = DOMAIN gone \cup {e} /\ back[e] = At(d, n)
        /\ \A f \in DOMAIN gone : f # e => back[f] = gone[f]
    BY <1>8 DEF With, IsFcn
  <2>5. DOMAIN back = DOMAIN there
    BY <1>7, <2>3, <2>4
  <2>6. \A f \in DOMAIN back : back[f] = there[f]
    BY <1>7, <2>3, <2>4
  <2> QED  BY <2>3, <2>4, <2>5, <2>6, SameFcn
<1>12. Stored(ys, there) /\ Data(ys, there) = With(Without(Data(xs, loc), e), e, values)
  BY <1>4, <1>9, <1>10, <1>11
<1> QED  BY <1>4, <1>9, <1>10, <1>12

\* The archetypes xs with v in a column of i, and the data D with v as a component of e.
Written(xs, i, c, row, v) == [xs EXCEPT ![i].columns[c][row] = v]
Overwritten(D, e, c, v) == [D EXCEPT ![e][c] = v]

\* A value that is written.
LEMMA ValueWrittenStored ==
  ASSUME NEW xs, NEW loc, Stored(xs, loc), NEW e \in DOMAIN loc,
         NEW i, i = loc[e].archetype, NEW row, row = loc[e].row,
         NEW c \in xs[i].signature, NEW v \in Cells,
         NEW ys, ys = Written(xs, i, c, row, v)
  PROVE  /\ Stored(ys, loc) /\ Data(ys, loc) = Overwritten(Data(xs, loc), e, c, v)
         /\ DOMAIN ys = DOMAIN xs /\ \A j \in DOMAIN xs : ys[j].signature = xs[j].signature
<1>1. /\ i \in DOMAIN xs /\ xs \in Seq(Archetype) /\ row \in 1 .. Len(xs[i].entities)
      /\ xs[i].entities[row] = e
  BY StoredAt DEF Stored, Store
<1>2. /\ Store(xs) /\ Sound(xs[i]) /\ IsArchetype(xs[i]) /\ xs[i].entities \in Seq(1 .. HandleBound)
      /\ xs[i].columns \in [xs[i].signature -> Seq(Cells)]
      /\ \A t \in xs[i].signature : Len(xs[i].columns[t]) = Len(xs[i].entities)
  BY <1>1, StoreSound DEF Stored, Sound
<1>3. PICK columns : columns = [xs[i].columns EXCEPT ![c] = [xs[i].columns[c] EXCEPT ![row] = v]]
  OBVIOUS
<1>4. /\ columns \in [xs[i].signature -> Seq(Cells)]
      /\ \A t \in xs[i].signature : Len(columns[t]) = Len(xs[i].entities)
      /\ \A t \in xs[i].signature : \A r \in 1 .. Len(xs[i].entities) :
            columns[t][r] = IF t = c /\ r = row THEN v ELSE xs[i].columns[t][r]
  <2>1. PICK col \in Seq(Cells) : col = xs[i].columns[c] /\ Len(col) = Len(xs[i].entities)
    BY <1>2
  <2>2. row \in DOMAIN col /\ DOMAIN col = 1 .. Len(col)
    BY <1>1, <2>1, SeqIs
  <2>3. PICK new : new = [col EXCEPT ![row] = v]
    OBVIOUS
  <2>4. /\ new \in Seq(Cells) /\ Len(new) = Len(col)
        /\ \A r \in DOMAIN col : new[r] = IF r = row THEN v ELSE col[r]
    BY <2>2, <2>3, ReplacedInSeq
  <2>5. columns = [xs[i].columns EXCEPT ![c] = new]
    BY <1>3, <2>1, <2>3
  <2>6. \A t \in xs[i].signature : columns[t] = IF t = c THEN new ELSE xs[i].columns[t]
    BY <1>2, <2>5
  <2>7. columns \in [xs[i].signature -> Seq(Cells)]
    BY <1>2, <2>4, <2>5
  <2>8. \A t \in xs[i].signature : Len(columns[t]) = Len(xs[i].entities)
    BY <1>2, <2>1, <2>4, <2>6
  <2>9. ASSUME NEW t \in xs[i].signature, NEW r \in 1 .. Len(xs[i].entities)
        PROVE  columns[t][r] = IF t = c /\ r = row THEN v ELSE xs[i].columns[t][r]
    BY <2>1, <2>2, <2>4, <2>6
  <2> QED  BY <2>7, <2>8, <2>9
<1>5. PICK y : y = Replaced(xs[i], xs[i].entities, columns)
  OBVIOUS
<1>6. /\ Sound(y) /\ y.signature = xs[i].signature /\ y.entities = xs[i].entities
      /\ y.columns = columns /\ y.adds = xs[i].adds /\ y.removes = xs[i].removes
  <2>1. PICK x, rows : x = xs[i] /\ rows = xs[i].entities
    OBVIOUS
  <2>2. /\ IsArchetype(x) /\ rows \in Seq(1 .. HandleBound)
        /\ columns \in [x.signature -> Seq(Cells)]
        /\ \A t \in x.signature : Len(columns[t]) = Len(rows)
    BY <1>2, <1>4, <2>1
  <2>3. y = Replaced(x, rows, columns)
    BY <1>5, <2>1
  <2>4. /\ Sound(y) /\ y.signature = x.signature /\ y.entities = rows
        /\ y.columns = columns /\ y.adds = x.adds /\ y.removes = x.removes
    BY <2>2, <2>3, ReplacedIs
  <2> QED  BY <2>1, <2>4
<1>7. ys = Put(xs, i, y)
  <2>1. [xs[i] EXCEPT !.columns[c][row] = v] = y
    BY <1>2, <1>3, <1>5 DEF Replaced, IsArchetype
  <2>2. ys = [xs EXCEPT ![i] = [xs[i] EXCEPT !.columns[c][row] = v]]
    BY <1>1 DEF Written
  <2> QED  BY <2>1, <2>2 DEF Put
<1>8. PICK zs : zs = ys
  OBVIOUS
<1>9. /\ Store(zs) /\ DOMAIN zs = DOMAIN xs
      /\ \A j \in DOMAIN xs : zs[j] = IF j = i THEN y ELSE xs[j]
      /\ \A j \in DOMAIN xs : zs[j].signature = xs[j].signature
  BY <1>1, <1>2, <1>6, <1>7, <1>8, OneReplaced
<1>10. \A j \in DOMAIN xs : zs[j].entities = xs[j].entities
  BY <1>6, <1>9
<1>11. RowsAgree(zs, loc)
  BY <1>9, <1>10 DEF Stored, RowsAgree
<1>12. Stored(zs, loc)
  BY <1>9, <1>11 DEF Stored
<1>13. PICK D : D = Data(xs, loc)
  OBVIOUS
<1>14. Data(zs, loc) = [D EXCEPT ![e] = [D[e] EXCEPT ![c] = v]]
  <2>1. IsFcn(D) /\ DOMAIN D = DOMAIN loc /\ IsFcn(Data(zs, loc)) /\ DOMAIN Data(zs, loc) = DOMAIN loc
    BY <1>13, DataIs
  <2>2. ASSUME NEW f \in DOMAIN loc
        PROVE  Data(zs, loc)[f] = IF f = e THEN [D[e] EXCEPT ![c] = v] ELSE D[f]
    <3>1. PICK k, r : k = loc[f].archetype /\ r = loc[f].row
      OBVIOUS
    <3>2. /\ k \in DOMAIN xs /\ r \in 1 .. Len(xs[k].entities) /\ xs[k].entities[r] = f
      BY <3>1, StoredAt
    <3>3. /\ IsFcn(Data(zs, loc)[f]) /\ DOMAIN Data(zs, loc)[f] = zs[k].signature
          /\ \A t \in zs[k].signature : Data(zs, loc)[f][t] = zs[k].columns[t][r]
      BY <3>1, DataAt
    <3>4. /\ IsFcn(D[f]) /\ DOMAIN D[f] = xs[k].signature
          /\ \A t \in xs[k].signature : D[f][t] = xs[k].columns[t][r]
      BY <1>13, <3>1, DataAt
    <3>5. zs[k].signature = xs[k].signature
      BY <1>9, <3>2
    <3>6. CASE f = e
      <4>1. k = i /\ r = row
        BY <3>1, <3>6
      <4>2. zs[k].columns = columns
        BY <1>6, <1>9, <3>2, <4>1
      <4>3. \A t \in xs[k].signature : zs[k].columns[t][r] = IF t = c THEN v ELSE xs[k].columns[t][r]
        BY <1>1, <1>4, <4>1, <4>2
      <4>4. PICK G : G = [D[e] EXCEPT ![c] = v]
        OBVIOUS
      <4>5. /\ IsFcn(G) /\ DOMAIN G = DOMAIN D[e]
            /\ \A t \in DOMAIN D[e] : G[t] = IF t = c THEN v ELSE D[e][t]
        BY <4>4 DEF IsFcn
      <4>6. \A t \in DOMAIN Data(zs, loc)[f] : Data(zs, loc)[f][t] = G[t]
        BY <3>3, <3>4, <3>5, <3>6, <4>3, <4>5
      <4>7. DOMAIN Data(zs, loc)[f] = DOMAIN G
        BY <3>3, <3>4, <3>5, <3>6, <4>5
      <4>8. Data(zs, loc)[f] = G
        BY <3>3, <4>5, <4>6, <4>7, SameFcn
      <4> QED  BY <3>6, <4>4, <4>8
    <3>7. CASE f # e
      <4>1. \A t \in xs[k].signature : zs[k].columns[t][r] = xs[k].columns[t][r]
        <5>1. CASE k = i
          <6>1. r # row
            BY <1>1, <3>2, <3>7, <5>1
          <6>2. zs[k].columns = columns
            BY <1>6, <1>9, <3>2, <5>1
          <6> QED  BY <1>4, <3>2, <5>1, <6>1, <6>2
        <5>2. CASE k # i
          BY <1>9, <3>2, <5>2
        <5> QED  BY <5>1, <5>2
      <4>2. DOMAIN Data(zs, loc)[f] = DOMAIN D[f]
        BY <3>3, <3>4, <3>5
      <4>3. \A t \in DOMAIN Data(zs, loc)[f] : Data(zs, loc)[f][t] = D[f][t]
        BY <3>3, <3>4, <3>5, <4>1
      <4>4. Data(zs, loc)[f] = D[f]
        BY <3>3, <3>4, <4>2, <4>3, SameFcn
      <4> QED  BY <3>7, <4>4
    <3> QED  BY <3>6, <3>7
  <2>3. PICK G, H : H = [D[e] EXCEPT ![c] = v] /\ G = [D EXCEPT ![e] = H]
    OBVIOUS
  <2>4. /\ IsFcn(G) /\ DOMAIN G = DOMAIN D /\ \A f \in DOMAIN D : G[f] = IF f = e THEN H ELSE D[f]
    BY <2>3 DEF IsFcn
  <2>5. \A f \in DOMAIN loc : Data(zs, loc)[f] = IF f = e THEN H ELSE D[f]
    BY <2>2, <2>3
  <2>6. \A f \in DOMAIN Data(zs, loc) : Data(zs, loc)[f] = G[f]
    BY <2>1, <2>4, <2>5
  <2>7. DOMAIN Data(zs, loc) = DOMAIN G
    BY <2>1, <2>4
  <2>8. Data(zs, loc) = G
    BY <2>1, <2>4, <2>6, <2>7, SameFcn
  <2> QED  BY <2>3, <2>8
<1>15. [D EXCEPT ![e] = [D[e] EXCEPT ![c] = v]] = Overwritten(Data(xs, loc), e, c, v)
  BY <1>13 DEF Overwritten
<1> QED  BY <1>8, <1>9, <1>12, <1>14, <1>15

-----------------------------------------------------------------------------
(* New archetypes and edges, and the change ticks: the rows stay.          *)

\* Another archetype with the same rows and sound edges in the place of one.
LEMMA SameRowsPut ==
  ASSUME NEW xs, Store(xs), NEW i \in DOMAIN xs, NEW y, IsArchetype(y), SameRows(xs[i], y),
         \A c \in DOMAIN y.adds : /\ y.adds[c] \in DOMAIN xs
                                  /\ xs[y.adds[c]].signature = y.signature \cup {c},
         \A c \in DOMAIN y.removes : /\ y.removes[c] \in DOMAIN xs
                                     /\ xs[y.removes[c]].signature = y.signature \ {c}
  PROVE  /\ Store(Put(xs, i, y)) /\ Grown(xs, Put(xs, i, y)) /\ DOMAIN Put(xs, i, y) = DOMAIN xs
         /\ \A j \in DOMAIN xs : Put(xs, i, y)[j] = IF j = i THEN y ELSE xs[j]
         /\ \A j \in DOMAIN xs : Put(xs, i, y)[j].signature = xs[j].signature
<1> DEFINE ys == Put(xs, i, y)
<1>1. xs \in Seq(Archetype) /\ y \in Archetype
  BY IsArchetypeIs DEF Store
<1>2. DOMAIN ys = DOMAIN xs /\ \A j \in DOMAIN xs : ys[j] = IF j = i THEN y ELSE xs[j]
  BY <1>1 DEF Put
<1>3. ys \in Seq(Archetype)
  BY <1>1, ReplacedInSeq DEF Put
<1> HIDE DEF ys
<1>4. \A j \in DOMAIN xs : SameRows(xs[j], ys[j])
  BY <1>2 DEF SameRows
<1>5. \A j \in DOMAIN xs : ys[j].signature = xs[j].signature
  BY <1>4 DEF SameRows
<1>6. RowCountsMatch(y)
  <2>1. RowCountsMatch(xs[i])
    BY DEF Store, ArchetypeSound
  <2> QED  BY <2>1 DEF RowCountsMatch, SameRows
<1>7. ASSUME NEW j \in DOMAIN xs PROVE IsArchetype(ys[j]) /\ ArchetypeSound(ys, j)
  <2>1. PICK z : z = ys[j]
    OBVIOUS
  <2>2. /\ IsArchetype(z) /\ RowCountsMatch(z)
        /\ \A c \in DOMAIN z.adds : /\ z.adds[c] \in DOMAIN xs
                                    /\ xs[z.adds[c]].signature = z.signature \cup {c}
        /\ \A c \in DOMAIN z.removes : /\ z.removes[c] \in DOMAIN xs
                                       /\ xs[z.removes[c]].signature = z.signature \ {c}
    <3>1. CASE j = i
      <4>1. z = y
        BY <1>2, <2>1, <3>1
      <4> QED  BY <1>6, <4>1
    <3>2. CASE j # i
      <4>1. z = xs[j]
        BY <1>2, <2>1, <3>2
      <4> QED  BY <4>1 DEF Store, ArchetypeSound
    <3> QED  BY <3>1, <3>2
  <2>3. \A c \in DOMAIN z.adds : ys[z.adds[c]].signature = z.signature \cup {c}
    BY <1>5, <2>2
  <2>4. \A c \in DOMAIN z.removes : ys[z.removes[c]].signature = z.signature \ {c}
    BY <1>5, <2>2
  <2> QED  BY <1>2, <2>1, <2>2, <2>3, <2>4 DEF ArchetypeSound
<1>8. SignaturesDiffer(ys)
  BY <1>2, <1>5 DEF Store, SignaturesDiffer
<1>9. Store(ys)
  BY <1>2, <1>3, <1>7, <1>8 DEF Store
<1>10. Grown(xs, ys)
  BY <1>2, <1>4 DEF Grown
<1> QED  BY <1>2, <1>5, <1>9, <1>10 DEF ys

\* An archetype with other edges.
WithEdges(x, adds, removes) == [x EXCEPT !.adds = adds, !.removes = removes]

LEMMA EdgesReplaced ==
  ASSUME NEW x, IsArchetype(x), NEW adds, NEW removes,
         adds \in [DOMAIN adds -> Nat], removes \in [DOMAIN removes -> Nat],
         DOMAIN adds \cup DOMAIN removes \subseteq Types
  PROVE  /\ IsArchetype(WithEdges(x, adds, removes)) /\ SameRows(x, WithEdges(x, adds, removes))
         /\ WithEdges(x, adds, removes).adds = adds /\ WithEdges(x, adds, removes).removes = removes
<1> DEFINE y == WithEdges(x, adds, removes)
<1>1. PICK A, R, C, D, E, F :
        /\ A = [DOMAIN x.adds -> Nat] /\ R = [DOMAIN x.removes -> Nat]
        /\ C = [x.signature -> Seq(Values \cup {Default})] /\ D = [x.signature -> 0 .. TickBound]
        /\ E = [DOMAIN adds -> Nat] /\ F = [DOMAIN removes -> Nat]
  OBVIOUS
<1>2. x \in [signature : SUBSET Types, entities : Seq(1 .. HandleBound),
             columns : C, changed : D, adds : A, removes : R]
  BY <1>1 DEF IsArchetype
<1>3. /\ y \in [signature : SUBSET Types, entities : Seq(1 .. HandleBound),
                columns : C, changed : D, adds : E, removes : F]
      /\ y.signature = x.signature /\ y.entities = x.entities /\ y.columns = x.columns
      /\ y.adds = adds /\ y.removes = removes
  BY <1>1, <1>2 DEF WithEdges
<1> HIDE DEF y
<1>4. IsArchetype(y)
  BY <1>1, <1>3 DEF IsArchetype
<1> QED  BY <1>3, <1>4 DEF y, SameRows

\* The edges as they are are the same archetype.
LEMMA SameEdges ==
  ASSUME NEW x, IsArchetype(x), NEW edges
  PROVE  /\ [x EXCEPT !.adds = edges] = WithEdges(x, edges, x.removes)
         /\ [x EXCEPT !.removes = edges] = WithEdges(x, x.adds, edges)
BY DEF IsArchetype, WithEdges

\* Finding the archetype next to one, by an edge or with a new one.
LEMMA WithEdgeGrows ==
  ASSUME NEW xs, Store(xs), NEW i \in DOMAIN xs, NEW c \in Types, NEW kind, NEW signature,
         \/ kind = "adds" /\ signature = xs[i].signature \cup {c}
         \/ kind = "removes" /\ signature = xs[i].signature \ {c},
         NEW ys, ys = WithEdge(xs, i, kind, c, signature),
         NEW d, d = Edge(ys, i, kind, c, signature)
  PROVE  /\ Store(ys) /\ Grown(xs, ys) /\ d \in DOMAIN ys /\ ys[d].signature = signature
<1>1. Sound(xs[i]) /\ IsArchetype(xs[i]) /\ signature \in SUBSET Types
  BY StoreSound DEF Sound
<1>2. CASE c \in DOMAIN xs[i][kind]
  <2>1. ys = xs /\ d = xs[i][kind][c]
    BY <1>2 DEF WithEdge, Edge
  <2>2. Grown(xs, xs)
    BY DEF Grown, SameRows
  <2>3. ArchetypeSound(xs, i)
    BY DEF Store
  <2>4. d \in DOMAIN xs /\ xs[d].signature = signature
    <3>1. CASE kind = "adds" /\ signature = xs[i].signature \cup {c}
      BY <1>2, <2>1, <2>3, <3>1 DEF ArchetypeSound
    <3>2. CASE kind = "removes" /\ signature = xs[i].signature \ {c}
      BY <1>2, <2>1, <2>3, <3>2 DEF ArchetypeSound
    <3> QED  BY <3>1, <3>2
  <2> QED  BY <2>1, <2>2, <2>4
<1>3. CASE c \notin DOMAIN xs[i][kind]
  <2>1. PICK zs, n : zs = GetOrCreate(xs, signature) /\ n = IndexOf(zs, signature)
    OBVIOUS
  <2>2. /\ Store(zs) /\ Grown(xs, zs) /\ n \in DOMAIN zs /\ zs[n].signature = signature
        /\ \A j \in DOMAIN xs : zs[j] = xs[j]
    BY <1>1, <2>1, GetOrCreateGrows
  <2>3. i \in DOMAIN zs /\ zs[i] = xs[i] /\ n \in Nat /\ zs \in Seq(Archetype)
    BY <2>2, StoreSound DEF Grown, Store
  <2>4. PICK edges, x : edges = With(xs[i][kind], c, n) /\ x = xs[i]
    OBVIOUS
  <2>5. PICK y : y = [x EXCEPT ![kind] = edges]
    OBVIOUS
  <2>6. ys = Put(zs, i, y)
    <3>1. ys = [zs EXCEPT ![i] = [zs[i] EXCEPT ![kind] = With(zs[i][kind], c, n)]]
      BY <1>3, <2>1 DEF WithEdge
    <3> QED  BY <2>3, <2>4, <2>5, <3>1 DEF Put
  <2>7. /\ x.adds \in [DOMAIN x.adds -> Nat] /\ x.removes \in [DOMAIN x.removes -> Nat]
        /\ DOMAIN x.adds \in SUBSET Types /\ DOMAIN x.removes \in SUBSET Types
    BY <1>1, <2>4 DEF IsArchetype
  <2>8. /\ DOMAIN edges = DOMAIN xs[i][kind] \cup {c} /\ edges[c] = n /\ edges = [z \in DOMAIN edges |-> edges[z]]
        /\ \A z \in DOMAIN xs[i][kind] : edges[z] = xs[i][kind][z]
    BY <1>3, <2>4 DEF With
  <2>9. ArchetypeSound(zs, i) /\ IsArchetype(x)
    BY <1>1, <2>2, <2>3, <2>4 DEF Store
  <2>10. /\ IsArchetype(y) /\ SameRows(x, y) /\ y[kind] = edges
         /\ \A z \in DOMAIN y.adds : /\ y.adds[z] \in DOMAIN zs
                                     /\ zs[y.adds[z]].signature = y.signature \cup {z}
         /\ \A z \in DOMAIN y.removes : /\ y.removes[z] \in DOMAIN zs
                                        /\ zs[y.removes[z]].signature = y.signature \ {z}
    <3>1. CASE kind = "adds" /\ signature = xs[i].signature \cup {c}
      <4>1. y = WithEdges(x, edges, x.removes)
        BY <2>5, <2>9, <3>1, SameEdges
      <4>2. DOMAIN edges = DOMAIN x.adds \cup {c} /\ \A z \in DOMAIN x.adds : edges[z] = x.adds[z]
        BY <2>4, <2>8, <3>1
      <4>3. \A z \in DOMAIN edges : edges[z] \in Nat
        BY <2>3, <2>7, <2>8, <4>2
      <4>4. edges \in [DOMAIN edges -> Nat]
        BY <2>8, <4>3
      <4>5. /\ IsArchetype(y) /\ SameRows(x, y) /\ y.adds = edges /\ y.removes = x.removes
        <5>1. DOMAIN edges \cup DOMAIN x.removes \subseteq Types
          BY <2>7, <4>2
        <5> QED  BY <2>7, <2>9, <4>1, <4>4, <5>1, EdgesReplaced
      <4>6. y.signature = xs[i].signature
        BY <2>4, <4>5 DEF SameRows
      <4>7. \A z \in DOMAIN x.adds : x.adds[z] \in DOMAIN zs /\ zs[x.adds[z]].signature = x.signature \cup {z}
        BY <2>3, <2>4, <2>9 DEF ArchetypeSound
      <4>8. \A z \in DOMAIN x.removes : x.removes[z] \in DOMAIN zs /\ zs[x.removes[z]].signature = x.signature \ {z}
        BY <2>3, <2>4, <2>9 DEF ArchetypeSound
      <4>9. ASSUME NEW z \in DOMAIN edges
            PROVE  edges[z] \in DOMAIN zs /\ zs[edges[z]].signature = xs[i].signature \cup {z}
        <5>1. CASE z = c
          BY <2>2, <2>8, <3>1, <5>1
        <5>2. CASE z \in DOMAIN x.adds
          BY <2>4, <4>2, <4>7, <5>2
        <5> QED  BY <4>2, <5>1, <5>2
      <4> QED  BY <2>4, <3>1, <4>5, <4>6, <4>8, <4>9
    <3>2. CASE kind = "removes" /\ signature = xs[i].signature \ {c}
      <4>1. y = WithEdges(x, x.adds, edges)
        BY <2>5, <2>9, <3>2, SameEdges
      <4>2. DOMAIN edges = DOMAIN x.removes \cup {c} /\ \A z \in DOMAIN x.removes : edges[z] = x.removes[z]
        BY <2>4, <2>8, <3>2
      <4>3. \A z \in DOMAIN edges : edges[z] \in Nat
        BY <2>3, <2>7, <2>8, <4>2
      <4>4. edges \in [DOMAIN edges -> Nat]
        BY <2>8, <4>3
      <4>5. /\ IsArchetype(y) /\ SameRows(x, y) /\ y.removes = edges /\ y.adds = x.adds
        <5>1. DOMAIN x.adds \cup DOMAIN edges \subseteq Types
          BY <2>7, <4>2
        <5> QED  BY <2>7, <2>9, <4>1, <4>4, <5>1, EdgesReplaced
      <4>6. y.signature = xs[i].signature
        BY <2>4, <4>5 DEF SameRows
      <4>7. \A z \in DOMAIN x.adds : x.adds[z] \in DOMAIN zs /\ zs[x.adds[z]].signature = x.signature \cup {z}
        BY <2>3, <2>4, <2>9 DEF ArchetypeSound
      <4>8. \A z \in DOMAIN x.removes : x.removes[z] \in DOMAIN zs /\ zs[x.removes[z]].signature = x.signature \ {z}
        BY <2>3, <2>4, <2>9 DEF ArchetypeSound
      <4>9. ASSUME NEW z \in DOMAIN edges
            PROVE  edges[z] \in DOMAIN zs /\ zs[edges[z]].signature = xs[i].signature \ {z}
        <5>1. CASE z = c
          BY <2>2, <2>8, <3>2, <5>1
        <5>2. CASE z \in DOMAIN x.removes
          BY <2>4, <4>2, <4>8, <5>2
        <5> QED  BY <4>2, <5>1, <5>2
      <4> QED  BY <2>4, <3>2, <4>5, <4>6, <4>7, <4>9
    <3> QED  BY <3>1, <3>2
  <2>11. /\ Store(ys) /\ Grown(zs, ys) /\ DOMAIN ys = DOMAIN zs
         /\ \A j \in DOMAIN zs : ys[j] = IF j = i THEN y ELSE zs[j]
         /\ \A j \in DOMAIN zs : ys[j].signature = zs[j].signature
    <3>1. SameRows(zs[i], y)
      BY <2>3, <2>4, <2>10
    <3> QED  BY <2>2, <2>3, <2>6, <2>10, <3>1, SameRowsPut
  <2>12. Grown(xs, ys)
    BY <2>2, <2>11 DEF Grown, SameRows
  <2>13. d = n
    <3>1. ys[i][kind] = edges
      BY <2>3, <2>10, <2>11
    <3> QED  BY <2>8, <3>1 DEF Edge
  <2> QED  BY <2>2, <2>11, <2>12, <2>13
<1> QED  BY <1>2, <1>3

\* The archetypes xs with the type c marked at the tick t.
Marked(xs, c, t) ==
    [i \in DOMAIN xs |-> IF c \in xs[i].signature THEN [xs[i] EXCEPT !.changed[c] = t] ELSE xs[i]]

\* A mark changes no row.
LEMMA MarkedStore ==
  ASSUME NEW xs, Store(xs), NEW c, NEW t \in 0 .. TickBound,
         NEW ys, ys = Marked(xs, c, t)
  PROVE  /\ Store(ys) /\ Grown(xs, ys) /\ DOMAIN ys = DOMAIN xs
         /\ \A j \in DOMAIN xs : ys[j].signature = xs[j].signature
<1>1. /\ xs \in Seq(Archetype) /\ DOMAIN xs = 1 .. Len(xs) /\ Len(xs) \in Nat
  BY SeqIs DEF Store
<1>2. PICK zs : zs = ys
  OBVIOUS
<1>3. /\ DOMAIN zs = DOMAIN xs /\ zs = [j \in DOMAIN zs |-> zs[j]]
      /\ \A i \in DOMAIN xs : zs[i] = IF c \in xs[i].signature
                                      THEN [xs[i] EXCEPT !.changed[c] = t] ELSE xs[i]
  BY <1>2 DEF Marked
<1>4. ASSUME NEW i \in DOMAIN xs
      PROVE  /\ IsArchetype(zs[i]) /\ SameRows(xs[i], zs[i])
             /\ zs[i].adds = xs[i].adds /\ zs[i].removes = xs[i].removes
  <2>1. PICK x, y : x = xs[i] /\ y = zs[i]
    OBVIOUS
  <2>2. IsArchetype(x)
    BY <2>1 DEF Store
  <2>3. CASE c \in x.signature
    <3>1. y = [x EXCEPT !.changed[c] = t]
      BY <1>3, <2>1, <2>3
    <3>2. PICK A, R, C, D :
            /\ A = [DOMAIN x.adds -> Nat] /\ R = [DOMAIN x.removes -> Nat]
            /\ C = [x.signature -> Seq(Values \cup {Default})] /\ D = [x.signature -> 0 .. TickBound]
      OBVIOUS
    <3>3. x \in [signature : SUBSET Types, entities : Seq(1 .. HandleBound),
                 columns : C, changed : D, adds : A, removes : R]
      BY <2>2, <3>2 DEF IsArchetype
    <3>4. PICK new : new = [x.changed EXCEPT ![c] = t]
      OBVIOUS
    <3>5. new \in D
      BY <2>3, <3>2, <3>3, <3>4
    <3>6. y = [x EXCEPT !.changed = new]
      BY <3>1, <3>3, <3>4
    <3>7. /\ y \in [signature : SUBSET Types, entities : Seq(1 .. HandleBound),
                    columns : C, changed : D, adds : A, removes : R]
          /\ y.signature = x.signature /\ y.entities = x.entities /\ y.columns = x.columns
          /\ y.adds = x.adds /\ y.removes = x.removes
      BY <3>3, <3>5, <3>6
    <3>8. IsArchetype(y)
      <4>1. DOMAIN x.adds \cup DOMAIN x.removes \subseteq Types
        BY <2>2 DEF IsArchetype
      <4> QED  BY <3>2, <3>7, <4>1 DEF IsArchetype
    <3> QED  BY <2>1, <3>7, <3>8 DEF SameRows
  <2>4. CASE c \notin x.signature
    <3>1. y = x
      BY <1>3, <2>1, <2>4
    <3> QED  BY <2>1, <2>2, <3>1 DEF SameRows
  <2> QED  BY <2>3, <2>4
<1>5. \A i \in DOMAIN xs : zs[i].signature = xs[i].signature
  BY <1>4 DEF SameRows
<1>6. zs \in Seq(Archetype)
  <2>1. \A i \in DOMAIN xs : zs[i] \in Archetype
    BY <1>4, IsArchetypeIs
  <2>2. zs \in [1 .. Len(xs) -> Archetype]
    BY <1>1, <1>3, <2>1
  <2> QED  BY <1>1, <2>2, SeqDef
<1>7. ASSUME NEW i \in DOMAIN xs PROVE ArchetypeSound(zs, i)
  <2>1. RowCountsMatch(zs[i])
    <3>1. RowCountsMatch(xs[i]) /\ SameRows(xs[i], zs[i])
      BY <1>4 DEF Store, ArchetypeSound
    <3> QED  BY <3>1 DEF RowCountsMatch, SameRows
  <2>2. /\ \A z \in DOMAIN xs[i].adds : /\ xs[i].adds[z] \in DOMAIN xs
                                        /\ xs[xs[i].adds[z]].signature = xs[i].signature \cup {z}
        /\ \A z \in DOMAIN xs[i].removes : /\ xs[i].removes[z] \in DOMAIN xs
                                           /\ xs[xs[i].removes[z]].signature = xs[i].signature \ {z}
    BY DEF Store, ArchetypeSound
  <2>3. zs[i].adds = xs[i].adds /\ zs[i].removes = xs[i].removes /\ zs[i].signature = xs[i].signature
    BY <1>4, <1>5
  <2>4. \A z \in DOMAIN xs[i].adds : zs[xs[i].adds[z]].signature = xs[i].signature \cup {z}
    BY <1>5, <2>2
  <2>5. \A z \in DOMAIN xs[i].removes : zs[xs[i].removes[z]].signature = xs[i].signature \ {z}
    BY <1>5, <2>2
  <2> QED  BY <1>3, <2>1, <2>2, <2>3, <2>4, <2>5 DEF ArchetypeSound
<1>8. SignaturesDiffer(zs)
  BY <1>3, <1>5 DEF Store, SignaturesDiffer
<1>9. Store(zs)
  BY <1>3, <1>4, <1>6, <1>7, <1>8 DEF Store
<1>10. Grown(xs, zs)
  BY <1>3, <1>4 DEF Grown
<1> QED  BY <1>2, <1>3, <1>5, <1>9, <1>10

-----------------------------------------------------------------------------
(* Queries.                                                                *)

\* A list of the numbers of a set, each once.
Lists(t, S) ==
    /\ t \in Seq(Nat) /\ {t[k] : k \in DOMAIN t} = S
    /\ \A k, l \in DOMAIN t : t[k] = t[l] => k = l

LEMMA ListsOneMore ==
  ASSUME NEW S, NEW t, Lists(t, S), NEW n \in Nat, n \notin S
  PROVE  Lists(Append(t, n), S \cup {n})
<1>1. t \in Seq(Nat)
  BY DEF Lists
<1>2. PICK u, m : u = Append(t, n) /\ m = Len(t) + 1
  OBVIOUS
<1>3. /\ u \in Seq(Nat) /\ DOMAIN u = DOMAIN t \cup {m} /\ m \notin DOMAIN t
      /\ u[m] = n /\ \A k \in DOMAIN t : u[k] = t[k]
  BY <1>1, <1>2, AppendIs
<1>4. \A k \in DOMAIN t : t[k] \in S
  BY DEF Lists
<1>5. {u[k] : k \in DOMAIN u} = S \cup {n}
  <2>1. \A k \in DOMAIN u : u[k] \in S \cup {n}
    BY <1>3, <1>4
  <2>2. \A z \in S : \E k \in DOMAIN t : t[k] = z
    BY DEF Lists
  <2>3. \A z \in S \cup {n} : \E k \in DOMAIN u : u[k] = z
    BY <1>3, <2>2
  <2> QED  BY <2>1, <2>3
<1>6. ASSUME NEW k \in DOMAIN u, NEW l \in DOMAIN u, u[k] = u[l] PROVE k = l
  <2>1. CASE k = m \/ l = m
    BY <1>3, <1>4, <1>6, <2>1
  <2>2. CASE k \in DOMAIN t /\ l \in DOMAIN t
    BY <1>3, <1>6, <2>2 DEF Lists
  <2> QED  BY <1>3, <2>1, <2>2
<1> QED  BY <1>2, <1>3, <1>5, <1>6 DEF Lists

\* One step of the recursion of Matching.
Collect(q, f) ==
    [n \in 0 .. Len(archetypes) |->
        IF n = 0 THEN <<>>
        ELSE IF Required[q] \subseteq archetypes[n].signature THEN Append(f[n - 1], n)
        ELSE f[n - 1]]

LEMMA CollectIs ==
  ASSUME NEW q, NEW N \in Nat, NEW D, NEW x \in D
  PROVE  N = Len(archetypes) /\ D = Seq(Nat) /\ x = <<>> => \E g : g = Collect(q, g)
<1>1. \A step \in [1 .. N -> [D -> D]] :
        \E g \in [0 .. N -> D] : g[0] = x /\ \A k \in 1 .. N : g[k] = step[k][g[k - 1]]
  BY Iteration
<1>2. HAVE N = Len(archetypes) /\ D = Seq(Nat) /\ x = <<>>
<1>3. \A t \in D : \A n \in Nat : Append(t, n) \in D
  BY <1>2
<1>5. PICK step : step = [k \in 1 .. N |-> [t \in D |->
               IF Required[q] \subseteq archetypes[k].signature THEN Append(t, k) ELSE t]]
  OBVIOUS
<1>6. step \in [1 .. N -> [D -> D]]
  <2>1. \A k \in 1 .. N : k \in Nat
    OBVIOUS
  <2>2. \A k \in 1 .. N : \A t \in D : Append(t, k) \in D
    BY <1>3, <2>1
  <2> QED  BY <1>5, <2>2
<1>7. PICK g \in [0 .. N -> D] : g[0] = x /\ \A k \in 1 .. N : g[k] = step[k][g[k - 1]]
  BY <1>1, <1>6
<1>8. ASSUME NEW k \in 1 .. N
      PROVE  g[k] = IF Required[q] \subseteq archetypes[k].signature THEN Append(g[k - 1], k) ELSE g[k - 1]
  <2>1. g[k - 1] \in D
    BY <1>7
  <2> QED  BY <1>5, <1>7, <2>1
<1>9. \A n \in 0 .. N : n = 0 \/ n \in 1 .. N
  OBVIOUS
<1>10. \A n \in 0 .. N :
         g[n] = IF n = 0 THEN <<>>
                ELSE IF Required[q] \subseteq archetypes[n].signature THEN Append(g[n - 1], n) ELSE g[n - 1]
  BY <1>2, <1>7, <1>8, <1>9
<1>11. g = [n \in 0 .. N |-> g[n]]
  BY <1>7
<1>12. g = Collect(q, g)
  BY <1>2, <1>10, <1>11 DEF Collect
<1> QED  BY <1>12

\* refreshMatches lists the archetypes of the query, each once.
LEMMA MatchingIs ==
  ASSUME NEW q, archetypes \in Seq(Archetype)
  PROVE  Lists(Matching(q), Matched(q))
<1>1. PICK N \in Nat : N = Len(archetypes) /\ DOMAIN archetypes = 1 .. N
  BY SeqIs
<1>2. PICK f : Matching(q) = f[Len(archetypes)] /\ f = Collect(q, f)
  <2>1. \E g : g = Collect(q, g)
    <3>1. PICK D, x : D = Seq(Nat) /\ x = <<>>
      OBVIOUS
    <3>2. x \in D
      BY <3>1
    <3> QED  BY <1>1, <3>1, <3>2, CollectIs
  <2>2. Matching(q) = (CHOOSE g : g = Collect(q, g))[Len(archetypes)]
    BY DEF Matching, Collect
  <2> QED  BY <2>1, <2>2
<1>3. f[0] = <<>> /\ \A k \in 1 .. N :
        f[k] = IF Required[q] \subseteq archetypes[k].signature THEN Append(f[k - 1], k) ELSE f[k - 1]
  <2>1. \A k \in 1 .. N : k \in 0 .. N /\ k # 0
    OBVIOUS
  <2>2. \A k \in 0 .. N : f[k] = Collect(q, f)[k]
    BY <1>2
  <2>3. 0 \in 0 .. N
    OBVIOUS
  <2> QED  BY <1>1, <2>1, <2>2, <2>3 DEF Collect
<1> DEFINE M(n) == {i \in 1 .. n : Required[q] \subseteq archetypes[i].signature}
           T == {n \in 0 .. N : Lists(f[n], M(n))}
<1>4. 0 \in T
  <2>1. M(0) = {}
    OBVIOUS
  <2>2. Lists(<<>>, {})
    <3>1. <<>> \in Seq(Nat) /\ DOMAIN <<>> = {}
      OBVIOUS
    <3>2. {<<>>[k] : k \in DOMAIN <<>>} = {}
      BY <3>1
    <3> QED  BY <3>1, <3>2 DEF Lists
  <2> QED  BY <1>3, <2>1, <2>2
<1>5. ASSUME NEW k \in 1 .. N, k - 1 \in T PROVE k \in T
  <2>1. Lists(f[k - 1], M(k - 1)) /\ k \in Nat /\ k \in 0 .. N
    BY <1>5
  <2>2. k \notin M(k - 1)
    OBVIOUS
  <2>3. CASE Required[q] \subseteq archetypes[k].signature
    <3>1. M(k) = M(k - 1) \cup {k}
      <4>1. \A i : i \in 1 .. k <=> i \in 1 .. k - 1 \/ i = k
        BY <2>1
      <4> QED  BY <2>3, <4>1
    <3>2. f[k] = Append(f[k - 1], k)
      BY <1>3, <2>3
    <3> HIDE DEF M
    <3>3. Lists(f[k], M(k))
      BY <2>1, <2>2, <3>1, <3>2, ListsOneMore
    <3> QED  BY <2>1, <3>3
  <2>4. CASE ~(Required[q] \subseteq archetypes[k].signature)
    <3>1. M(k) = M(k - 1)
      <4>1. \A i : i \in 1 .. k <=> i \in 1 .. k - 1 \/ i = k
        BY <2>1
      <4> QED  BY <2>4, <4>1
    <3>2. f[k] = f[k - 1]
      BY <1>3, <2>4
    <3> HIDE DEF M
    <3> QED  BY <2>1, <3>1, <3>2
  <2> QED  BY <2>3, <2>4
<1> HIDE DEF T
<1>6. N \in T
  <2>1. \A k \in 0 .. N : k \in T
    BY <1>4, <1>5, EveryNumber
  <2> QED  BY <2>1
<1>7. M(N) = Matched(q)
  BY <1>1 DEF Matched
<1> HIDE DEF M
<1> QED  BY <1>1, <1>2, <1>6, <1>7 DEF T

-----------------------------------------------------------------------------
(* The storage.                                                            *)

QueryRecord == [revision : 0 .. NeverRefreshed, matches : Seq(Nat)]

Others ==
    /\ revision \in 0 .. RevisionBound /\ created \in 0 .. HandleBound /\ tick \in 0 .. TickBound
    /\ DOMAIN location \in SUBSET (1 .. created)
    /\ iterating \in SUBSET Queries /\ query \in [Queries -> QueryRecord]

\* The inductive invariant.
AInv == Stored(archetypes, location) /\ Others /\ QueriesKept

LEMMA Bounds == HandleBound \in Nat /\ RevisionBound \in Nat /\ TickBound \in Nat
BY BoundsAssumption

LEMMA AInvInit == Init => AInv
<1> SUFFICES ASSUME Init PROVE AInv
  OBVIOUS
<1>1. Stored(archetypes, location)
  BY EmptyStored DEF Init
<1>2. /\ revision = 0 /\ created = 0 /\ tick = 0 /\ iterating = {} /\ DOMAIN location = {}
      /\ query = [q \in Queries |-> [revision |-> NeverRefreshed, matches |-> <<>>]]
  BY DEF Init
<1>3. [revision |-> NeverRefreshed, matches |-> <<>>] \in QueryRecord
  BY Bounds DEF QueryRecord, NeverRefreshed
<1>4. Others
  BY <1>2, <1>3, Bounds DEF Others
<1>5. QueriesKept
  BY <1>2, Bounds DEF QueriesKept, NeverRefreshed
<1> QED  BY <1>1, <1>4, <1>5 DEF AInv

\* What a query knows stays true while the revision does, and a new revision
\* makes it look again.
LEMMA QueriesStay ==
  ASSUME Others, QueriesKept, query' = query, revision' \in 0 .. RevisionBound,
         \/ /\ revision' = revision /\ iterating' \in SUBSET iterating
            /\ DOMAIN archetypes' = DOMAIN archetypes
            /\ \A i \in DOMAIN archetypes : archetypes'[i].signature = archetypes[i].signature
         \/ revision < revision' /\ iterating' = {}
  PROVE  QueriesKept'
<1>1. /\ revision \in Nat /\ revision' \in Nat /\ revision' < NeverRefreshed
      /\ \A q \in Queries : query[q].revision \in Nat
  BY Bounds DEF Others, QueryRecord, NeverRefreshed
<1>2. CASE /\ revision' = revision /\ iterating' \in SUBSET iterating
           /\ DOMAIN archetypes' = DOMAIN archetypes
           /\ \A i \in DOMAIN archetypes : archetypes'[i].signature = archetypes[i].signature
  <2>1. ASSUME NEW q \in Queries PROVE Matched(q)' = Matched(q)
    BY <1>2 DEF Matched
  <2> QED  BY <1>2, <2>1 DEF QueriesKept
<1>3. CASE revision < revision' /\ iterating' = {}
  <2>1. ASSUME NEW q \in Queries
        PROVE  /\ query'[q].revision <= revision' \/ query'[q].revision = NeverRefreshed
               /\ query'[q].revision # revision'
    BY <1>1, <1>3 DEF QueriesKept
  <2> QED  BY <1>3, <2>1 DEF QueriesKept
<1> QED  BY <1>2, <1>3

\* A call that changes the structure, of the archetypes xs: they are counted.
LEMMA RevisionCounts ==
  ASSUME AInv, NEW xs, Store(xs), Grown(archetypes, xs), DOMAIN archetypes' = DOMAIN xs,
         \A i \in DOMAIN xs : archetypes'[i].signature = xs[i].signature,
         StructuralMutationAllowed, Bounded(xs), revision' = RevisionAfter(xs),
         iterating' = iterating, query' = query
  PROVE  revision' \in 0 .. RevisionBound /\ QueriesKept'
<1>1. PICK m, n : m = Len(archetypes) /\ n = Len(xs)
  OBVIOUS
<1>2. m \in Nat /\ n \in Nat /\ DOMAIN archetypes = 1 .. m /\ DOMAIN xs = 1 .. n
  <2>1. archetypes \in Seq(Archetype) /\ xs \in Seq(Archetype)
    BY DEF AInv, Stored, Store
  <2> QED  BY <1>1, <2>1, SeqIs
<1>3. m <= n
  <2>1. \A i \in 1 .. m : i \in 1 .. n
    BY <1>2 DEF Grown
  <2> QED  BY <1>2, <2>1
<1>4. revision' = revision + (n - m) /\ revision' <= RevisionBound
      /\ revision \in 0 .. RevisionBound /\ RevisionBound \in Nat
  BY <1>1, Bounds DEF AInv, Others, Bounded, RevisionAfter
<1>5. revision' \in 0 .. RevisionBound
  BY <1>2, <1>3, <1>4
<1>6. iterating' = {}
  BY DEF StructuralMutationAllowed
<1>7. CASE m = n
  <2>1. revision' = revision /\ DOMAIN archetypes' = DOMAIN archetypes
    BY <1>2, <1>4, <1>7
  <2>2. \A i \in DOMAIN archetypes : archetypes'[i].signature = archetypes[i].signature
    BY <1>2, <1>7 DEF Grown, SameRows
  <2>3. iterating' \in SUBSET iterating
    BY <1>6
  <2> QED  BY <1>5, <2>1, <2>2, <2>3, QueriesStay DEF AInv
<1>8. CASE m # n
  <2>1. revision < revision'
    BY <1>2, <1>3, <1>4, <1>8
  <2> QED  BY <1>5, <1>6, <2>1, QueriesStay DEF AInv
<1> QED  BY <1>5, <1>7, <1>8

\* createEntity.
LEMMA CreateEntityStep ==
  ASSUME AInv, CreateEntity
  PROVE  AInv' /\ (Map!Create \/ Map!CreateThrows)
<1>1. PICK e, xs, i : e = created + 1 /\ xs = GetOrCreate(archetypes, Base) /\ i = IndexOf(xs, Base)
  OBVIOUS
<1>2. /\ StructuralMutationAllowed /\ e <= HandleBound /\ Bounded(xs) /\ created' = e
      /\ revision' = RevisionAfter(xs) /\ iterating' = iterating /\ query' = query /\ tick' = tick
      /\ \/ /\ archetypes' = [xs EXCEPT ![i] = AddEntity(xs[i], e)]
            /\ location' = With(location, e, [archetype |-> i, row |-> Len(xs[i].entities) + 1])
         \/ /\ \E done : archetypes' = [xs EXCEPT ![i] = AddEntityThrows(xs[i], e, done)]
            /\ location' = location
  BY <1>1 DEF CreateEntity
<1>3. /\ Stored(archetypes, location) /\ Others /\ QueriesKept /\ created \in Nat
      /\ DOMAIN location \in SUBSET (1 .. created) /\ HandleBound \in Nat
      /\ Base \in SUBSET Types
  BY Bounds, TypesAssumption DEF AInv, Others
<1>4. /\ Store(xs) /\ Grown(archetypes, xs) /\ i \in DOMAIN xs /\ xs[i].signature = Base
  BY <1>1, <1>3, GetOrCreateGrows DEF Stored
<1>5. Stored(xs, location) /\ Data(xs, location) = Data(archetypes, location)
  BY <1>3, <1>4, GrownKeeps
<1>6. e \in 1 .. HandleBound /\ e \notin DOMAIN location /\ DOMAIN location \in SUBSET (1 .. e)
  BY <1>1, <1>2, <1>3
<1>7. Sound(xs[i]) /\ xs \in Seq(Archetype)
  BY <1>4, StoreSound DEF Store
<1>8. ASSUME /\ archetypes' = [xs EXCEPT ![i] = AddEntity(xs[i], e)]
             /\ location' = With(location, e, [archetype |-> i, row |-> Len(xs[i].entities) + 1])
      PROVE  /\ Stored(archetypes, location)' /\ DOMAIN location' \in SUBSET (1 .. e)
             /\ DOMAIN archetypes' = DOMAIN xs
             /\ \A j \in DOMAIN xs : archetypes'[j].signature = xs[j].signature
             /\ Data(archetypes', location') =
                  With(Data(archetypes, location), e, [c \in Base |-> Default])
  <2>1. PICK values : values = [c \in Base |-> Default]
    OBVIOUS
  <2>2. values \in [xs[i].signature -> Cells]
    BY <1>4, <2>1 DEF Cells
  <2>3. AddEntity(xs[i], e) = RowAdded(xs[i], e, values)
    BY <1>4, <1>7, <2>1, AddEntityAdds
  <2>4. PICK ys, there, n : ys = archetypes' /\ there = location' /\ n = Len(xs[i].entities) + 1
    OBVIOUS
  <2>5. ys = Put(xs, i, RowAdded(xs[i], e, values)) /\ there = With(location, e, At(i, n))
    BY <1>8, <2>3, <2>4 DEF Put, At
  <2>6. /\ Stored(ys, there) /\ Data(ys, there) = With(Data(xs, location), e, values)
        /\ DOMAIN ys = DOMAIN xs /\ \A j \in DOMAIN xs : ys[j].signature = xs[j].signature
    BY <1>4, <1>5, <1>6, <2>2, <2>4, <2>5, RowAddedStored DEF PutInRow
  <2>7. DOMAIN there \in SUBSET (1 .. e)
    BY <1>1, <1>3, <1>6, <2>5 DEF With
  <2> QED  BY <1>5, <2>1, <2>4, <2>6, <2>7
<1>9. ASSUME NEW done, archetypes' = [xs EXCEPT ![i] = AddEntityThrows(xs[i], e, done)],
             location' = location
      PROVE  archetypes' = xs /\ Data(archetypes', location') = Data(archetypes, location)
  <2>1. AddEntityThrows(xs[i], e, done) = xs[i]
    BY <1>7, AddEntityThrowsNothing
  <2>2. [xs EXCEPT ![i] = xs[i]] = xs
    BY <1>7
  <2> QED  BY <1>5, <1>9, <2>1, <2>2
<1>10. /\ Stored(archetypes, location)' /\ DOMAIN location' \in SUBSET (1 .. e)
       /\ DOMAIN archetypes' = DOMAIN xs
       /\ \A j \in DOMAIN xs : archetypes'[j].signature = xs[j].signature
  BY <1>2, <1>5, <1>6, <1>8, <1>9
<1>11. revision' \in 0 .. RevisionBound /\ QueriesKept'
  BY <1>2, <1>4, <1>10, RevisionCounts
<1>12. Others'
  BY <1>2, <1>3, <1>6, <1>10, <1>11 DEF Others
<1>13. Map!Create \/ Map!CreateThrows
  <2>1. \/ Data(archetypes', location') = With(Data(archetypes, location), e, [c \in Base |-> Default])
        \/ Data(archetypes', location') = Data(archetypes, location)
    BY <1>2, <1>8, <1>9
  <2> QED  BY <1>1, <1>2, <2>1 DEF Map!Create, Map!CreateThrows, Map!With, With
<1> QED  BY <1>10, <1>11, <1>12, <1>13 DEF AInv

\* destroyEntity.
LEMMA DestroyEntityStep ==
  ASSUME AInv, NEW e \in DOMAIN location, DestroyEntity(e)
  PROVE  AInv' /\ Map!Destroy(e)
<1>1. PICK i, row : i = location[e].archetype /\ row = location[e].row
  OBVIOUS
<1>2. PICK moved : moved = Relocated(location, Swapped(archetypes[i]), e, i, row)
  OBVIOUS
<1>3. /\ StructuralMutationAllowed
      /\ archetypes' = [archetypes EXCEPT ![i] = EraseSwap(archetypes[i], row)]
      /\ location' = [f \in DOMAIN location \ {e} |-> moved[f]]
      /\ revision' = revision /\ created' = created /\ iterating' = iterating
      /\ query' = query /\ tick' = tick
  BY <1>1, <1>2 DEF DestroyEntity, Live
<1>4. /\ Stored(archetypes, location) /\ Others /\ QueriesKept
  BY DEF AInv
<1>5. DOMAIN moved = DOMAIN location
  BY <1>2 DEF Relocated
<1>6. PICK ys, there : ys = archetypes' /\ there = location'
  OBVIOUS
<1>7. ys = Put(archetypes, i, EraseSwap(archetypes[i], row)) /\ there = Without(moved, e)
  BY <1>3, <1>5, <1>6 DEF Put, Without
<1>8. /\ Stored(ys, there) /\ Data(ys, there) = Without(Data(archetypes, location), e)
      /\ DOMAIN ys = DOMAIN archetypes
      /\ \A j \in DOMAIN archetypes : ys[j].signature = archetypes[j].signature
  BY <1>1, <1>2, <1>4, <1>7, RowErasedStored DEF TakenFromRow
<1>9. DOMAIN there \in SUBSET (1 .. created)
  BY <1>4, <1>5, <1>7 DEF Others, Without
<1>10. Others'
  BY <1>3, <1>4, <1>6, <1>9 DEF Others
<1>11. QueriesKept'
  <2>1. revision' \in 0 .. RevisionBound
    BY <1>3, <1>4 DEF Others
  <2> QED  BY <1>3, <1>4, <1>6, <1>8, <2>1, QueriesStay
<1>12. Map!Destroy(e)
  <2>1. Data(archetypes', location') = Without(Data(archetypes, location), e)
    BY <1>6, <1>8
  <2> QED  BY <1>3, <2>1 DEF Map!Destroy, Without
<1> QED  BY <1>6, <1>8, <1>10, <1>11, <1>12 DEF AInv

\* What an entity has after it moved: what it had of the new signature, and what is given.
MovedValues(old, signature, given) ==
    [t \in signature |-> IF t \in DOMAIN old THEN old[t]
                         ELSE IF t \in DOMAIN given THEN given[t] ELSE Default]

\* addComponent and removeComponent: the entity moves, or a copy threw and
\* nothing did.
LEMMA MoveStep ==
  ASSUME AInv, NEW e \in DOMAIN location, NEW kind, NEW c \in Types, NEW signature,
         NEW i, i = location[e].archetype, signature # archetypes[i].signature,
         \/ kind = "adds" /\ signature = archetypes[i].signature \cup {c}
         \/ kind = "removes" /\ signature = archetypes[i].signature \ {c},
         NEW given, \A t \in DOMAIN given : given[t] \in Cells,
         Move(e, kind, c, signature, given),
         NEW D, D = Data(archetypes, location)
  PROVE  /\ AInv' /\ created' = created
         /\ \/ Data(archetypes', location') = D
            \/ Data(archetypes', location') = With(Without(D, e), e, MovedValues(D[e], signature, given))
<1>1. PICK row, xs, d : /\ row = location[e].row /\ xs = WithEdge(archetypes, i, kind, c, signature)
                        /\ d = Edge(xs, i, kind, c, signature)
  OBVIOUS
<1>2. PICK to, n : n = Len(xs[d].entities) + 1
                   /\ to = [location EXCEPT ![e] = [archetype |-> d, row |-> n]]
  OBVIOUS
<1>3. /\ Stored(archetypes, location) /\ Others /\ QueriesKept
  BY DEF AInv
<1>4. i \in DOMAIN archetypes /\ e \in 1 .. HandleBound
  BY <1>3, StoredAt
<1>5. /\ Store(xs) /\ Grown(archetypes, xs) /\ d \in DOMAIN xs /\ xs[d].signature = signature
  BY <1>1, <1>3, <1>4, WithEdgeGrows DEF Stored
<1>6. PICK values : values = CopiedValues(xs[i], row, xs[d], given)
  OBVIOUS
<1>7. /\ StructuralMutationAllowed /\ Bounded(xs) /\ revision' = RevisionAfter(xs)
      /\ created' = created /\ iterating' = iterating /\ query' = query /\ tick' = tick
      /\ \/ /\ archetypes' = [xs EXCEPT ![d] = Copied(xs[i], row, @, e, given),
                                        ![i] = EraseSwap(@, row)]
            /\ location' = Relocated(to, Swapped(xs[i]), e, i, row)
         \/ /\ \E done : archetypes' = [xs EXCEPT ![d] = AddEntityThrows(@, e, done)]
            /\ location' = location
         \/ /\ archetypes' = [xs EXCEPT ![d] = EraseSwap(AddEntity(@, e), Len(@.entities) + 1)]
            /\ location' = location
  BY <1>1, <1>2 DEF Move
<1>8. Stored(xs, location) /\ Data(xs, location) = D
  BY <1>3, <1>5, GrownKeeps
<1>9. i \in DOMAIN xs /\ d # i
  BY <1>4, <1>5 DEF Grown, SameRows
<1>10. /\ xs \in Seq(Archetype) /\ Sound(xs[d]) /\ row \in 1 .. Len(xs[i].entities)
       /\ xs[i].columns \in [xs[i].signature -> Seq(Cells)]
       /\ \A t \in xs[i].signature : Len(xs[i].columns[t]) = Len(xs[i].entities)
  BY <1>1, <1>5, <1>8, <1>9, StoreSound, StoredAt DEF Store
<1>11. values \in [xs[d].signature -> Cells] /\ values = MovedValues(D[e], signature, given)
  <2>1. /\ DOMAIN D[e] = xs[i].signature
        /\ \A t \in xs[i].signature : D[e][t] = xs[i].columns[t][row]
    BY <1>1, <1>8, DataAt
  <2>2. ASSUME NEW t \in xs[i].signature PROVE xs[i].columns[t][row] \in Cells
    <3>1. PICK col \in Seq(Cells) : col = xs[i].columns[t]
      BY <1>10
    <3>2. row \in 1 .. Len(col)
      BY <1>10, <3>1
    <3> QED  BY <3>1, <3>2, ElementOfSeq
  <2>3. Default \in Cells
    BY DEF Cells
  <2>4. values = [t \in xs[d].signature |-> IF t \in xs[i].signature THEN xs[i].columns[t][row]
                                            ELSE IF t \in DOMAIN given THEN given[t] ELSE Default]
    BY <1>6 DEF CopiedValues
  <2>5. values \in [xs[d].signature -> Cells]
    BY <2>2, <2>3, <2>4
  <2>6. MovedValues(D[e], signature, given)
          = [t \in xs[d].signature |-> IF t \in xs[i].signature THEN xs[i].columns[t][row]
                                       ELSE IF t \in DOMAIN given THEN given[t] ELSE Default]
    BY <1>5, <2>1 DEF MovedValues
  <2> QED  BY <2>4, <2>5, <2>6
<1>12. ASSUME /\ archetypes' = [xs EXCEPT ![d] = Copied(xs[i], row, @, e, given),
                                          ![i] = EraseSwap(@, row)]
              /\ location' = Relocated(to, Swapped(xs[i]), e, i, row)
       PROVE  /\ Stored(archetypes, location)' /\ DOMAIN location' = DOMAIN location
              /\ DOMAIN archetypes' = DOMAIN xs
              /\ \A j \in DOMAIN xs : archetypes'[j].signature = xs[j].signature
              /\ Data(archetypes', location') = With(Without(D, e), e, MovedValues(D[e], signature, given))
  <2>1. Copied(xs[i], row, xs[d], e, given) = RowAdded(xs[d], e, values)
    <3>1. CopiedValues(xs[i], row, xs[d], given) \in [xs[d].signature -> Cells]
      BY <1>6, <1>11
    <3> QED  BY <1>4, <1>6, <1>10, <3>1, CopiedAdds, SMTT(30)
  <2>2. PICK y, z : y = RowAdded(xs[d], e, values) /\ z = EraseSwap(xs[i], row)
    OBVIOUS
  <2>3. archetypes' = [[xs EXCEPT ![d] = y] EXCEPT ![i] = z]
    BY <1>9, <1>12, <2>1, <2>2
  <2>4. PICK ys, there : ys = archetypes' /\ there = location'
    OBVIOUS
  <2>5. ys = Put(Put(xs, d, RowAdded(xs[d], e, values)), i, EraseSwap(xs[i], row))
    BY <2>2, <2>3, <2>4 DEF Put
  <2>6. there = Relocated(Put(location, e, At(d, n)), Swapped(xs[i]), e, i, row)
    BY <1>2, <1>12, <2>4 DEF At, Put
  <2>7. /\ Stored(ys, there) /\ Data(ys, there) = With(Without(D, e), e, values)
        /\ DOMAIN ys = DOMAIN xs /\ \A j \in DOMAIN xs : ys[j].signature = xs[j].signature
    <3>1. /\ Stored(xs, location) /\ row = location[e].row /\ d \in DOMAIN xs /\ d # i
          /\ values \in [xs[d].signature -> Cells] /\ n = Len(xs[d].entities) + 1
      BY <1>1, <1>2, <1>5, <1>8, <1>9, <1>11
    <3>2. /\ Stored(ys, there) /\ Data(ys, there) = With(Without(Data(xs, location), e), e, values)
          /\ DOMAIN ys = DOMAIN xs /\ \A j \in DOMAIN xs : ys[j].signature = xs[j].signature
      BY <2>5, <2>6, <3>1, RowMovedStored
    <3> QED  BY <1>8, <3>2
  <2>8. DOMAIN there = DOMAIN location
    BY <2>6 DEF Relocated, Put
  <2> QED  BY <1>11, <2>4, <2>7, <2>8
<1>13. ASSUME /\ \/ \E done : archetypes' = [xs EXCEPT ![d] = AddEntityThrows(@, e, done)]
                 \/ archetypes' = [xs EXCEPT ![d] = EraseSwap(AddEntity(@, e), Len(@.entities) + 1)]
              /\ location' = location
       PROVE  archetypes' = xs /\ location' = location
  <2>1. \A done : AddEntityThrows(xs[d], e, done) = xs[d]
    BY <1>10, AddEntityThrowsNothing
  <2>2. EraseSwap(AddEntity(xs[d], e), Len(xs[d].entities) + 1) = xs[d]
    BY <1>4, <1>10, EraseSwapRestores
  <2>3. [xs EXCEPT ![d] = xs[d]] = xs
    BY <1>10
  <2> QED  BY <1>13, <2>1, <2>2, <2>3
<1>14. /\ Stored(archetypes, location)' /\ DOMAIN location' = DOMAIN location
       /\ DOMAIN archetypes' = DOMAIN xs
       /\ \A j \in DOMAIN xs : archetypes'[j].signature = xs[j].signature
       /\ \/ Data(archetypes', location') = D
          \/ Data(archetypes', location') = With(Without(D, e), e, MovedValues(D[e], signature, given))
  BY <1>7, <1>8, <1>12, <1>13
<1>15. revision' \in 0 .. RevisionBound /\ QueriesKept'
  BY <1>5, <1>7, <1>14, RevisionCounts
<1>16. Others'
  BY <1>3, <1>7, <1>14, <1>15 DEF Others
<1> QED  BY <1>7, <1>14, <1>15, <1>16 DEF AInv

\* addComponent gives the entity the one component.
LEMMA AddComponentStep ==
  ASSUME AInv, NEW e \in DOMAIN location, NEW c \in Types, NEW v \in Values, AddComponent(e, c, v)
  PROVE  AInv' /\ (Map!Add(e, c, v) \/ UNCHANGED Map!evars)
<1>1. PICK i, signature, given, D :
         /\ i = location[e].archetype /\ signature = archetypes[i].signature \cup {c}
         /\ given = [d \in {c} |-> v] /\ D = Data(archetypes, location)
  OBVIOUS
<1>2. c \notin archetypes[i].signature /\ Move(e, "adds", c, signature, given)
  BY <1>1 DEF AddComponent, ContainsType, ArchetypeOf
<1>3. \A t \in DOMAIN given : given[t] \in Cells
  BY <1>1 DEF Cells
<1>4. signature # archetypes[i].signature
  BY <1>1, <1>2
<1>5. /\ AInv' /\ created' = created
      /\ \/ Data(archetypes', location') = D
         \/ Data(archetypes', location') = With(Without(D, e), e, MovedValues(D[e], signature, given))
  BY <1>1, <1>2, <1>3, <1>4, MoveStep
<1>6. DOMAIN D = DOMAIN location /\ IsFcn(D) /\ DOMAIN D[e] = archetypes[i].signature /\ IsFcn(D[e])
  BY <1>1, DataIs, DataAt
<1>7. With(Without(D, e), e, MovedValues(D[e], signature, given)) = [D EXCEPT ![e] = With(D[e], c, v)]
  <2>1. MovedValues(D[e], signature, given) = With(D[e], c, v)
    BY <1>1, <1>2, <1>6 DEF MovedValues, With
  <2>2. PICK w : w = With(D[e], c, v)
    OBVIOUS
  <2>3. With(Without(D, e), e, w) = [D EXCEPT ![e] = w]
    BY <1>6 DEF With, Without
  <2> QED  BY <2>1, <2>2, <2>3
<1>8. CASE Data(archetypes', location') = D
  BY <1>1, <1>5, <1>8 DEF Map!evars
<1>9. CASE Data(archetypes', location') = [D EXCEPT ![e] = With(D[e], c, v)]
  <2>1. c \notin DOMAIN D[e]
    BY <1>2, <1>6
  <2>2. Map!With(D[e], c, v) = With(D[e], c, v)
    BY DEF With, Map!With
  <2> QED  BY <1>1, <1>5, <1>9, <2>1, <2>2 DEF Map!Add
<1> QED  BY <1>5, <1>7, <1>8, <1>9

\* removeComponent takes it.
LEMMA RemoveComponentStep ==
  ASSUME AInv, NEW e \in DOMAIN location, NEW c \in Types, RemoveComponent(e, c)
  PROVE  AInv' /\ (Map!Remove(e, c) \/ UNCHANGED Map!evars)
<1>1. PICK i, signature, given, D :
         /\ i = location[e].archetype /\ signature = archetypes[i].signature \ {c}
         /\ given = <<>> /\ D = Data(archetypes, location)
  OBVIOUS
<1>2. c \in archetypes[i].signature /\ Move(e, "removes", c, signature, given)
  BY <1>1 DEF RemoveComponent, ContainsType, ArchetypeOf
<1>3. DOMAIN given = {} /\ \A t \in DOMAIN given : given[t] \in Cells
  BY <1>1
<1>4. signature # archetypes[i].signature
  BY <1>1, <1>2
<1>5. /\ AInv' /\ created' = created
      /\ \/ Data(archetypes', location') = D
         \/ Data(archetypes', location') = With(Without(D, e), e, MovedValues(D[e], signature, given))
  BY <1>1, <1>2, <1>3, <1>4, MoveStep
<1>6. DOMAIN D = DOMAIN location /\ IsFcn(D) /\ DOMAIN D[e] = archetypes[i].signature /\ IsFcn(D[e])
  BY <1>1, DataIs, DataAt
<1>7. With(Without(D, e), e, MovedValues(D[e], signature, given))
        = [D EXCEPT ![e] = [t \in DOMAIN D[e] \ {c} |-> D[e][t]]]
  <2>1. PICK w : w = [t \in DOMAIN D[e] \ {c} |-> D[e][t]]
    OBVIOUS
  <2>2. MovedValues(D[e], signature, given) = w
    BY <1>1, <1>6, <2>1 DEF MovedValues
  <2>3. With(Without(D, e), e, w) = [D EXCEPT ![e] = w]
    BY <1>6 DEF With, Without
  <2> QED  BY <2>1, <2>2, <2>3
<1>8. CASE Data(archetypes', location') = D
  BY <1>1, <1>5, <1>8 DEF Map!evars
<1>9. CASE Data(archetypes', location') = [D EXCEPT ![e] = [t \in DOMAIN D[e] \ {c} |-> D[e][t]]]
  <2>1. c \in DOMAIN D[e]
    BY <1>2, <1>6
  <2> QED  BY <1>1, <1>5, <1>9, <2>1 DEF Map!Remove
<1> QED  BY <1>5, <1>7, <1>8, <1>9

\* A write through componentRaw.
LEMMA WriteComponentStep ==
  ASSUME AInv, NEW e \in DOMAIN location, NEW c \in Types, NEW v \in Values, WriteComponent(e, c, v)
  PROVE  AInv' /\ Map!Write(e, c, v)
<1>1. PICK i, row, ys, D : /\ i = location[e].archetype /\ row = location[e].row
                           /\ ys = archetypes' /\ D = Data(archetypes, location)
  OBVIOUS
<1>2. /\ c \in archetypes[i].signature /\ ys = [archetypes EXCEPT ![i].columns[c][row] = v]
      /\ revision' = revision /\ location' = location /\ created' = created
      /\ iterating' = iterating /\ query' = query /\ tick' = tick
  BY <1>1 DEF WriteComponent, ContainsType, ArchetypeOf
<1>3. /\ Stored(archetypes, location) /\ Others /\ QueriesKept
  BY DEF AInv
<1>4. v \in Cells
  BY DEF Cells
<1>5. /\ Stored(ys, location) /\ Data(ys, location) = Overwritten(D, e, c, v)
      /\ DOMAIN ys = DOMAIN archetypes
      /\ \A j \in DOMAIN archetypes : ys[j].signature = archetypes[j].signature
  <2>1. ys = Written(archetypes, i, c, row, v)
    BY <1>2 DEF Written
  <2>2. Stored(archetypes, location) /\ c \in archetypes[i].signature
    BY <1>2, <1>3
  <2> QED  BY <1>1, <1>4, <2>1, <2>2, ValueWrittenStored
<1>6. Others'
  BY <1>2, <1>3 DEF Others
<1>7. QueriesKept'
  <2>1. revision' \in 0 .. RevisionBound
    BY <1>2, <1>3 DEF Others
  <2> QED  BY <1>1, <1>2, <1>3, <1>5, <2>1, QueriesStay
<1>8. c \in DOMAIN D[e]
  BY <1>1, <1>2, DataAt
<1>9. Map!Write(e, c, v)
  <2>1. Data(archetypes', location') = [D EXCEPT ![e][c] = v]
    BY <1>1, <1>2, <1>5 DEF Overwritten
  <2> QED  BY <1>1, <1>2, <1>8, <2>1 DEF Map!Write
<1> QED  BY <1>1, <1>2, <1>5, <1>6, <1>7, <1>9 DEF AInv

\* clear().
LEMMA ClearStep ==
  ASSUME AInv, Clear
  PROVE  AInv' /\ Map!Clear
<1>1. /\ archetypes' = <<>> /\ location' = <<>> /\ revision' = revision + 1
      /\ revision < RevisionBound /\ iterating = {} /\ created' = created
      /\ iterating' = iterating /\ query' = query /\ tick' = tick
  BY DEF Clear, StructuralMutationAllowed
<1>2. Stored(archetypes, location)' /\ Data(archetypes', location') = <<>>
  BY <1>1, EmptyStored
<1>3. Others /\ QueriesKept
  BY DEF AInv
<1>4. revision' \in 0 .. RevisionBound /\ revision < revision'
  BY <1>1, <1>3, Bounds DEF Others
<1>5. DOMAIN location' = {}
  BY <1>1
<1>6. Others'
  BY <1>1, <1>3, <1>4, <1>5 DEF Others
<1>7. QueriesKept'
  BY <1>1, <1>3, <1>4, QueriesStay
<1> QED  BY <1>1, <1>2, <1>6, <1>7 DEF AInv, Map!Clear

\* markChanged.
LEMMA MarkChangedStep ==
  ASSUME AInv, NEW c \in Types, MarkChanged(c)
  PROVE  AInv' /\ UNCHANGED Map!evars
<1>1. /\ tick < TickBound /\ tick' = tick + 1
      /\ archetypes' = [i \in DOMAIN archetypes |->
            IF c \in archetypes[i].signature THEN [archetypes[i] EXCEPT !.changed[c] = tick']
            ELSE archetypes[i]]
      /\ revision' = revision /\ location' = location /\ created' = created
      /\ iterating' = iterating /\ query' = query
  BY DEF MarkChanged
<1>2. Stored(archetypes, location) /\ Others /\ QueriesKept
  BY DEF AInv
<1>3. tick' \in 0 .. TickBound
  BY <1>1, <1>2, Bounds DEF Others
<1>4. PICK ys : ys = archetypes'
  OBVIOUS
<1>5. /\ Store(ys) /\ Grown(archetypes, ys) /\ DOMAIN ys = DOMAIN archetypes
      /\ \A j \in DOMAIN archetypes : ys[j].signature = archetypes[j].signature
  <2>1. PICK t \in 0 .. TickBound : t = tick'
    BY <1>3
  <2>2. ys = Marked(archetypes, c, t)
    BY <1>1, <1>4, <2>1 DEF Marked
  <2>3. Store(archetypes)
    BY <1>2 DEF Stored
  <2> QED  BY <2>1, <2>2, <2>3, MarkedStore
<1>6. Stored(ys, location) /\ Data(ys, location) = Data(archetypes, location)
  BY <1>2, <1>5, GrownKeeps
<1>7. Others'
  BY <1>1, <1>2, <1>3 DEF Others
<1>8. QueriesKept'
  <2>1. revision' \in 0 .. RevisionBound
    BY <1>1, <1>2 DEF Others
  <2> QED  BY <1>1, <1>2, <1>4, <1>5, <2>1, QueriesStay
<1>9. Data(archetypes', location') = Data(archetypes, location)
  BY <1>1, <1>4, <1>6
<1> QED  BY <1>1, <1>4, <1>6, <1>7, <1>8, <1>9 DEF AInv, Map!evars

\* A query refreshes its matches when it begins.
LEMMA BeginEachStep ==
  ASSUME AInv, NEW q \in Queries, BeginEach(q)
  PROVE  AInv' /\ UNCHANGED Map!evars
<1>1. /\ query' = [query EXCEPT ![q] = Refreshed(q)] /\ iterating' = iterating \cup {q}
      /\ archetypes' = archetypes /\ revision' = revision /\ location' = location
      /\ created' = created /\ tick' = tick
  BY DEF BeginEach
<1>2. Stored(archetypes, location) /\ Others /\ QueriesKept
  BY DEF AInv
<1>3. PICK r : r = Refreshed(q)
  OBVIOUS
<1>4. Lists(Matching(q), Matched(q))
  BY <1>2, MatchingIs DEF Stored, Store
<1>5. query \in [Queries -> QueryRecord] /\ revision \in 0 .. RevisionBound /\ RevisionBound \in Nat
  BY <1>2, Bounds DEF Others
<1>6. /\ r \in QueryRecord /\ r.revision = revision
      /\ {r.matches[k] : k \in DOMAIN r.matches} = Matched(q)
      /\ \A k, l \in DOMAIN r.matches : r.matches[k] = r.matches[l] => k = l
  <2>1. CASE query[q].revision = revision
    <3>1. r = query[q]
      BY <1>3, <2>1 DEF Refreshed
    <3> QED  BY <1>2, <1>5, <2>1, <3>1 DEF QueriesKept
  <2>2. CASE query[q].revision # revision
    <3>1. PICK t : t = Matching(q)
      OBVIOUS
    <3>2. r = [revision |-> revision, matches |-> t]
      BY <1>3, <2>2, <3>1 DEF Refreshed
    <3>3. t \in Seq(Nat) /\ revision \in 0 .. NeverRefreshed
      BY <1>4, <1>5, <3>1 DEF Lists, NeverRefreshed
    <3>4. r \in QueryRecord /\ r.revision = revision /\ r.matches = t
      BY <3>2, <3>3 DEF QueryRecord
    <3> QED  BY <1>4, <3>1, <3>4 DEF Lists
  <2> QED  BY <2>1, <2>2
<1>7. \A p \in Queries : query'[p] = IF p = q THEN r ELSE query[p]
  BY <1>1, <1>3, <1>5
<1>8. query' \in [Queries -> QueryRecord]
  BY <1>1, <1>3, <1>5, <1>6
<1>9. Others'
  <2>1. iterating' \in SUBSET Queries
    BY <1>1, <1>2 DEF Others
  <2> QED  BY <1>1, <1>2, <1>8, <2>1 DEF Others
<1>10. ASSUME NEW p \in Queries
       PROVE  /\ query'[p].revision <= revision' \/ query'[p].revision = NeverRefreshed
              /\ p \in iterating' => query'[p].revision = revision'
              /\ query'[p].revision = revision' =>
                   /\ {query'[p].matches[k] : k \in DOMAIN query'[p].matches} = Matched(p)
                   /\ \A k, l \in DOMAIN query'[p].matches :
                         query'[p].matches[k] = query'[p].matches[l] => k = l
  <2>1. CASE p = q
    BY <1>1, <1>5, <1>6, <1>7, <2>1
  <2>2. CASE p # q
    BY <1>1, <1>2, <1>7, <2>2 DEF QueriesKept
  <2> QED  BY <2>1, <2>2
<1>11. \A p : Matched(p)' = Matched(p)
  BY <1>1 DEF Matched
<1>12. QueriesKept'
  BY <1>10, <1>11 DEF QueriesKept
<1> QED  BY <1>1, <1>2, <1>9, <1>12 DEF AInv, Map!evars

LEMMA EndEachStep ==
  ASSUME AInv, NEW q \in Queries, EndEach(q)
  PROVE  AInv' /\ UNCHANGED Map!evars
<1>1. /\ iterating' = iterating \ {q} /\ query' = query
      /\ archetypes' = archetypes /\ revision' = revision /\ location' = location
      /\ created' = created /\ tick' = tick
  BY DEF EndEach
<1>2. Stored(archetypes, location) /\ Others /\ QueriesKept
  BY DEF AInv
<1>3. iterating' \in SUBSET iterating /\ revision' \in 0 .. RevisionBound
  BY <1>1, <1>2 DEF Others
<1>4. Others'
  BY <1>1, <1>2 DEF Others
<1>5. QueriesKept'
  BY <1>1, <1>2, <1>3, QueriesStay
<1> QED  BY <1>1, <1>2, <1>4, <1>5 DEF AInv, Map!evars

LEMMA Unchanged == ASSUME AInv, UNCHANGED vars PROVE AInv' /\ UNCHANGED Map!evars
<1>1. /\ archetypes' = archetypes /\ location' = location /\ revision' = revision
      /\ created' = created /\ iterating' = iterating /\ query' = query /\ tick' = tick
  BY DEF vars
<1>2. Others' /\ QueriesKept'
  BY <1>1 DEF AInv, Others, QueriesKept, Matched
<1> QED  BY <1>1, <1>2 DEF AInv, Map!evars

\* Every step keeps the invariant and is a step of the abstract storage, or none.
LEMMA StorageStep ==
  ASSUME AInv, [Next]_vars
  PROVE  AInv' /\ [Map!ENext]_Map!evars
<1>1. CASE CreateEntity
  BY <1>1, CreateEntityStep DEF Map!ENext
<1>2. CASE Clear
  BY <1>2, ClearStep DEF Map!ENext
<1>3. ASSUME NEW e \in Live,
             \/ DestroyEntity(e)
             \/ \E c \in Types :
                   \/ RemoveComponent(e, c)
                   \/ \E v \in Values : AddComponent(e, c, v) \/ WriteComponent(e, c, v)
      PROVE  AInv' /\ [Map!ENext]_Map!evars
  <2>1. e \in DOMAIN location /\ e \in DOMAIN Data(archetypes, location)
    BY DataIs DEF Live
  <2>2. CASE DestroyEntity(e)
    BY <2>1, <2>2, DestroyEntityStep DEF Map!ENext
  <2>3. ASSUME NEW c \in Types, RemoveComponent(e, c) PROVE AInv' /\ [Map!ENext]_Map!evars
    BY <2>1, <2>3, RemoveComponentStep DEF Map!ENext
  <2>4. ASSUME NEW c \in Types, NEW v \in Values, AddComponent(e, c, v)
        PROVE  AInv' /\ [Map!ENext]_Map!evars
    BY <2>1, <2>4, AddComponentStep DEF Map!ENext
  <2>5. ASSUME NEW c \in Types, NEW v \in Values, WriteComponent(e, c, v)
        PROVE  AInv' /\ [Map!ENext]_Map!evars
    BY <2>1, <2>5, WriteComponentStep DEF Map!ENext
  <2> QED  BY <1>3, <2>2, <2>3, <2>4, <2>5
<1>4. ASSUME NEW c \in Types, MarkChanged(c) PROVE AInv' /\ [Map!ENext]_Map!evars
  BY <1>4, MarkChangedStep
<1>5. ASSUME NEW q \in Queries, BeginEach(q) \/ EndEach(q) PROVE AInv' /\ [Map!ENext]_Map!evars
  BY <1>5, BeginEachStep, EndEachStep
<1>6. CASE UNCHANGED vars
  BY <1>6, Unchanged
<1> QED  BY <1>1, <1>2, <1>3, <1>4, <1>5, <1>6 DEF Next

LEMMA StorageInvariance == Spec => []AInv
<1>1. AInv /\ [Next]_vars => AInv'
  BY StorageStep
<1> QED  BY <1>1, AInvInit, PTL DEF Spec

\* What a query visits, when it knows the archetypes it has to.
LEMMA VisitsAll ==
  ASSUME AInv, NEW q \in iterating
  PROVE  /\ \A k \in DOMAIN query[q].matches : query[q].matches[k] \in DOMAIN archetypes
         /\ Visited(q) = {e \in Live : Required[q] \subseteq ArchetypeOf(e).signature}
         /\ \A k, l \in DOMAIN query[q].matches : query[q].matches[k] = query[q].matches[l] => k = l
<1>1. /\ {query[q].matches[k] : k \in DOMAIN query[q].matches} = Matched(q)
      /\ \A k, l \in DOMAIN query[q].matches : query[q].matches[k] = query[q].matches[l] => k = l
  BY DEF AInv, Others, QueriesKept
<1>2. \A k \in DOMAIN query[q].matches : query[q].matches[k] \in DOMAIN archetypes
  BY <1>1 DEF Matched
<1>3. RowsAgree(archetypes, location)
  BY DEF AInv, Stored
<1>4. Visited(q) = UNION {{archetypes[i].entities[r] : r \in DOMAIN archetypes[i].entities} :
                             i \in Matched(q)}
  BY <1>1 DEF Visited
<1>5. ASSUME NEW e \in Visited(q) PROVE e \in Live /\ Required[q] \subseteq ArchetypeOf(e).signature
  <2>1. PICK i \in Matched(q) : \E r \in DOMAIN archetypes[i].entities : e = archetypes[i].entities[r]
    BY <1>4, <1>5
  <2>2. PICK r \in DOMAIN archetypes[i].entities : e = archetypes[i].entities[r]
    BY <2>1
  <2>3. i \in DOMAIN archetypes /\ Required[q] \subseteq archetypes[i].signature
    BY <2>1 DEF Matched
  <2>4. /\ archetypes[i].entities[r] \in DOMAIN location
        /\ location[archetypes[i].entities[r]] = [archetype |-> i, row |-> r]
    BY <1>3, <2>2, <2>3 DEF RowsAgree
  <2>5. e \in DOMAIN location /\ location[e].archetype = i
    BY <2>2, <2>4
  <2> QED  BY <2>3, <2>5 DEF Live, ArchetypeOf
<1>6. ASSUME NEW e \in Live, Required[q] \subseteq ArchetypeOf(e).signature PROVE e \in Visited(q)
  <2>1. PICK i, r : i = location[e].archetype /\ r = location[e].row
    OBVIOUS
  <2>2. i \in DOMAIN archetypes /\ r \in DOMAIN archetypes[i].entities /\ archetypes[i].entities[r] = e
    BY <1>3, <2>1 DEF RowsAgree, Live
  <2>3. i \in Matched(q)
    BY <1>6, <2>1, <2>2 DEF Matched, ArchetypeOf
  <2> QED  BY <1>4, <2>2, <2>3
<1> QED  BY <1>1, <1>2, <1>5, <1>6

LEMMA AInvSound == AInv => StorageSound
<1> SUFFICES ASSUME AInv PROVE StorageSound
  OBVIOUS
<1>1. /\ archetypes \in Seq(Archetype)
      /\ \A i \in DOMAIN archetypes : IsArchetype(archetypes[i]) /\ ArchetypeSound(archetypes, i)
      /\ SignaturesDiffer(archetypes) /\ RowsAgree(archetypes, location)
      /\ location \in [DOMAIN location -> Place] /\ Others
  BY DEF AInv, Stored, Store
<1>2. archetypes \in Seq({archetypes[i] : i \in DOMAIN archetypes})
  <2>1. DOMAIN archetypes = 1 .. Len(archetypes) /\ Len(archetypes) \in Nat
    BY <1>1, SeqIs
  <2>2. PICK S : S = {archetypes[i] : i \in DOMAIN archetypes}
    OBVIOUS
  <2>3. archetypes = [i \in DOMAIN archetypes |-> archetypes[i]]
    BY <1>1, LenProperties
  <2>4. archetypes \in [1 .. Len(archetypes) -> S]
    BY <2>1, <2>2, <2>3
  <2>5. archetypes \in Seq(S)
    BY <2>1, <2>4, SeqDef
  <2> QED  BY <2>2, <2>5
<1>3. TypeOK
  BY <1>1, <1>2 DEF TypeOK, Others, Live, Place, QueryRecord
<1>4. LocationsSound
  BY <1>1 DEF LocationsSound, WellStored
<1>5. QueryComplete
  BY VisitsAll DEF QueryComplete
<1> QED  BY <1>3, <1>4, <1>5 DEF StorageSound, AInv

\* Every entity is where its slot says it is, in columns as long as the rows,
\* and what a query visits while it iterates is every entity it asks for and no
\* other, whenever its list of archetypes was built: for any types, queries and
\* number of entities.
THEOREM StorageIsSound == Spec => []StorageSound
BY StorageInvariance, AInvSound, PTL

\* No component of an entity changes but by a call that names it: moving rows,
\* changing archetype and a call that throws half way leave the others alone.
THEOREM ImplementsMapCorrect == Spec => ImplementsMap
<1>1. Init => Map!EInit
  BY EmptyStored DEF Init, Map!EInit
<1>2. AInv /\ [Next]_vars => [Map!ENext]_Map!evars
  BY StorageStep
<1> QED  BY <1>1, <1>2, StorageInvariance, PTL DEF Spec, ImplementsMap, Map!ESpec
=============================================================================
