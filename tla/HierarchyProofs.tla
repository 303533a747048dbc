-------------------------- MODULE HierarchyProofs ---------------------------
(***************************************************************************)
(* The hierarchy of a scene and its transforms, for any number of entities,*)
(* any depth and any modulus whose scales have inverses.                   *)
(***************************************************************************)
EXTENDS SceneHierarchy, FiniteSetTheorems, SequenceTheorems, NumberInduction, TLAPS

-----------------------------------------------------------------------------
(* Loops.                                                                  *)

LEMMA DepthIs ==
    /\ Cardinality(Entity) \in Nat /\ 0 \in Depth
    /\ \A n \in 1 .. Cardinality(Entity) : n \in Depth /\ n - 1 \in Depth
    /\ \A n \in Depth : n \in Nat /\ (n # 0 => n \in 1 .. Cardinality(Entity))
<1>1. Cardinality(Entity) \in Nat
  BY EntityAssumption, FS_CardinalityType
<1> QED  BY <1>1 DEF Depth

\* A loop goes on from round to round.
LEMMA RoundsIn ==
  ASSUME NEW D, NEW x \in D, NEW next, \A y \in D : next[y] \in D
  PROVE  /\ Rounds(next, x) \in [Depth -> D]
         /\ Rounds(next, x)[0] = x
         /\ \A n \in 1 .. Cardinality(Entity) : Rounds(next, x)[n] = next[Rounds(next, x)[n - 1]]
<1>0. PICK N \in Nat : N = Cardinality(Entity)
  BY DepthIs
<1> DEFINE on == [y \in D |-> next[y]]
           step == [n \in 1 .. N |-> on]
           F(f) == [n \in Depth |-> IF n = 0 THEN x ELSE next[f[n - 1]]]
<1>1. N \in Nat /\ Depth = 0 .. N
  BY <1>0 DEF Depth
<1>2. step \in [1 .. N -> [D -> D]]
  OBVIOUS
<1>3. PICK g \in [0 .. N -> D] : g[0] = x /\ \A n \in 1 .. N : g[n] = step[n][g[n - 1]]
  <2> HIDE DEF step
  <2> QED  BY <1>1, <1>2, Iteration
<1>a. \A n \in 1 .. N : g[n] = next[g[n - 1]]
  <2>1. \A n \in 1 .. N : n - 1 \in 0 .. N
    BY <1>1
  <2>2. \A n \in 1 .. N : step[n][g[n - 1]] = next[g[n - 1]]
    BY <1>3, <2>1
  <2> HIDE DEF step
  <2> QED  BY <1>3, <2>2
<1>4. g = F(g)
  <2>1. \A n \in Depth : g[n] = IF n = 0 THEN x ELSE next[g[n - 1]]
    BY <1>1, <1>3, <1>a
  <2>2. g = [n \in Depth |-> g[n]]
    BY <1>1, <1>3
  <2> QED  BY <2>1, <2>2
<1> DEFINE f == CHOOSE h : h = F(h)
<1>5. f = F(f)
  BY <1>4
<1>6. Rounds(next, x) = f
  BY DEF Rounds
<1>7. f[0] = x /\ \A n \in 1 .. N : f[n] = next[f[n - 1]]
  <2> HIDE DEF f
  <2>1. \A n \in Depth : f[n] = F(f)[n]
    BY <1>5
  <2> QED  BY <2>1, <1>1
<1>8. f \in [Depth -> D]
  <2>1. \A n \in 0 .. N : f[n] = g[n]
    <3> HIDE DEF f, step, on
    <3>1. f[0] = g[0]
      BY <1>3, <1>7
    <3>2. \A n \in 1 .. N : f[n - 1] = g[n - 1] => f[n] = g[n]
      BY <1>7, <1>a
    <3> DEFINE T == {n \in 0 .. N : f[n] = g[n]}
    <3>3. 0 \in T /\ \A n \in 1 .. N : n - 1 \in T => n \in T
      BY <1>1, <3>1, <3>2
    <3> HIDE DEF T
    <3>4. \A n \in 0 .. N : n \in T
      BY <1>1, <3>3, EveryNumber
    <3> QED  BY <3>4 DEF T
  <2>2. f = [n \in Depth |-> IF n = 0 THEN x ELSE next[f[n - 1]]]
    BY <1>5
  <2> HIDE DEF f
  <2>3. DOMAIN f = Depth /\ f = [n \in Depth |-> f[n]]
    BY <2>2
  <2> QED  BY <1>1, <1>3, <2>1, <2>3
<1> HIDE DEF f
<1> QED  BY <1>0, <1>6, <1>7, <1>8

LEMMA RoundsAre ==
  ASSUME NEW D, NEW x \in D, NEW next \in [D -> D]
  PROVE  /\ Rounds(next, x) \in [Depth -> D]
         /\ Rounds(next, x)[0] = x
         /\ \A n \in 1 .. Cardinality(Entity) : Rounds(next, x)[n] = next[Rounds(next, x)[n - 1]]
<1>1. \A y \in D : next[y] \in D
  OBVIOUS
<1> QED  BY <1>1, RoundsIn

\* An invariant of the rounds.
LEMMA RoundsKeep ==
  ASSUME NEW D, NEW x \in D, NEW next \in [D -> D], NEW G,
         x \in G, \A y \in D \cap G : next[y] \in G
  PROVE  \A n \in Depth : Rounds(next, x)[n] \in G
<1> DEFINE N == Cardinality(Entity)
           r == Rounds(next, x)
           T == {n \in Depth : r[n] \in G}
<1>1. /\ r \in [Depth -> D] /\ r[0] = x
      /\ \A n \in 1 .. N : r[n] = next[r[n - 1]]
  BY RoundsAre
<1>2. 0 \in T
  BY <1>1, DepthIs
<1>3. \A n \in 1 .. N : n - 1 \in T => n \in T
  <2> HIDE DEF r
  <2> QED  BY <1>1, DepthIs
<1> HIDE DEF T, r
<1>4. \A n \in 0 .. N : n \in T
  BY <1>2, <1>3, DepthIs, EveryNumber
<1> QED  BY <1>4 DEF T, r, Depth

-----------------------------------------------------------------------------
(* Parents.                                                                *)

ParentTyped(L) == \A e \in Entity : L[e].parent \in Entity \cup {Null}

\* No chain of parents is endless: stated of sets, not of walks.
Rooted(L) == \A T \in SUBSET Entity : T # {} => \E x \in T : L[x].parent \notin T

\* e and what is above it.
Above(L, e) == {x \in Entity : \E n \in Depth : Ancestor(L, e)[n] = x}

Parenthood(L) == [x \in Entity \cup {Null} |-> IF x = Null THEN Null ELSE L[x].parent]

LEMMA AncestorIs ==
  ASSUME NEW L, ParentTyped(L), NEW e \in Entity
  PROVE  /\ Ancestor(L, e) \in [Depth -> Entity \cup {Null}]
         /\ Ancestor(L, e)[0] = e
         /\ \A n \in 1 .. Cardinality(Entity) :
              Ancestor(L, e)[n] = IF Ancestor(L, e)[n - 1] = Null THEN Null
                                  ELSE L[Ancestor(L, e)[n - 1]].parent
<1> DEFINE D == Entity \cup {Null}
           up == Ancestor(L, e)
<1>1. Parenthood(L) \in [D -> D] /\ e \in D
  BY DEF ParentTyped, Parenthood
<1>2. up = Rounds(Parenthood(L), e)
  BY DEF Ancestor, Parenthood
<1>3. /\ up \in [Depth -> D] /\ up[0] = e
      /\ \A n \in 1 .. Cardinality(Entity) : up[n] = Parenthood(L)[up[n - 1]]
  <2> HIDE DEF up, D
  <2> QED  BY <1>1, <1>2, RoundsAre
<1>4. \A n \in 1 .. Cardinality(Entity) : up[n - 1] \in D
  <2> HIDE DEF up
  <2> QED  BY <1>3, DepthIs
<1> HIDE DEF up
<1> QED  BY <1>3, <1>4 DEF up, Parenthood

\* A set that has e, and the parents of its members, has what is above e.
LEMMA AboveLeast ==
  ASSUME NEW L, ParentTyped(L), NEW e \in Entity, NEW T, e \in T,
         \A x \in T \cap Entity : L[x].parent \in T \cup {Null}
  PROVE  Above(L, e) \subseteq T
<1> DEFINE D == Entity \cup {Null}
           G == T \cup {Null}
<1>1. Parenthood(L) \in [D -> D] /\ e \in D /\ e \in G
  BY DEF ParentTyped, Parenthood
<1>2. \A y \in D \cap G : Parenthood(L)[y] \in G
  BY DEF Parenthood
<1>3. Ancestor(L, e) = Rounds(Parenthood(L), e)
  BY DEF Ancestor, Parenthood
<1> HIDE DEF D, G
<1>4. \A n \in Depth : Ancestor(L, e)[n] \in G
  BY <1>1, <1>2, <1>3, RoundsKeep
<1> QED  BY <1>4, EntityAssumption DEF Above, G

\* Above Null there is nothing.
LEMMA AncestorsThen ==
  ASSUME NEW L, ParentTyped(L), NEW e \in Entity
  PROVE  \A n \in Depth : Ancestor(L, e)[n] = Null \/ \A k \in 0 .. n : Ancestor(L, e)[k] # Null
<1> DEFINE up == Ancestor(L, e)
           T == {n \in Depth : up[n] = Null \/ \A k \in 0 .. n : up[k] # Null}
<1>1. 0 \in T
  BY DepthIs, AncestorIs, EntityAssumption
<1>2. \A n \in 1 .. Cardinality(Entity) : n - 1 \in T => n \in T
  <2>1. SUFFICES ASSUME NEW n \in 1 .. Cardinality(Entity), n - 1 \in T PROVE n \in T
    OBVIOUS
  <2>2. up[n] = IF up[n - 1] = Null THEN Null ELSE L[up[n - 1]].parent
    BY AncestorIs
  <2> HIDE DEF up
  <2>3. n \in Depth
    BY DepthIs
  <2>4. CASE up[n - 1] = Null
    BY <2>2, <2>3, <2>4
  <2>5. CASE \A k \in 0 .. n - 1 : up[k] # Null
    <3>1. \A k \in 0 .. n : k = n \/ k \in 0 .. n - 1
      BY <2>3, DepthIs
    <3> QED  BY <2>3, <2>5, <3>1
  <2> QED  BY <2>1, <2>4, <2>5
<1> HIDE DEF T
<1>3. \A n \in 0 .. Cardinality(Entity) : n \in T
  BY <1>1, <1>2, DepthIs, EveryNumber
<1> QED  BY <1>3 DEF T, Depth

\* Every walk upwards ends.
LEMMA AncestorEnds ==
  ASSUME NEW L, ParentTyped(L), Rooted(L), NEW e \in Entity
  PROVE  Ancestor(L, e)[Cardinality(Entity)] = Null
<1> DEFINE up == Ancestor(L, e)
<1>0. PICK N \in Nat : N = Cardinality(Entity)
  BY DepthIs
<1>1. /\ up \in [0 .. N -> Entity \cup {Null}]
      /\ \A n \in 1 .. N : up[n] = IF up[n - 1] = Null THEN Null ELSE L[up[n - 1]].parent
      /\ \A n \in 0 .. N : up[n] = Null \/ \A k \in 0 .. n : up[k] # Null
  BY <1>0, AncestorIs, AncestorsThen DEF Depth
<1> HIDE DEF up
<1>2. SUFFICES ASSUME up[N] # Null PROVE FALSE
  BY <1>0 DEF up
<1>3. N \in 0 .. N
  BY <1>0
<1>4. \A k \in 0 .. N : up[k] \in Entity
  BY <1>1, <1>2, <1>3
<1>5. \A k \in 0 .. N : k # N => L[up[k]].parent = up[k + 1]
  <2>1. SUFFICES ASSUME NEW k \in 0 .. N, k # N PROVE L[up[k]].parent = up[k + 1]
    OBVIOUS
  <2>2. k + 1 \in 1 .. N /\ (k + 1) - 1 = k
    BY <1>0, <2>1
  <2>3. up[k] # Null
    BY <1>4, EntityAssumption
  <2> QED  BY <1>1, <2>2, <2>3
<1>6. \A i, j \in 0 .. N : i < j => up[i] # up[j]
  <2>1. SUFFICES ASSUME NEW i \in 0 .. N, NEW j \in 0 .. N, i < j, up[i] = up[j] PROVE FALSE
    OBVIOUS
  <2> DEFINE T == {up[k] : k \in i .. (j - 1)}
  <2>2. T \in SUBSET Entity /\ T # {}
    <3>1. \A k \in i .. (j - 1) : k \in 0 .. N
      BY <1>0, <2>1
    <3>2. i \in i .. (j - 1)
      BY <1>0, <2>1
    <3> QED  BY <1>4, <3>1, <3>2
  <2>3. PICK x \in T : L[x].parent \notin T
    BY <2>2 DEF Rooted
  <2>4. PICK k \in i .. (j - 1) : x = up[k]
    OBVIOUS
  <2>5. k \in 0 .. N /\ k # N /\ k + 1 \in i .. j /\ i \in i .. (j - 1)
    BY <1>0, <2>1
  <2>6. L[x].parent = up[k + 1]
    BY <1>5, <2>4, <2>5
  <2>7. CASE k + 1 = j
    BY <2>1, <2>3, <2>5, <2>6, <2>7
  <2>8. CASE k + 1 # j
    <3>1. k + 1 \in i .. (j - 1)
      BY <1>0, <2>1, <2>5, <2>8
    <3> QED  BY <2>3, <2>6, <3>1
  <2> QED  BY <2>7, <2>8
<1>7. \A i, j \in 0 .. N : up[i] = up[j] => i = j
  <2>1. \A i, j \in 0 .. N : i = j \/ i < j \/ j < i
    BY <1>0
  <2> QED  BY <1>6, <2>1
<1>8. IsFiniteSet(0 .. N) /\ Cardinality(0 .. N) = N + 1
  <2>1. /\ IsFiniteSet(0 .. N)
        /\ Cardinality(0 .. N) = IF 0 > N THEN 0 ELSE N - 0 + 1
    BY <1>0, FS_Interval
  <2> QED  BY <1>0, <2>1
<1>9. Cardinality(0 .. N) <= Cardinality(Entity)
  <2>1. up \in Injection(0 .. N, Entity)
    <3>1. up \in [0 .. N -> Entity]
      BY <1>1, <1>4
    <3> QED  BY <1>7, <3>1 DEF Injection, IsInjective
  <2> QED  BY <2>1, EntityAssumption, FS_Injection
<1> QED  BY <1>0, <1>8, <1>9

\* What is above e: e, and what is above its parent.
LEMMA AboveIs ==
  ASSUME NEW L, ParentTyped(L), Rooted(L), NEW e \in Entity
  PROVE  /\ e \in Above(L, e) /\ Above(L, e) \subseteq Entity
         /\ \A x \in Above(L, e) : L[x].parent # Null => L[x].parent \in Above(L, e)
         /\ L[e].parent = Null => Above(L, e) = {e}
         /\ L[e].parent # Null => Above(L, e) = {e} \cup Above(L, L[e].parent)
<1>1. e \in Above(L, e) /\ Above(L, e) \subseteq Entity
  BY AncestorIs, DepthIs DEF Above
<1>2. ASSUME NEW g \in Entity, NEW x \in Above(L, g), L[x].parent # Null
      PROVE  L[x].parent \in Above(L, g)
  <2> DEFINE up == Ancestor(L, g)
  <2>1. PICK n \in Depth : up[n] = x
    BY <1>2 DEF Above
  <2>2. x # Null /\ x \in Entity
    BY <1>2, EntityAssumption DEF Above
  <2>3. up[Cardinality(Entity)] = Null
    BY AncestorEnds
  <2> HIDE DEF up
  <2>4. n + 1 \in 1 .. Cardinality(Entity) /\ (n + 1) - 1 = n
    BY <2>1, <2>2, <2>3, DepthIs DEF Depth
  <2>5. up[n + 1] = L[x].parent
    BY <2>1, <2>2, <2>4, AncestorIs DEF up
  <2>6. n + 1 \in Depth
    BY <2>4, DepthIs
  <2>7. L[x].parent \in Entity
    BY <1>2, <2>2 DEF ParentTyped
  <2> QED  BY <2>5, <2>6, <2>7 DEF Above, up
<1>3. L[e].parent = Null => Above(L, e) = {e}
  BY <1>1, AboveLeast
<1>4. ASSUME L[e].parent # Null PROVE Above(L, e) = {e} \cup Above(L, L[e].parent)
  <2>1. L[e].parent \in Entity
    BY <1>4 DEF ParentTyped
  <2>2. L[e].parent \in Above(L, L[e].parent)
    BY <2>1, AncestorIs, DepthIs DEF Above
  <2>3. Above(L, e) \subseteq {e} \cup Above(L, L[e].parent)
    <3> DEFINE T == {e} \cup Above(L, L[e].parent)
    <3>1. \A x \in T \cap Entity : L[x].parent \in T \cup {Null}
      BY <1>2, <2>1, <2>2
    <3>2. e \in T
      OBVIOUS
    <3> HIDE DEF T
    <3>3. Above(L, e) \subseteq T
      BY <3>1, <3>2, AboveLeast
    <3> QED  BY <3>3 DEF T
  <2>4. Above(L, L[e].parent) \subseteq Above(L, e)
    <3> DEFINE T == Above(L, e)
    <3>1. L[e].parent \in T /\ \A x \in T \cap Entity : L[x].parent \in T \cup {Null}
      BY <1>1, <1>2, <1>4
    <3> HIDE DEF T
    <3>2. Above(L, L[e].parent) \subseteq T
      BY <2>1, <3>1, AboveLeast
    <3> QED  BY <3>2 DEF T
  <2> QED  BY <1>1, <2>3, <2>4
<1> QED  BY <1>1, <1>2, <1>3, <1>4

LEMMA AboveAgain ==
  ASSUME NEW L, ParentTyped(L), Rooted(L), NEW e \in Entity, NEW x \in Above(L, e)
  PROVE  Above(L, x) \subseteq Above(L, e)
<1> DEFINE T == Above(L, e)
<1>1. x \in Entity /\ x \in T /\ \A y \in T \cap Entity : L[y].parent \in T \cup {Null}
  BY AboveIs
<1> HIDE DEF T
<1>2. Above(L, x) \subseteq T
  BY <1>1, AboveLeast
<1> QED  BY <1>2 DEF T

\* Of two entities one is at most once above the other.
LEMMA AboveOnce ==
  ASSUME NEW L, ParentTyped(L), Rooted(L), NEW e \in Entity, NEW x \in Above(L, e), e \in Above(L, x)
  PROVE  x = e
<1>1. SUFFICES ASSUME x # e PROVE FALSE
  OBVIOUS
<1> DEFINE T == {y \in Entity : y \in Above(L, e) /\ e \in Above(L, y)}
<1>2. x \in T /\ T \in SUBSET Entity
  BY AboveIs
<1>3. PICK y \in T : L[y].parent \notin T
  BY <1>2 DEF Rooted
<1>4. y \in Entity /\ y \in Above(L, e) /\ e \in Above(L, y)
  OBVIOUS
<1>5. L[e].parent # Null /\ x \in Above(L, L[e].parent) /\ L[e].parent \in Entity
  BY <1>1, AboveIs DEF ParentTyped
<1>6. CASE y # e
  <2>1. L[y].parent # Null /\ e \in Above(L, L[y].parent)
    BY <1>4, <1>6, AboveIs
  <2>2. L[y].parent \in Above(L, e) /\ L[y].parent \in Entity
    BY <1>4, <2>1, AboveIs
  <2> QED  BY <1>3, <2>1, <2>2
<1>7. CASE y = e
  <2>1. e \in Above(L, L[e].parent)
    BY <1>2, <1>5, AboveAgain
  <2>2. L[e].parent \in Above(L, e)
    BY <1>5, AboveIs
  <2> QED  BY <1>3, <1>5, <1>7, <2>1, <2>2
<1> QED  BY <1>6, <1>7

\* Of two entities above e, one is above the other.
LEMMA AboveChain ==
  ASSUME NEW L, ParentTyped(L), Rooted(L), NEW e \in Entity,
         NEW x \in Above(L, e), NEW y \in Above(L, e)
  PROVE  y \in Above(L, x) \/ x \in Above(L, y)
<1> DEFINE T == {z \in Entity : z \in Above(L, x) \/ x \in Above(L, z)}
<1>1. e \in T /\ x \in Entity
  BY AboveIs
<1>2. \A z \in T \cap Entity : L[z].parent \in T \cup {Null}
  <2>1. SUFFICES ASSUME NEW z \in T, L[z].parent # Null PROVE L[z].parent \in T
    OBVIOUS
  <2>2. z \in Entity /\ (z \in Above(L, x) \/ x \in Above(L, z))
    OBVIOUS
  <2>3. L[z].parent \in Entity
    BY <2>1, <2>2 DEF ParentTyped
  <2>4. CASE z \in Above(L, x)
    BY <1>1, <2>1, <2>2, <2>3, <2>4, AboveIs
  <2>5. CASE x \in Above(L, z) /\ x # z
    BY <1>1, <2>1, <2>2, <2>3, <2>5, AboveIs
  <2>6. CASE x = z
    BY <1>1, <2>1, <2>3, <2>6, AboveIs
  <2> QED  BY <2>2, <2>4, <2>5, <2>6
<1> HIDE DEF T
<1>3. Above(L, e) \subseteq T
  BY <1>1, <1>2, AboveLeast
<1> QED  BY <1>3 DEF T

\* Siblings are not above each other, and nothing is below two of them.
LEMMA SiblingsApart ==
  ASSUME NEW L, ParentTyped(L), Rooted(L), NEW x \in Entity, NEW y \in Entity,
         L[x].parent = L[y].parent, L[x].parent # Null, NEW e \in Entity,
         x \in Above(L, e), y \in Above(L, e)
  PROVE  x = y
<1>1. ASSUME NEW u \in Entity, NEW v \in Entity, L[u].parent = L[v].parent, L[u].parent # Null,
             u \in Above(L, v)
      PROVE  u = v
  <2>1. SUFFICES ASSUME u # v PROVE FALSE
    OBVIOUS
  <2>2. u \in Above(L, L[u].parent) /\ L[u].parent \in Entity
    BY <1>1, <2>1, AboveIs DEF ParentTyped
  <2>3. L[u].parent \in Above(L, u)
    BY <1>1, AboveIs
  <2>4. L[u].parent = u
    BY <2>2, <2>3, AboveOnce
  <2>5. {u} \in SUBSET Entity
    OBVIOUS
  <2> QED  BY <2>4, <2>5 DEF Rooted
<1>2. y \in Above(L, x) \/ x \in Above(L, y)
  BY AboveChain
<1> QED  BY <1>1, <1>2

-----------------------------------------------------------------------------
(* Sequences without repetition.                                           *)

At(s, i) == IF i \in 1 .. Len(s) THEN s[i] ELSE Null

Distinct(s) == \A i, j \in 1 .. Len(s) : s[i] = s[j] => i = j

\* s without its k-th member, and with e before it.
Shorter(s, k, t) ==
    /\ t \in Seq(Entity) /\ Len(t) = Len(s) - 1
    /\ \A i \in 1 .. Len(s) - 1 : t[i] = IF i < k THEN s[i] ELSE s[i + 1]
Longer(s, k, e, t) ==
    /\ t \in Seq(Entity) /\ Len(t) = Len(s) + 1
    /\ \A i \in 1 .. Len(s) + 1 : t[i] = IF i < k THEN s[i] ELSE IF i = k THEN e ELSE s[i - 1]

LEMMA RemovedAt ==
  ASSUME NEW s \in Seq(Entity), NEW k \in 1 .. Len(s)
  PROVE  Shorter(s, k, RemoveAt(s, k))
<1> DEFINE u == SubSeq(s, 1, k - 1)
           v == SubSeq(s, k + 1, Len(s))
<1>1. Len(s) \in Nat
  OBVIOUS
<1>2. u \in Seq(Entity) /\ Len(u) = k - 1 /\ \A i \in 1 .. k - 1 : u[i] = s[i]
  <2>1. \A i \in 1 .. k - 1 : i \in 1 .. Len(s)
    BY <1>1
  <2> QED  BY <1>1, <2>1, SubSeqProperties
<1>3. v \in Seq(Entity) /\ Len(v) = Len(s) - k /\ \A i \in 1 .. Len(s) - k : v[i] = s[k + i]
  <2>1. \A i \in (k + 1) .. Len(s) : i \in 1 .. Len(s)
    BY <1>1
  <2>2. /\ v \in Seq(Entity)
        /\ Len(v) = IF k + 1 <= Len(s) THEN Len(s) - (k + 1) + 1 ELSE 0
        /\ \A i \in 1 .. Len(s) - (k + 1) + 1 : v[i] = s[k + 1 + i - 1]
    BY <1>1, <2>1, SubSeqProperties
  <2>3. Len(v) = Len(s) - k
    BY <1>1, <2>2
  <2>4. \A i \in 1 .. Len(s) - k : i \in 1 .. Len(s) - (k + 1) + 1 /\ k + 1 + i - 1 = k + i
    BY <1>1
  <2> QED  BY <2>2, <2>3, <2>4
<1>4. RemoveAt(s, k) = u \o v
  BY DEF RemoveAt
<1> HIDE DEF u, v
<1>5. /\ u \o v \in Seq(Entity) /\ Len(u \o v) = Len(u) + Len(v)
      /\ \A i \in 1 .. Len(u) + Len(v) : (u \o v)[i] = IF i <= Len(u) THEN u[i] ELSE v[i - Len(u)]
  BY <1>2, <1>3, ConcatProperties
<1>6. \A i \in 1 .. Len(s) - 1 : (u \o v)[i] = IF i < k THEN s[i] ELSE s[i + 1]
  <2>1. SUFFICES ASSUME NEW i \in 1 .. Len(s) - 1
                 PROVE  (u \o v)[i] = IF i < k THEN s[i] ELSE s[i + 1]
    OBVIOUS
  <2>2. i \in 1 .. Len(u) + Len(v)
    BY <1>1, <1>2, <1>3
  <2>3. CASE i < k
    BY <1>1, <1>2, <1>5, <2>2, <2>3
  <2>4. CASE ~(i < k)
    <3>1. i - (k - 1) \in 1 .. Len(s) - k /\ k + (i - (k - 1)) = i + 1
      BY <1>1, <2>4
    <3> QED  BY <1>1, <1>2, <1>3, <1>5, <2>2, <2>4, <3>1
  <2> QED  BY <2>3, <2>4
<1> QED  BY <1>1, <1>2, <1>3, <1>4, <1>5, <1>6 DEF Shorter

LEMMA RemovedFirst ==
  ASSUME NEW s \in Seq(Entity), NEW c, Distinct(s)
  PROVE  /\ \A k \in 1 .. Len(s) : s[k] = c => RemoveFirst(s, c) = RemoveAt(s, k)
         /\ (\A k \in 1 .. Len(s) : s[k] # c) => RemoveFirst(s, c) = s
<1>1. ASSUME NEW k \in 1 .. Len(s), s[k] = c PROVE RemoveFirst(s, c) = RemoveAt(s, k)
  <2>1. {i \in 1 .. Len(s) : s[i] = c} = {k}
    BY <1>1 DEF Distinct
  <2>2. SelectInSeq(s, LAMBDA v : v = c) = Min({k})
    BY <2>1 DEF SelectInSeq
  <2>3. Min({k}) = k
    BY DEF Min
  <2> QED  BY <1>1, <2>2, <2>3 DEF RemoveFirst
<1>2. ASSUME \A k \in 1 .. Len(s) : s[k] # c PROVE RemoveFirst(s, c) = s
  BY <1>2 DEF RemoveFirst
<1> QED  BY <1>1, <1>2

LEMMA InsertedAt ==
  ASSUME NEW s \in Seq(Entity), NEW k \in 1 .. Len(s) + 1, NEW e \in Entity
  PROVE  Longer(s, k, e, InsertAt(s, k, e))
<1> DEFINE u == SubSeq(s, 1, k - 1)
           v == SubSeq(s, k, Len(s))
<1>1. Len(s) \in Nat
  OBVIOUS
<1>2. u \in Seq(Entity) /\ Len(u) = k - 1 /\ \A i \in 1 .. k - 1 : u[i] = s[i]
  <2>1. \A i \in 1 .. k - 1 : i \in 1 .. Len(s)
    BY <1>1
  <2> QED  BY <1>1, <2>1, SubSeqProperties
<1>3. v \in Seq(Entity) /\ Len(v) = Len(s) - k + 1 /\ \A i \in 1 .. Len(s) - k + 1 : v[i] = s[k + i - 1]
  <2>1. \A i \in k .. Len(s) : i \in 1 .. Len(s)
    BY <1>1
  <2>2. /\ v \in Seq(Entity)
        /\ Len(v) = IF k <= Len(s) THEN Len(s) - k + 1 ELSE 0
        /\ \A i \in 1 .. Len(s) - k + 1 : v[i] = s[k + i - 1]
    BY <1>1, <2>1, SubSeqProperties
  <2> QED  BY <1>1, <2>2
<1> HIDE DEF u, v
<1> DEFINE w == u \o <<e>>
<1>4. w \in Seq(Entity) /\ Len(w) = k /\ \A i \in 1 .. k : w[i] = IF i < k THEN s[i] ELSE e
  <2>1. <<e>> \in Seq(Entity) /\ Len(<<e>>) = 1 /\ <<e>>[1] = e
    OBVIOUS
  <2>2. /\ u \o <<e>> \in Seq(Entity) /\ Len(u \o <<e>>) = Len(u) + Len(<<e>>)
        /\ \A i \in 1 .. Len(u) + Len(<<e>>) :
             (u \o <<e>>)[i] = IF i <= Len(u) THEN u[i] ELSE <<e>>[i - Len(u)]
    BY <1>2, <2>1, ConcatProperties
  <2>3. \A i \in 1 .. k : IF i < k THEN i <= Len(u) /\ i \in 1 .. k - 1 ELSE ~(i <= Len(u)) /\ i - Len(u) = 1
    BY <1>1, <1>2
  <2>4. Len(u) + Len(<<e>>) = k
    BY <1>1, <1>2
  <2> QED  BY <1>2, <2>1, <2>2, <2>3, <2>4
<1>5. InsertAt(s, k, e) = w \o v
  BY DEF InsertAt, u, v
<1> HIDE DEF w
<1>6. /\ w \o v \in Seq(Entity) /\ Len(w \o v) = Len(w) + Len(v)
      /\ \A i \in 1 .. Len(w) + Len(v) : (w \o v)[i] = IF i <= Len(w) THEN w[i] ELSE v[i - Len(w)]
  BY <1>3, <1>4, ConcatProperties
<1>7. \A i \in 1 .. Len(s) + 1 : (w \o v)[i] = IF i < k THEN s[i] ELSE IF i = k THEN e ELSE s[i - 1]
  <2>1. SUFFICES ASSUME NEW i \in 1 .. Len(s) + 1
                 PROVE  (w \o v)[i] = IF i < k THEN s[i] ELSE IF i = k THEN e ELSE s[i - 1]
    OBVIOUS
  <2>2. i \in 1 .. Len(w) + Len(v)
    BY <1>1, <1>3, <1>4
  <2>3. CASE i <= k
    BY <1>1, <1>4, <1>6, <2>2, <2>3
  <2>4. CASE ~(i <= k)
    <3>1. i - k \in 1 .. Len(s) - k + 1 /\ k + (i - k) - 1 = i - 1
      BY <1>1, <2>4
    <3> QED  BY <1>1, <1>3, <1>4, <1>6, <2>2, <2>4, <3>1
  <2> QED  BY <2>3, <2>4
<1>8. Len(w \o v) = Len(s) + 1
  BY <1>1, <1>3, <1>4, <1>6
<1> QED  BY <1>5, <1>6, <1>7, <1>8 DEF Longer

-----------------------------------------------------------------------------
(* Lists of children.                                                      *)

LinkTyped(L) == L \in [Entity -> Link]

\* What the links say when the children of p are s.
Listed(L, p, s) ==
    /\ s \in Seq(Entity) /\ Distinct(s)
    /\ L[p].first = At(s, 1) /\ L[p].last = At(s, Len(s)) /\ L[p].count = Len(s)
    /\ \A i \in 1 .. Len(s) : /\ L[s[i]].parent = p
                              /\ L[s[i]].previous = At(s, i - 1)
                              /\ L[s[i]].next = At(s, i + 1)

LEMMA LinkFields ==
  ASSUME NEW L, LinkTyped(L)
  PROVE  /\ ParentTyped(L)
         /\ \A e \in Entity : /\ L[e] \in Link
                              /\ L[e].parent \in Entity \cup {Null} /\ L[e].first \in Entity \cup {Null}
                              /\ L[e].last \in Entity \cup {Null} /\ L[e].next \in Entity \cup {Null}
                              /\ L[e].previous \in Entity \cup {Null} /\ L[e].count \in Count
BY DEF LinkTyped, Link, ParentTyped

LEMMA AtIs ==
  ASSUME NEW s \in Seq(Entity)
  PROVE  /\ Len(s) \in Nat
         /\ \A i \in 1 .. Len(s) : s[i] \in Entity /\ At(s, i) = s[i] /\ At(s, i) # Null
         /\ \A i \in Int : ~(i \in 1 .. Len(s)) => At(s, i) = Null
         /\ \A i \in Int : At(s, i) \in Entity \cup {Null}
BY EntityAssumption DEF At

\* A list without repetition is not longer than there are entities.
LEMMA ShortList ==
  ASSUME NEW s \in Seq(Entity), Distinct(s)
  PROVE  Len(s) <= Cardinality(Entity) /\ Len(s) \in Count
<1>0. PICK N \in Nat : N = Cardinality(Entity)
  BY DepthIs
<1>1. PICK k \in Nat : k = Len(s)
  BY AtIs
<1>2. s \in Injection(1 .. k, Entity)
  <2>1. s \in [1 .. k -> Entity]
    BY <1>1
  <2> QED  BY <1>1, <2>1 DEF Distinct, Injection, IsInjective
<1>3. IsFiniteSet(1 .. k) /\ Cardinality(1 .. k) = k
  <2>1. Cardinality(1 .. k) = (IF 1 > k THEN 0 ELSE k - 1 + 1) /\ IsFiniteSet(1 .. k)
    BY FS_Interval
  <2> QED  BY <2>1
<1>4. Cardinality(1 .. k) <= Cardinality(Entity)
  BY <1>2, EntityAssumption, FS_Injection
<1> QED  BY <1>0, <1>1, <1>3, <1>4 DEF Count

\* getChildren of such a p returns s.
LEMMA ChildrenAre ==
  ASSUME NEW L, LinkTyped(L), NEW p \in Entity, NEW s, Listed(L, p, s)
  PROVE  Children(L, p) = s
<1> DEFINE D == Entity \cup {Null}
           on == [x \in D |-> IF x = Null THEN Null ELSE L[x].next]
           at == Rounds(on, L[p].first)
<1>0. PICK N \in Nat : N = Cardinality(Entity)
  BY DepthIs
<1>1. on \in [D -> D] /\ L[p].first \in D
  BY LinkFields
<1>2. s \in Seq(Entity) /\ Len(s) \in Nat /\ Len(s) <= N
  BY <1>0, ShortList, AtIs DEF Listed
<1>3. /\ at \in [Depth -> D] /\ at[0] = L[p].first
      /\ \A n \in 1 .. N : at[n] = on[at[n - 1]]
  <2> HIDE DEF D, on
  <2> QED  BY <1>0, <1>1, RoundsAre
<1>4. \A n \in 0 .. N : at[n] = At(s, n + 1)
  <2> DEFINE T == {n \in 0 .. N : at[n] = At(s, n + 1)}
  <2> HIDE DEF at
  <2>1. 0 \in T
    BY <1>3 DEF Listed
  <2>2. \A n \in 1 .. N : n - 1 \in T => n \in T
    <3>1. SUFFICES ASSUME NEW n \in 1 .. N, n - 1 \in T PROVE at[n] = At(s, n + 1)
      OBVIOUS
    <3>2. at[n] = on[At(s, n)]
      <4>1. (n - 1) + 1 = n
        OBVIOUS
      <4>2. at[n - 1] = At(s, n)
        BY <3>1, <4>1
      <4> QED  BY <1>3, <4>2
    <3>3. CASE n \in 1 .. Len(s)
      BY <1>2, <3>2, <3>3, AtIs DEF Listed
    <3>4. CASE ~(n \in 1 .. Len(s))
      <4>1. ~(n + 1 \in 1 .. Len(s)) /\ n \in Int /\ n + 1 \in Int
        BY <1>2, <3>4
      <4> QED  BY <1>2, <3>2, <3>4, <4>1, AtIs
    <3> QED  BY <3>3, <3>4
  <2> HIDE DEF T
  <2>3. \A n \in 0 .. N : n \in T
    BY <2>1, <2>2, EveryNumber
  <2> QED  BY <2>3 DEF T
<1>5. {n \in Depth : at[n] # Null} = 0 .. (Len(s) - 1)
  <2> HIDE DEF at
  <2>1. \A n \in 0 .. N : at[n] # Null <=> n \in 0 .. (Len(s) - 1)
    <3>1. SUFFICES ASSUME NEW n \in 0 .. N PROVE at[n] # Null <=> n \in 0 .. (Len(s) - 1)
      OBVIOUS
    <3>2. n + 1 \in Int /\ (n + 1 \in 1 .. Len(s) <=> n \in 0 .. (Len(s) - 1))
      BY <1>2
    <3> QED  BY <1>2, <1>4, <3>2, AtIs
  <2>2. \A n \in 0 .. (Len(s) - 1) : n \in 0 .. N
    BY <1>2
  <2> QED  BY <1>0, <2>1, <2>2 DEF Depth
<1>6. Cardinality(0 .. (Len(s) - 1)) = Len(s)
  <2>1. PICK k \in Int : k = Len(s) - 1
    BY <1>2
  <2>2. Cardinality(0 .. k) = IF 0 > k THEN 0 ELSE k - 0 + 1
    BY FS_Interval
  <2> QED  BY <1>2, <2>1, <2>2
<1>7. Children(L, p) = [n \in 1 .. Len(s) |-> at[n - 1]]
  BY <1>5, <1>6 DEF Children
<1>8. \A n \in 1 .. Len(s) : at[n - 1] = s[n]
  <2> HIDE DEF at
  <2>1. SUFFICES ASSUME NEW n \in 1 .. Len(s) PROVE at[n - 1] = s[n]
    OBVIOUS
  <2>2. n - 1 \in 0 .. N /\ (n - 1) + 1 = n
    BY <1>2
  <2> QED  BY <1>2, <1>4, <2>2, AtIs
<1>9. s = [n \in 1 .. Len(s) |-> s[n]]
  BY <1>2
<1> HIDE DEF at
<1> QED  BY <1>7, <1>8, <1>9

\* The members of such sequences, and Null on both sides of them.
LEMMA AtShorter ==
  ASSUME NEW s \in Seq(Entity), NEW k \in 1 .. Len(s), NEW t, Shorter(s, k, t)
  PROVE  \A i \in Int : At(t, i) = IF i < k THEN At(s, i) ELSE At(s, i + 1)
<1>1. Len(s) \in Nat /\ Len(t) = Len(s) - 1
  BY AtIs DEF Shorter
<1>2. SUFFICES ASSUME NEW i \in Int PROVE At(t, i) = IF i < k THEN At(s, i) ELSE At(s, i + 1)
  OBVIOUS
<1>3. CASE i \in 1 .. Len(s) - 1
  <2>1. i \in 1 .. Len(t) /\ i \in 1 .. Len(s) /\ i + 1 \in 1 .. Len(s)
    BY <1>1, <1>3
  <2> QED  BY <1>3, <2>1 DEF At, Shorter
<1>4. CASE ~(i \in 1 .. Len(s) - 1)
  <2>1. ~(i \in 1 .. Len(t)) /\ (i < k => ~(i \in 1 .. Len(s))) /\ (~(i < k) => ~(i + 1 \in 1 .. Len(s)))
    BY <1>1, <1>4
  <2> QED  BY <2>1 DEF At
<1> QED  BY <1>3, <1>4

LEMMA AtLonger ==
  ASSUME NEW s \in Seq(Entity), NEW k \in 1 .. Len(s) + 1, NEW e \in Entity, NEW t, Longer(s, k, e, t)
  PROVE  \A i \in Int : At(t, i) = IF i < k THEN At(s, i) ELSE IF i = k THEN e ELSE At(s, i - 1)
<1>1. Len(s) \in Nat /\ Len(t) = Len(s) + 1
  BY AtIs DEF Longer
<1>2. SUFFICES ASSUME NEW i \in Int
               PROVE  At(t, i) = IF i < k THEN At(s, i) ELSE IF i = k THEN e ELSE At(s, i - 1)
  OBVIOUS
<1>3. CASE i \in 1 .. Len(s) + 1
  <2>1. i \in 1 .. Len(t) /\ (i < k => i \in 1 .. Len(s)) /\ (i > k => i - 1 \in 1 .. Len(s))
    BY <1>1, <1>3
  <2> QED  BY <1>3, <2>1 DEF At, Longer
<1>4. CASE ~(i \in 1 .. Len(s) + 1)
  <2>1. ~(i \in 1 .. Len(t)) /\ (i < k => ~(i \in 1 .. Len(s))) /\ i # k /\ (i > k => ~(i - 1 \in 1 .. Len(s)))
    BY <1>1, <1>4
  <2> QED  BY <2>1 DEF At
<1> QED  BY <1>3, <1>4

\* In sequences without repetition a member has one place.
LEMMA DistinctAt ==
  ASSUME NEW s \in Seq(Entity), Distinct(s)
  PROVE  \A i, j \in Int : At(s, i) = At(s, j) /\ At(s, i) # Null => i = j
BY DEF At, Distinct

LEMMA AtDistinct ==
  ASSUME NEW s \in Seq(Entity), \A i, j \in Int : At(s, i) = At(s, j) /\ At(s, i) # Null => i = j
  PROVE  Distinct(s)
<1>1. \A i \in 1 .. Len(s) : i \in Int /\ At(s, i) = s[i] /\ s[i] # Null
  BY AtIs
<1> QED  BY <1>1 DEF Distinct

LEMMA ShorterDistinct ==
  ASSUME NEW s \in Seq(Entity), NEW k \in 1 .. Len(s), NEW t, Shorter(s, k, t), Distinct(s)
  PROVE  Distinct(t) /\ \A i \in Int : At(t, i) # s[k]
<1>1. \A i \in Int : At(t, i) = IF i < k THEN At(s, i) ELSE At(s, i + 1)
  BY AtShorter
<1>2. \A i, j \in Int : At(s, i) = At(s, j) /\ At(s, i) # Null => i = j
  BY DistinctAt
<1>3. t \in Seq(Entity)
  BY DEF Shorter
<1>4. \A i, j \in Int : At(t, i) = At(t, j) /\ At(t, i) # Null => i = j
  <2>1. SUFFICES ASSUME NEW i \in Int, NEW j \in Int, At(t, i) = At(t, j), At(t, i) # Null PROVE i = j
    OBVIOUS
  <2>2. i + 1 \in Int /\ j + 1 \in Int
    OBVIOUS
  <2>3. PICK u \in Int : u = IF i < k THEN i ELSE i + 1
    BY <2>2
  <2>4. PICK v \in Int : v = IF j < k THEN j ELSE j + 1
    BY <2>2
  <2>5. At(s, u) = At(t, i) /\ At(s, v) = At(t, j)
    BY <1>1, <2>3, <2>4
  <2>6. u = v
    BY <1>2, <2>1, <2>5
  <2> QED  BY <2>3, <2>4, <2>6
<1>5. ASSUME NEW i \in Int, At(t, i) = s[k] PROVE FALSE
  <2>1. i + 1 \in Int /\ k \in Int
    OBVIOUS
  <2>2. At(s, k) = s[k] /\ s[k] # Null
    BY AtIs
  <2>3. PICK u \in Int : u = IF i < k THEN i ELSE i + 1
    BY <2>1
  <2>4. At(s, u) = At(t, i)
    BY <1>1, <2>3
  <2>5. u = k
    BY <1>2, <1>5, <2>1, <2>2, <2>4
  <2> QED  BY <2>3, <2>5
<1> QED  BY <1>3, <1>4, <1>5, AtDistinct

LEMMA LongerDistinct ==
  ASSUME NEW s \in Seq(Entity), NEW k \in 1 .. Len(s) + 1, NEW e \in Entity, NEW t, Longer(s, k, e, t),
         Distinct(s), \A i \in 1 .. Len(s) : s[i] # e
  PROVE  Distinct(t)
<1>1. \A i \in Int : At(t, i) = IF i < k THEN At(s, i) ELSE IF i = k THEN e ELSE At(s, i - 1)
  BY AtLonger
<1>2. \A i, j \in Int : At(s, i) = At(s, j) /\ At(s, i) # Null => i = j
  BY DistinctAt
<1>3. \A i \in Int : At(s, i) # e
  BY EntityAssumption DEF At
<1>4. t \in Seq(Entity)
  BY DEF Longer
<1>5. \A i, j \in Int : At(t, i) = At(t, j) /\ At(t, i) # Null => i = j
  <2>1. SUFFICES ASSUME NEW i \in Int, NEW j \in Int, At(t, i) = At(t, j), At(t, i) # Null PROVE i = j
    OBVIOUS
  <2>2. i - 1 \in Int /\ j - 1 \in Int
    OBVIOUS
  <2>3. PICK u \in Int : u = IF i < k THEN i ELSE i - 1
    BY <2>2
  <2>4. PICK v \in Int : v = IF j < k THEN j ELSE j - 1
    BY <2>2
  <2>5. (i # k => At(s, u) = At(t, i)) /\ (j # k => At(s, v) = At(t, j))
    BY <1>1, <2>3, <2>4
  <2>6. (i = k => At(t, i) = e) /\ (j = k => At(t, j) = e)
    BY <1>1
  <2>7. CASE i # k /\ j # k
    <3>1. u = v
      BY <1>2, <2>1, <2>5, <2>7
    <3> QED  BY <2>3, <2>4, <2>7, <3>1
  <2>8. CASE i = k /\ j # k
    BY <1>3, <2>1, <2>5, <2>6, <2>8
  <2>9. CASE i # k /\ j = k
    BY <1>3, <2>1, <2>5, <2>6, <2>9
  <2> QED  BY <2>7, <2>8, <2>9
<1> QED  BY <1>4, <1>5, AtDistinct

-----------------------------------------------------------------------------
(* The lists of a forest.                                                  *)

\* The links say that the children of each are those of K: every entity with
\* a parent is in the list of it, and one without has no sibling.
Woven(L, K) ==
    /\ K \in [Entity -> Seq(Entity)]
    /\ \A p \in Entity : Listed(L, p, K[p])
    /\ \A x \in Entity : IF L[x].parent = Null THEN L[x].next = Null /\ L[x].previous = Null
                         ELSE \E i \in 1 .. Len(K[L[x].parent]) : K[L[x].parent][i] = x

LEMMA NotOwnParent ==
  ASSUME NEW L, Rooted(L), NEW x \in Entity
  PROVE  L[x].parent # x
<1>1. {x} \in SUBSET Entity /\ {x} # {}
  OBVIOUS
<1> QED  BY <1>1 DEF Rooted

\* The place of a child among its siblings.
LEMMA Placing ==
  ASSUME NEW L, NEW K, LinkTyped(L), Woven(L, K), Rooted(L), NEW c \in Entity, L[c].parent # Null
  PROVE  LET p == L[c].parent
             a == L[c].previous
             b == L[c].next
         IN  /\ p \in Entity /\ p # c /\ a # c /\ b # c /\ (a # Null => a # b)
             /\ a # p /\ b # p
             /\ \E k \in 1 .. Len(K[p]) : /\ K[p][k] = c
                                          /\ a = At(K[p], k - 1) /\ b = At(K[p], k + 1)
             /\ L[p].count # 0
<1> DEFINE p == L[c].parent
           a == L[c].previous
           b == L[c].next
           s == K[p]
<1>1. p \in Entity /\ p # c
  BY LinkFields, NotOwnParent
<1>2. PICK k \in 1 .. Len(s) : s[k] = c
  BY DEF Woven
<1>3. Listed(L, p, s)
  BY <1>1 DEF Woven
<1> HIDE DEF s, p
<1>4. s \in Seq(Entity) /\ Len(s) \in Nat /\ Distinct(s)
  BY <1>3, AtIs DEF Listed
<1>5. a = At(s, k - 1) /\ b = At(s, k + 1)
  BY <1>2, <1>3 DEF Listed
<1>6. \A i, j \in Int : At(s, i) = At(s, j) /\ At(s, i) # Null => i = j
  BY <1>4, DistinctAt
<1>7. At(s, k) = c /\ c # Null /\ k \in Int /\ k - 1 \in Int /\ k + 1 \in Int
  BY <1>2, <1>4, AtIs
<1>8. a # c /\ b # c /\ (a # Null => a # b)
  <2> HIDE DEF a, b
  <2>1. k - 1 # k /\ k + 1 # k /\ k - 1 # k + 1
    OBVIOUS
  <2> QED  BY <1>5, <1>6, <1>7, <2>1
<1>9. \A i \in Int : At(s, i) # p
  <2>1. SUFFICES ASSUME NEW i \in Int, At(s, i) = p PROVE FALSE
    OBVIOUS
  <2>2. i \in 1 .. Len(s) /\ s[i] = p
    BY <1>1, <2>1, EntityAssumption DEF At
  <2>3. L[p].parent = p
    BY <1>3, <2>2 DEF Listed
  <2> QED  BY <1>1, <2>3, NotOwnParent
<1>10. L[p].count # 0
  BY <1>2, <1>3, <1>4 DEF Listed
<1>11. a # p /\ b # p
  BY <1>5, <1>7, <1>9
<1> QED  BY <1>1, <1>2, <1>5, <1>8, <1>10, <1>11 DEF p, s

\* The links once c has left its parent.
Freeing(L, c, F) ==
    LET p == L[c].parent
        a == L[c].previous
        b == L[c].next
    IN  /\ LinkTyped(F)
        /\ \A e \in Entity :
             /\ F[e].parent = IF e = c THEN Null ELSE L[e].parent
             /\ F[e].previous = IF e = c THEN Null ELSE IF e = b THEN a ELSE L[e].previous
             /\ F[e].next = IF e = c THEN Null ELSE IF e = a THEN b ELSE L[e].next
             /\ F[e].first = IF e = p /\ a = Null THEN b ELSE L[e].first
             /\ F[e].last = IF e = p /\ b = Null THEN a ELSE L[e].last
             /\ F[e].count = IF e = p THEN L[e].count - 1 ELSE L[e].count

WithNext(l, x) == [l EXCEPT !.next = x]
WithPrevious(l, x) == [l EXCEPT !.previous = x]

LEMMA LinkWith ==
  ASSUME NEW l \in Link, NEW x \in Entity \cup {Null}
  PROVE  /\ WithNext(l, x) \in Link /\ WithNext(l, x).next = x
         /\ WithNext(l, x).parent = l.parent /\ WithNext(l, x).previous = l.previous
         /\ WithNext(l, x).first = l.first /\ WithNext(l, x).last = l.last
         /\ WithNext(l, x).count = l.count
         /\ WithPrevious(l, x) \in Link /\ WithPrevious(l, x).previous = x
         /\ WithPrevious(l, x).parent = l.parent /\ WithPrevious(l, x).next = l.next
         /\ WithPrevious(l, x).first = l.first /\ WithPrevious(l, x).last = l.last
         /\ WithPrevious(l, x).count = l.count
BY DEF Link, WithNext, WithPrevious

LEMMA UnlinkedIs ==
  ASSUME NEW L, NEW K, LinkTyped(L), Woven(L, K), Rooted(L), NEW c \in Entity, L[c].parent # Null
  PROVE  LET p == L[c].parent
             a == L[c].previous
             b == L[c].next
             U == Unlinked(L, c)
         IN  /\ LinkTyped(U)
             /\ \A e \in Entity :
                  /\ U[e].parent = L[e].parent
                  /\ U[e].previous = IF e = b THEN a ELSE L[e].previous
                  /\ U[e].next = IF e = a THEN b ELSE L[e].next
                  /\ U[e].first = IF e = p /\ a = Null THEN b ELSE L[e].first
                  /\ U[e].last = IF e = p /\ b = Null THEN a ELSE L[e].last
                  /\ U[e].count = IF e = p THEN L[e].count - 1 ELSE L[e].count
<1> DEFINE p == L[c].parent
           a == L[c].previous
           b == L[c].next
           U == Unlinked(L, c)
<1>1. /\ p \in Entity /\ p # c /\ a # c /\ b # c /\ (a # Null => a # b)
      /\ a # p /\ b # p /\ L[p].count # 0
  BY Placing
<1>2. a \in Entity \cup {Null} /\ b \in Entity \cup {Null} /\ \A e \in Entity : L[e] \in Link
  BY LinkFields
<1>3. U = [e \in Entity |->
             CASE e = p -> [L[p] EXCEPT !.first = IF a = Null THEN b ELSE @,
                                        !.last = IF b = Null THEN a ELSE @,
                                        !.count = @ - 1]
               [] e = a -> [L[a] EXCEPT !.next = b]
               [] e = b -> [L[b] EXCEPT !.previous = a]
               [] OTHER -> L[e]]
  BY DEF Unlinked, Uncounted
<1> HIDE DEF p, a, b, U
<1>4. /\ L[p] \in Link
      /\ U[p] = [L[p] EXCEPT !.first = IF a = Null THEN b ELSE @,
                             !.last = IF b = Null THEN a ELSE @,
                             !.count = @ - 1]
  BY <1>1, <1>2, <1>3
<1>5. a \in Entity => L[a] \in Link /\ U[a] = [L[a] EXCEPT !.next = b]
  BY <1>1, <1>2, <1>3, EntityAssumption
<1>6. b \in Entity => L[b] \in Link /\ U[b] = [L[b] EXCEPT !.previous = a]
  BY <1>1, <1>2, <1>3, EntityAssumption
<1>7. \A e \in Entity \ {p} : e # a /\ e # b => U[e] = L[e]
  BY <1>1, <1>2, <1>3
<1>8. \A n \in Count : n # 0 => n - 1 \in Count
  BY DepthIs DEF Count
<1> DEFINE OK(e) ==
             /\ U[e] \in Link
             /\ U[e].parent = L[e].parent
             /\ U[e].previous = IF e = b THEN a ELSE L[e].previous
             /\ U[e].next = IF e = a THEN b ELSE L[e].next
             /\ U[e].first = IF e = p /\ a = Null THEN b ELSE L[e].first
             /\ U[e].last = IF e = p /\ b = Null THEN a ELSE L[e].last
             /\ U[e].count = IF e = p THEN L[e].count - 1 ELSE L[e].count
<1>9. OK(p)
  <2>1. L[p].count - 1 \in Count
    BY <1>1, <1>4, <1>8 DEF Link
  <2> QED  BY <1>1, <1>2, <1>4, <2>1 DEF Link
<1>10. ASSUME NEW e \in Entity, e # p PROVE OK(e)
  <2>1. L[e] \in Link
    BY <1>2
  <2>2. CASE e = a
    <3>1. e # b
      BY <1>1, <2>2, EntityAssumption
    <3>2. U[e] = WithNext(L[e], b)
      BY <1>5, <2>2 DEF WithNext
    <3>3. /\ U[e] \in Link /\ U[e].next = b /\ U[e].parent = L[e].parent /\ U[e].previous = L[e].previous
          /\ U[e].first = L[e].first /\ U[e].last = L[e].last /\ U[e].count = L[e].count
      <4>1. LET n == WithNext(L[e], b)
            IN  /\ n \in Link /\ n.next = b /\ n.parent = L[e].parent /\ n.previous = L[e].previous
                /\ n.first = L[e].first /\ n.last = L[e].last /\ n.count = L[e].count
        BY <1>2, <2>1, LinkWith
      <4> QED  BY <3>2, <4>1
    <3> QED  BY <1>10, <2>2, <3>1, <3>3
  <2>3. CASE e # a /\ e = b
    <3>1. U[e] = WithPrevious(L[e], a)
      BY <1>6, <2>3 DEF WithPrevious
    <3>2. /\ U[e] \in Link /\ U[e].previous = a /\ U[e].parent = L[e].parent /\ U[e].next = L[e].next
          /\ U[e].first = L[e].first /\ U[e].last = L[e].last /\ U[e].count = L[e].count
      <4>1. LET m == WithPrevious(L[e], a)
            IN  /\ m \in Link /\ m.previous = a /\ m.parent = L[e].parent /\ m.next = L[e].next
                /\ m.first = L[e].first /\ m.last = L[e].last /\ m.count = L[e].count
        BY <1>2, <2>1, LinkWith
      <4> QED  BY <3>1, <4>1
    <3> QED  BY <1>10, <2>3, <3>2
  <2>4. CASE e # a /\ e # b
    BY <1>2, <1>7, <1>10, <2>1, <2>4 DEF Link
  <2> QED  BY <2>2, <2>3, <2>4
<1>11. \A e \in Entity : OK(e)
  BY <1>9, <1>10
<1>12. U \in [Entity -> Link]
  <2>1. \A e \in Entity : U[e] \in Link
    BY <1>11
  <2> QED  BY <1>3, <2>1
<1> QED  BY <1>11, <1>12 DEF p, a, b, U, LinkTyped

LEMMA FreedIs ==
  ASSUME NEW L, NEW K, LinkTyped(L), Woven(L, K), Rooted(L), NEW c \in Entity, L[c].parent # Null
  PROVE  Freeing(L, c, Freed(L, c))
<1> DEFINE p == L[c].parent
           a == L[c].previous
           b == L[c].next
           U == Unlinked(L, c)
           F == Freed(L, c)
<1>1. p # c
  BY Placing
<1>2. /\ U \in [Entity -> Link]
      /\ \A e \in Entity :
           /\ U[e].parent = L[e].parent
           /\ U[e].previous = IF e = b THEN a ELSE L[e].previous
           /\ U[e].next = IF e = a THEN b ELSE L[e].next
           /\ U[e].first = IF e = p /\ a = Null THEN b ELSE L[e].first
           /\ U[e].last = IF e = p /\ b = Null THEN a ELSE L[e].last
           /\ U[e].count = IF e = p THEN L[e].count - 1 ELSE L[e].count
  BY UnlinkedIs DEF LinkTyped
<1>3. F = [U EXCEPT ![c].parent = Null, ![c].previous = Null, ![c].next = Null]
  BY DEF Freed
<1> HIDE DEF p, a, b, U, F
<1>4. U[c] \in Link /\ F \in [Entity -> Link]
      /\ (\A e \in Entity \ {c} : F[e] = U[e])
      /\ F[c].parent = Null /\ F[c].previous = Null /\ F[c].next = Null
      /\ F[c].first = U[c].first /\ F[c].last = U[c].last /\ F[c].count = U[c].count
  <2>1. U[c] \in Link
    BY <1>2
  <2>2. F = [U EXCEPT ![c] = [U[c] EXCEPT !.parent = Null, !.previous = Null, !.next = Null]]
    BY <1>2, <1>3, <2>1 DEF Link
  <2> DEFINE R == [U[c] EXCEPT !.parent = Null, !.previous = Null, !.next = Null]
  <2>3. /\ R \in Link /\ R.parent = Null /\ R.previous = Null /\ R.next = Null
        /\ R.first = U[c].first /\ R.last = U[c].last /\ R.count = U[c].count
    BY <2>1 DEF Link
  <2> HIDE DEF R
  <2>4. F = [U EXCEPT ![c] = R]
    BY <2>2 DEF R
  <2> QED  BY <1>2, <2>1, <2>3, <2>4
<1>5. \A e \in Entity :
           /\ F[e].parent = IF e = c THEN Null ELSE L[e].parent
           /\ F[e].previous = IF e = c THEN Null ELSE IF e = b THEN a ELSE L[e].previous
           /\ F[e].next = IF e = c THEN Null ELSE IF e = a THEN b ELSE L[e].next
           /\ F[e].first = IF e = p /\ a = Null THEN b ELSE L[e].first
           /\ F[e].last = IF e = p /\ b = Null THEN a ELSE L[e].last
           /\ F[e].count = IF e = p THEN L[e].count - 1 ELSE L[e].count
  BY <1>1, <1>2, <1>4
<1> QED  BY <1>4, <1>5 DEF p, a, b, F, Freeing, LinkTyped

\* The lists without c.
Without(K, c) == [q \in Entity |-> RemoveFirst(K[q], c)]

LEMMA WithoutIs ==
  ASSUME NEW L, NEW K, Woven(L, K), NEW c \in Entity
  PROVE  LET p == L[c].parent
             W == Without(K, c)
         IN  /\ W \in [Entity -> Seq(Entity)]
             /\ \A q \in Entity : q # p => W[q] = K[q]
             /\ p \in Entity => \A k \in 1 .. Len(K[p]) : K[p][k] = c => Shorter(K[p], k, W[p])
             /\ \A q \in Entity : \A i \in 1 .. Len(W[q]) : W[q][i] # c
<1> DEFINE p == L[c].parent
           W == Without(K, c)
<1>1. \A q \in Entity : K[q] \in Seq(Entity) /\ Distinct(K[q]) /\ W[q] = RemoveFirst(K[q], c)
  BY DEF Woven, Listed, Without
<1>2. \A q \in Entity : \A i \in 1 .. Len(K[q]) : L[K[q][i]].parent = q
  BY DEF Woven, Listed
<1>3. \A q \in Entity : q # p => W[q] = K[q]
  BY <1>1, <1>2, RemovedFirst
<1>4. p \in Entity => \A k \in 1 .. Len(K[p]) : K[p][k] = c => Shorter(K[p], k, W[p])
  <2> HIDE DEF W
  <2>1. SUFFICES ASSUME p \in Entity, NEW k \in 1 .. Len(K[p]), K[p][k] = c
                 PROVE  Shorter(K[p], k, W[p])
    OBVIOUS
  <2>2. RemoveFirst(K[p], c) = RemoveAt(K[p], k)
    BY <1>1, <2>1, RemovedFirst
  <2> QED  BY <1>1, <2>1, <2>2, RemovedAt
<1>5. p \in Entity => \E k \in 1 .. Len(K[p]) : K[p][k] = c
  BY EntityAssumption DEF Woven
<1>6. p \in Entity => W[p] \in Seq(Entity) /\ \A i \in 1 .. Len(W[p]) : W[p][i] # c
  <2>1. SUFFICES ASSUME p \in Entity PROVE W[p] \in Seq(Entity) /\ \A i \in 1 .. Len(W[p]) : W[p][i] # c
    OBVIOUS
  <2>2. PICK k \in 1 .. Len(K[p]) : K[p][k] = c
    BY <1>5, <2>1
  <2> HIDE DEF W, p
  <2>3. Shorter(K[p], k, W[p]) /\ K[p] \in Seq(Entity) /\ Distinct(K[p])
    BY <1>1, <1>4, <2>1, <2>2
  <2>4. W[p] \in Seq(Entity)
    BY <2>3 DEF Shorter
  <2>5. \A i \in Int : At(W[p], i) # c
    BY <2>2, <2>3, ShorterDistinct
  <2>6. \A i \in 1 .. Len(W[p]) : W[p][i] # c
    BY <2>4, <2>5, AtIs
  <2> QED  BY <2>4, <2>6
<1>7. W \in [Entity -> Seq(Entity)]
  <2>1. \A q \in Entity : W[q] \in Seq(Entity)
    BY <1>1, <1>3, <1>6
  <2>2. W = [q \in Entity |-> W[q]]
    BY DEF Without
  <2> HIDE DEF W
  <2> QED  BY <2>1, <2>2
<1>8. \A q \in Entity : \A i \in 1 .. Len(W[q]) : W[q][i] # c
  <2> HIDE DEF W
  <2> QED  BY <1>2, <1>3, <1>6
<1> QED  BY <1>3, <1>4, <1>7, <1>8

\* Once c has left, the lists are those without it.
LEMMA FreedWoven ==
  ASSUME NEW L, NEW K, LinkTyped(L), Woven(L, K), Rooted(L), NEW c \in Entity, L[c].parent # Null
  PROVE  /\ LinkTyped(Freed(L, c))
         /\ Woven(Freed(L, c), Without(K, c))
         /\ \A e \in Entity : Freed(L, c)[e].parent = IF e = c THEN Null ELSE L[e].parent
<1> DEFINE p == L[c].parent
           a == L[c].previous
           b == L[c].next
           F == Freed(L, c)
           W == Without(K, c)
<1>1. /\ p \in Entity /\ p # c /\ a # c /\ b # c /\ (a # Null => a # b)
      /\ a # p /\ b # p /\ L[p].count # 0
  BY Placing
<1>2. PICK k \in 1 .. Len(K[p]) : K[p][k] = c /\ a = At(K[p], k - 1) /\ b = At(K[p], k + 1)
  BY Placing
<1>3. /\ LinkTyped(F)
      /\ \A e \in Entity :
           /\ F[e].parent = IF e = c THEN Null ELSE L[e].parent
           /\ F[e].previous = IF e = c THEN Null ELSE IF e = b THEN a ELSE L[e].previous
           /\ F[e].next = IF e = c THEN Null ELSE IF e = a THEN b ELSE L[e].next
           /\ F[e].first = IF e = p /\ a = Null THEN b ELSE L[e].first
           /\ F[e].last = IF e = p /\ b = Null THEN a ELSE L[e].last
           /\ F[e].count = IF e = p THEN L[e].count - 1 ELSE L[e].count
  BY FreedIs DEF Freeing
<1>4. /\ W \in [Entity -> Seq(Entity)]
      /\ \A q \in Entity : q # p => W[q] = K[q]
      /\ Shorter(K[p], k, W[p])
  BY <1>1, <1>2, WithoutIs
<1>5. \A q \in Entity : Listed(L, q, K[q])
  BY DEF Woven
<1> HIDE DEF F, W
<1> DEFINE s == K[p]
           t == W[p]
<1>6. s \in Seq(Entity) /\ t \in Seq(Entity) /\ Distinct(s) /\ Len(s) \in Nat /\ Len(t) = Len(s) - 1
  BY <1>1, <1>4, <1>5, AtIs DEF Listed, Shorter
<1>7. Listed(L, p, s) /\ s[k] = c /\ a = At(s, k - 1) /\ b = At(s, k + 1) /\ Shorter(s, k, t)
  BY <1>1, <1>2, <1>4, <1>5
<1>8. k \in 1 .. Len(s)
  OBVIOUS
<1> HIDE DEF s, t, p, a, b
<1>9. \A i \in Int : At(t, i) = IF i < k THEN At(s, i) ELSE At(s, i + 1)
  BY <1>6, <1>7, <1>8, AtShorter
<1>10. \A i, j \in Int : At(s, i) = At(s, j) /\ At(s, i) # Null => i = j
  BY <1>6, DistinctAt
<1>11. At(s, k) = c /\ c # Null
  BY <1>6, <1>7, <1>8, AtIs
<1>12. Listed(F, p, t)
  <2>1. t \in Seq(Entity) /\ Distinct(t)
    BY <1>6, <1>7, <1>8, ShorterDistinct
  <2>2. F[p].first = At(t, 1)
    <3>1. At(t, 1) = IF 1 < k THEN At(s, 1) ELSE At(s, 2)
      BY <1>9
    <3>2. F[p].first = IF a = Null THEN b ELSE At(s, 1)
      BY <1>1, <1>3, <1>7 DEF Listed
    <3>3. CASE k = 1
      <4>1. a = Null
        BY <1>6, <1>7, <3>3, AtIs
      <4> QED  BY <1>7, <3>1, <3>2, <3>3, <4>1
    <3>4. CASE 1 < k
      <4>1. a # Null
        <5>1. k - 1 \in 1 .. Len(s)
          BY <1>6, <1>8, <3>4
        <5> QED  BY <1>6, <1>7, <5>1, AtIs
      <4> QED  BY <3>1, <3>2, <3>4, <4>1
    <3> QED  BY <1>8, <3>3, <3>4
  <2>3. F[p].last = At(t, Len(t))
    <3>1. At(t, Len(t)) = IF Len(s) - 1 < k THEN At(s, Len(s) - 1) ELSE At(s, Len(s))
      <4>1. Len(s) - 1 \in Int /\ (Len(s) - 1) + 1 = Len(s)
        BY <1>6
      <4> QED  BY <1>6, <1>9, <4>1
    <3>2. F[p].last = IF b = Null THEN a ELSE At(s, Len(s))
      BY <1>1, <1>3, <1>7 DEF Listed
    <3>3. CASE k = Len(s)
      <4>1. b = Null
        <5>1. ~(k + 1 \in 1 .. Len(s)) /\ k + 1 \in Int
          BY <1>6, <3>3
        <5> QED  BY <1>6, <1>7, <5>1, AtIs
      <4> QED  BY <1>6, <1>7, <3>1, <3>2, <3>3, <4>1
    <3>4. CASE k < Len(s)
      <4>1. b # Null
        <5>1. k + 1 \in 1 .. Len(s)
          BY <1>6, <1>8, <3>4
        <5> QED  BY <1>6, <1>7, <5>1, AtIs
      <4>2. ~(Len(s) - 1 < k) \/ Len(s) - 1 = k
        BY <1>6, <3>4
      <4> QED  BY <1>6, <3>1, <3>2, <3>4, <4>1, <4>2
    <3> QED  BY <1>6, <1>8, <3>3, <3>4
  <2>4. F[p].count = Len(t)
    BY <1>1, <1>3, <1>6, <1>7 DEF Listed
  <2>5. ASSUME NEW i \in 1 .. Len(t)
        PROVE  F[t[i]].parent = p /\ F[t[i]].previous = At(t, i - 1) /\ F[t[i]].next = At(t, i + 1)
    <3>1. PICK j \in 1 .. Len(s) : j = (IF i < k THEN i ELSE i + 1) /\ j # k
      BY <1>6, <1>8
    <3>2. t[i] = s[j] /\ s[j] \in Entity /\ At(s, j) = s[j] /\ s[j] # Null
      <4>1. At(t, i) = t[i] /\ At(s, j) = s[j] /\ s[j] \in Entity
        BY <1>6, AtIs
      <4>2. At(t, i) = At(s, j)
        BY <1>9, <3>1
      <4> QED  BY <4>1, <4>2, EntityAssumption
    <3>3. L[s[j]].parent = p /\ L[s[j]].previous = At(s, j - 1) /\ L[s[j]].next = At(s, j + 1)
      BY <1>7 DEF Listed
    <3>4. /\ j \in Int /\ k \in Int /\ k - 1 \in Int /\ k + 1 \in Int
          /\ i - 1 \in Int /\ i + 1 \in Int /\ j - 1 \in Int /\ j + 1 \in Int
      OBVIOUS
    <3>5. s[j] # c
      BY <1>10, <1>11, <3>1, <3>2, <3>4
    <3>6. (s[j] = b <=> j = k + 1) /\ (s[j] = a <=> j = k - 1)
      <4>1. s[j] = b => j = k + 1
        BY <1>7, <1>10, <3>2, <3>4
      <4>2. s[j] = a => j = k - 1
        BY <1>7, <1>10, <3>2, <3>4
      <4> QED  BY <1>7, <3>2, <4>1, <4>2
    <3>7. F[s[j]].previous = At(t, i - 1)
      <4>1. F[s[j]].previous = IF j = k + 1 THEN a ELSE At(s, j - 1)
        BY <1>3, <3>2, <3>3, <3>5, <3>6
      <4>2. At(t, i - 1) = IF i - 1 < k THEN At(s, i - 1) ELSE At(s, i)
        <5>1. (i - 1) + 1 = i
          OBVIOUS
        <5> QED  BY <1>9, <3>4, <5>1
      <4>3. CASE j = k + 1
        <5>1. i = k
          BY <3>1, <4>3
        <5> QED  BY <1>7, <4>1, <4>2, <4>3, <5>1
      <4>4. CASE j # k + 1 /\ i < k
        BY <3>1, <4>1, <4>2, <4>4
      <4>5. CASE j # k + 1 /\ ~(i < k)
        <5>1. ~(i - 1 < k) /\ j - 1 = i
          BY <3>1, <4>5
        <5> QED  BY <4>1, <4>2, <4>5, <5>1
      <4> QED  BY <4>3, <4>4, <4>5
    <3>8. F[s[j]].next = At(t, i + 1)
      <4>1. F[s[j]].next = IF j = k - 1 THEN b ELSE At(s, j + 1)
        BY <1>3, <3>2, <3>3, <3>5, <3>6
      <4>2. At(t, i + 1) = IF i + 1 < k THEN At(s, i + 1) ELSE At(s, i + 2)
        <5>1. (i + 1) + 1 = i + 2
          OBVIOUS
        <5> QED  BY <1>9, <3>4, <5>1
      <4>3. CASE j = k - 1
        <5>1. i = j /\ ~(i + 1 < k) /\ i + 2 = k + 1
          BY <3>1, <4>3
        <5> QED  BY <1>7, <4>1, <4>2, <4>3, <5>1
      <4>4. CASE j # k - 1 /\ i < k
        <5>1. i + 1 < k /\ j = i
          BY <3>1, <4>4
        <5> QED  BY <4>1, <4>2, <4>4, <5>1
      <4>5. CASE j # k - 1 /\ ~(i < k)
        <5>1. ~(i + 1 < k) /\ j + 1 = i + 2
          BY <3>1, <4>5
        <5> QED  BY <4>1, <4>2, <4>5, <5>1
      <4> QED  BY <4>3, <4>4, <4>5
    <3> QED  BY <1>3, <3>2, <3>3, <3>5, <3>7, <3>8
  <2> QED  BY <2>1, <2>2, <2>3, <2>4, <2>5 DEF Listed
<1>13. ASSUME NEW i \in Int, At(s, i) # Null PROVE L[At(s, i)].parent = p
  <2>1. i \in 1 .. Len(s) /\ At(s, i) = s[i]
    BY <1>13 DEF At
  <2> QED  BY <1>7, <2>1 DEF Listed
<1>14. (a # Null => L[a].parent = p) /\ (b # Null => L[b].parent = p) /\ L[c].parent = p
  BY <1>7, <1>13 DEF p
<1>15. ASSUME NEW q \in Entity, q # p PROVE Listed(F, q, W[q])
  <2>1. Listed(L, q, K[q]) /\ W[q] = K[q]
    BY <1>4, <1>5, <1>15
  <2>2. ASSUME NEW i \in 1 .. Len(K[q])
        PROVE  LET e == K[q][i] IN F[e].parent = q /\ F[e].previous = L[e].previous /\ F[e].next = L[e].next
    <3>1. K[q][i] \in Entity /\ L[K[q][i]].parent = q /\ K[q][i] # Null
      BY <2>1, EntityAssumption DEF Listed
    <3>2. K[q][i] # c /\ K[q][i] # a /\ K[q][i] # b
      BY <1>14, <1>15, <3>1
    <3> QED  BY <1>3, <3>1, <3>2
  <2>3. F[q].first = L[q].first /\ F[q].last = L[q].last /\ F[q].count = L[q].count
    BY <1>3, <1>15
  <2> QED  BY <2>1, <2>2, <2>3 DEF Listed
<1>16. ASSUME NEW x \in Entity
       PROVE  IF F[x].parent = Null THEN F[x].next = Null /\ F[x].previous = Null
              ELSE \E i \in 1 .. Len(W[F[x].parent]) : W[F[x].parent][i] = x
  <2>1. CASE x = c
    BY <1>3, <2>1
  <2>2. CASE x # c /\ L[x].parent = Null
    <3>1. L[x].next = Null /\ L[x].previous = Null
      BY <2>2 DEF Woven
    <3>2. x # a /\ x # b
      BY <1>1, <1>14, <2>2, EntityAssumption
    <3> QED  BY <1>3, <2>2, <3>1, <3>2
  <2>3. CASE x # c /\ L[x].parent # Null /\ L[x].parent # p
    <3>1. L[x].parent \in Entity /\ \E i \in 1 .. Len(K[L[x].parent]) : K[L[x].parent][i] = x
      BY <2>3, LinkFields DEF Woven
    <3>2. W[L[x].parent] = K[L[x].parent] /\ F[x].parent = L[x].parent
      BY <1>3, <1>4, <2>3, <3>1
    <3> QED  BY <2>3, <3>1, <3>2
  <2>4. CASE x # c /\ L[x].parent = p
    <3>1. PICK j \in 1 .. Len(s) : s[j] = x
      BY <1>1, <2>4, EntityAssumption DEF Woven, s
    <3>2. j # k
      BY <1>7, <2>4, <3>1
    <3>3. PICK i \in 1 .. Len(t) : j = IF i < k THEN i ELSE i + 1
      <4>1. CASE j < k
        <5>1. j \in 1 .. Len(t)
          BY <1>6, <1>8, <4>1
        <5> QED  BY <4>1, <5>1
      <4>2. CASE k < j
        <5>1. j - 1 \in 1 .. Len(t) /\ ~(j - 1 < k) /\ (j - 1) + 1 = j
          BY <1>6, <1>8, <4>2
        <5> QED  BY <5>1
      <4> QED  BY <3>2, <4>1, <4>2
    <3>4. t[i] = x
      BY <1>6, <1>7, <3>1, <3>3 DEF Shorter
    <3> QED  BY <1>1, <1>3, <2>4, <3>4, EntityAssumption DEF t
  <2> QED  BY <2>1, <2>2, <2>3, <2>4
<1>17. Woven(F, W)
  BY <1>4, <1>12, <1>15, <1>16 DEF Woven, t
<1> QED  BY <1>3, <1>17 DEF F, W

\* The links once c is in the list of p between a and b.
Linking(F, c, p, a, b, M) ==
    /\ M \in [Entity -> Link]
    /\ \A e \in Entity :
         /\ M[e].parent = IF e = c THEN p ELSE F[e].parent
         /\ M[e].previous = IF e = c THEN a ELSE IF e = b THEN c ELSE F[e].previous
         /\ M[e].next = IF e = c THEN b ELSE IF e = a THEN c ELSE F[e].next
         /\ M[e].first = IF e = p /\ a = Null THEN c ELSE F[e].first
         /\ M[e].last = IF e = p /\ b = Null THEN c ELSE F[e].last
         /\ M[e].count = IF e = p THEN F[e].count + 1 ELSE F[e].count

LEMMA LinkedIs ==
  ASSUME NEW F, LinkTyped(F), NEW c \in Entity, NEW p \in Entity, p # c,
         NEW a \in Entity \cup {Null}, NEW b \in Entity \cup {Null}, a # c, b # c, a # p, b # p,
         a # Null => a # b, F[p].count + 1 \in Count
  PROVE  Linking(F, c, p, a, b, Linked(F, c, p, a, b))
<1> DEFINE M == Linked(F, c, p, a, b)
           OK(e) ==
             /\ M[e] \in Link
             /\ M[e].parent = IF e = c THEN p ELSE F[e].parent
             /\ M[e].previous = IF e = c THEN a ELSE IF e = b THEN c ELSE F[e].previous
             /\ M[e].next = IF e = c THEN b ELSE IF e = a THEN c ELSE F[e].next
             /\ M[e].first = IF e = p /\ a = Null THEN c ELSE F[e].first
             /\ M[e].last = IF e = p /\ b = Null THEN c ELSE F[e].last
             /\ M[e].count = IF e = p THEN F[e].count + 1 ELSE F[e].count
<1>1. \A e \in Entity : F[e] \in Link
  BY LinkFields
<1>2. M = [e \in Entity |->
             CASE e = c -> [F[c] EXCEPT !.parent = p, !.previous = a, !.next = b]
               [] e = p -> [F[p] EXCEPT !.first = IF a = Null THEN c ELSE @,
                                        !.last = IF b = Null THEN c ELSE @,
                                        !.count = @ + 1]
               [] e = a -> [F[a] EXCEPT !.next = c]
               [] e = b -> [F[b] EXCEPT !.previous = c]
               [] OTHER -> F[e]]
  BY DEF Linked
<1> HIDE DEF M
<1>3. M[c] = [F[c] EXCEPT !.parent = p, !.previous = a, !.next = b]
  BY <1>2
<1>4. M[p] = [F[p] EXCEPT !.first = IF a = Null THEN c ELSE @, !.last = IF b = Null THEN c ELSE @,
                          !.count = @ + 1]
  BY <1>2
<1>5. a \in Entity => M[a] = WithNext(F[a], c)
  BY <1>2, EntityAssumption DEF WithNext
<1>6. b \in Entity => M[b] = WithPrevious(F[b], c)
  BY <1>2, EntityAssumption DEF WithPrevious
<1>7. \A e \in Entity : e # c /\ e # p /\ e # a /\ e # b => M[e] = F[e]
  BY <1>2
<1>8. OK(c)
  BY <1>1, <1>3 DEF Link
<1>9. OK(p)
  BY <1>1, <1>4 DEF Link
<1>10. ASSUME NEW e \in Entity, e # c, e # p PROVE OK(e)
  <2>1. F[e] \in Link
    BY <1>1
  <2>2. CASE e = a
    <3>1. M[e] = WithNext(F[e], c) /\ e # b
      BY <1>5, <2>2, EntityAssumption
    <3>2. LET n == WithNext(F[e], c)
          IN  /\ n \in Link /\ n.next = c /\ n.parent = F[e].parent /\ n.previous = F[e].previous
              /\ n.first = F[e].first /\ n.last = F[e].last /\ n.count = F[e].count
      BY <2>1, LinkWith, ZenonT(30)
    <3> QED  BY <1>10, <2>2, <3>1, <3>2
  <2>3. CASE e # a /\ e = b
    <3>1. M[e] = WithPrevious(F[e], c)
      BY <1>6, <2>3
    <3>2. LET m == WithPrevious(F[e], c)
          IN  /\ m \in Link /\ m.previous = c /\ m.parent = F[e].parent /\ m.next = F[e].next
              /\ m.first = F[e].first /\ m.last = F[e].last /\ m.count = F[e].count
      BY <2>1, LinkWith
    <3> QED  BY <1>10, <2>3, <3>1, <3>2
  <2>4. CASE e # a /\ e # b
    BY <1>7, <1>10, <2>1, <2>4
  <2> QED  BY <2>2, <2>3, <2>4
<1>11. \A e \in Entity : OK(e)
  BY <1>8, <1>9, <1>10
<1>12. M \in [Entity -> Link]
  <2>1. \A e \in Entity : M[e] \in Link
    BY <1>11
  <2> QED  BY <1>2, <2>1
<1> QED  BY <1>11, <1>12 DEF M, Linking

\* K with the list t for p.
Put(K, p, t) == [K EXCEPT ![p] = t]

\* What is so when c is put in front of the k-th child of p, if there is one.
Joined(F, K, c, p, k, t) ==
    LET M == Linked(F, c, p, At(K[p], k - 1), At(K[p], k))
    IN  /\ LinkTyped(M)
        /\ Woven(M, Put(K, p, t))
        /\ \A e \in Entity : M[e].parent = IF e = c THEN p ELSE F[e].parent

LEMMA LinkedWoven ==
  ASSUME NEW F, NEW K, LinkTyped(F), Woven(F, K), Rooted(F), NEW c \in Entity, F[c].parent = Null,
         NEW p \in Entity, p # c, NEW k \in 1 .. Len(K[p]) + 1, NEW t, Longer(K[p], k, c, t)
  PROVE  Joined(F, K, c, p, k, t)
<1> DEFINE s == K[p]
           a == At(s, k - 1)
           b == At(s, k)
           M == Linked(F, c, p, a, b)
           W == [K EXCEPT ![p] = t]
<1>1. Listed(F, p, s) /\ Longer(s, k, c, t) /\ k \in 1 .. Len(s) + 1 /\ k \in Int /\ k - 1 \in Int /\ k + 1 \in Int
  BY DEF Woven
<1>2. \A q \in Entity : q # p => Listed(F, q, K[q]) /\ W[q] = K[q]
  BY DEF Woven
<1>3. W \in [Entity -> Seq(Entity)] /\ W[p] = t
  BY <1>1 DEF Woven, Longer
<1>4. s \in Seq(Entity) /\ t \in Seq(Entity) /\ Distinct(s) /\ Len(s) \in Nat /\ Len(t) = Len(s) + 1
  BY <1>1, AtIs DEF Listed, Longer
<1> HIDE DEF s, W
<1>5. ASSUME NEW i \in Int, At(s, i) # Null PROVE F[At(s, i)].parent = p
  <2>1. i \in 1 .. Len(s) /\ At(s, i) = s[i]
    BY <1>5 DEF At
  <2> QED  BY <1>1, <2>1 DEF Listed
<1>6. \A i \in Int : At(s, i) # c /\ At(s, i) # p
  BY <1>5, NotOwnParent, EntityAssumption
<1>7. \A i, j \in Int : At(s, i) = At(s, j) /\ At(s, i) # Null => i = j
  BY <1>4, DistinctAt
<1>8. a \in Entity \cup {Null} /\ b \in Entity \cup {Null} /\ (a # Null => a # b)
  <2>1. k - 1 # k
    BY <1>1
  <2> QED  BY <1>1, <1>4, <1>7, <2>1, AtIs
<1>9. Distinct(t)
  <2>1. \A i \in 1 .. Len(s) : s[i] # c
    BY <1>4, <1>6, AtIs
  <2> QED  BY <1>1, <1>4, <2>1, LongerDistinct
<1>10. F[p].count + 1 = Len(t) /\ Len(t) \in Count
  BY <1>1, <1>4, <1>9, ShortList DEF Listed
<1> HIDE DEF a, b, M
<1>11. /\ M \in [Entity -> Link]
       /\ \A e \in Entity :
            /\ M[e].parent = IF e = c THEN p ELSE F[e].parent
            /\ M[e].previous = IF e = c THEN a ELSE IF e = b THEN c ELSE F[e].previous
            /\ M[e].next = IF e = c THEN b ELSE IF e = a THEN c ELSE F[e].next
            /\ M[e].first = IF e = p /\ a = Null THEN c ELSE F[e].first
            /\ M[e].last = IF e = p /\ b = Null THEN c ELSE F[e].last
            /\ M[e].count = IF e = p THEN F[e].count + 1 ELSE F[e].count
  <2>1. a # c /\ a # p /\ b # c /\ b # p
    BY <1>1, <1>6 DEF a, b
  <2>2. Linking(F, c, p, a, b, M)
    BY <1>8, <1>10, <2>1, LinkedIs DEF M
  <2> QED  BY <2>2 DEF Linking
<1>12. \A i \in Int : At(t, i) = IF i < k THEN At(s, i) ELSE IF i = k THEN c ELSE At(s, i - 1)
  BY <1>1, <1>4, AtLonger
<1>13. Listed(M, p, t)
  <2>1. M[p].first = At(t, 1)
    <3>1. M[p].first = IF a = Null THEN c ELSE At(s, 1)
      BY <1>1, <1>11 DEF Listed
    <3>2. CASE k = 1
      <4>1. a = Null
        BY <1>4, <3>2, AtIs DEF a
      <4> QED  BY <1>12, <3>1, <3>2, <4>1
    <3>3. CASE 1 < k
      <4>1. a # Null
        <5>1. k - 1 \in 1 .. Len(s)
          BY <1>1, <1>4, <3>3
        <5> QED  BY <1>4, <5>1, AtIs DEF a
      <4> QED  BY <1>12, <3>1, <3>3, <4>1
    <3> QED  BY <1>1, <3>2, <3>3
  <2>2. M[p].last = At(t, Len(t))
    <3>1. M[p].last = IF b = Null THEN c ELSE At(s, Len(s))
      BY <1>1, <1>11 DEF Listed
    <3>2. Len(t) \in Int /\ Len(t) - 1 = Len(s)
      BY <1>4
    <3>3. CASE k = Len(t)
      <4>1. b = Null
        <5>1. ~(k \in 1 .. Len(s))
          BY <1>4, <3>3
        <5> QED  BY <1>1, <1>4, <5>1, AtIs DEF b
      <4> QED  BY <1>12, <3>1, <3>2, <3>3, <4>1
    <3>4. CASE k < Len(t)
      <4>1. b # Null
        <5>1. k \in 1 .. Len(s)
          BY <1>1, <1>4, <3>4
        <5> QED  BY <1>4, <5>1, AtIs DEF b
      <4>2. ~(Len(t) < k) /\ Len(t) # k
        BY <1>4, <3>4
      <4> QED  BY <1>12, <3>1, <3>2, <4>1, <4>2
    <3> QED  BY <1>1, <1>4, <3>3, <3>4
  <2>3. M[p].count = Len(t)
    BY <1>10, <1>11
  <2>4. ASSUME NEW i \in 1 .. Len(t)
        PROVE  M[t[i]].parent = p /\ M[t[i]].previous = At(t, i - 1) /\ M[t[i]].next = At(t, i + 1)
    <3>1. t[i] = At(t, i) /\ t[i] \in Entity
      BY <1>4, AtIs
    <3>2. i \in Int /\ i - 1 \in Int /\ i + 1 \in Int /\ (i + 1) - 1 = i
      OBVIOUS
    <3>3. CASE i = k
      <4>1. t[i] = c /\ At(t, i - 1) = At(s, k - 1) /\ At(t, i + 1) = At(s, k)
        <5>1. i - 1 < k /\ ~(i + 1 < k) /\ i + 1 # k
          BY <1>1, <3>3
        <5> QED  BY <1>12, <3>1, <3>2, <3>3, <5>1
      <4> QED  BY <1>11, <4>1 DEF a, b
    <3>4. CASE i # k
      <4>1. PICK j \in 1 .. Len(s) : j = IF i < k THEN i ELSE i - 1
        <5>1. CASE i < k
          <6>1. i \in 1 .. Len(s)
            BY <1>1, <1>4, <5>1
          <6> QED  BY <5>1, <6>1
        <5>2. CASE k < i
          <6>1. i - 1 \in 1 .. Len(s) /\ ~(i < k)
            BY <1>1, <1>4, <5>2
          <6> QED  BY <6>1
        <5> QED  BY <1>1, <3>4, <5>1, <5>2
      <4>2. t[i] = s[j] /\ s[j] \in Entity /\ At(s, j) = s[j] /\ s[j] # Null
        BY <1>4, <1>12, <3>1, <3>4, <4>1, AtIs
      <4>3. F[s[j]].parent = p /\ F[s[j]].previous = At(s, j - 1) /\ F[s[j]].next = At(s, j + 1)
        BY <1>1 DEF Listed
      <4>4. j \in Int /\ j - 1 \in Int /\ j + 1 \in Int
        OBVIOUS
      <4>5. s[j] # c
        BY <1>6, <4>2, <4>4
      <4>6. (s[j] = b <=> j = k) /\ (s[j] = a <=> j = k - 1)
        <5>1. s[j] = b => j = k
          BY <1>1, <1>7, <4>2, <4>4 DEF b
        <5>2. s[j] = a => j = k - 1
          BY <1>1, <1>7, <4>2, <4>4 DEF a
        <5> QED  BY <4>2, <5>1, <5>2 DEF a, b
      <4>7. M[s[j]].previous = IF j = k THEN c ELSE At(s, j - 1)
        BY <1>11, <4>2, <4>3, <4>5, <4>6
      <4>8. M[s[j]].next = IF j = k - 1 THEN c ELSE At(s, j + 1)
        BY <1>11, <4>2, <4>3, <4>5, <4>6
      <4>9. M[s[j]].parent = p
        BY <1>11, <4>2, <4>3, <4>5
      <4>10. CASE i < k
        <5>1. j = i /\ i - 1 < k /\ j # k
          BY <4>1, <4>10
        <5>2. At(t, i - 1) = At(s, j - 1)
          BY <1>12, <3>2, <5>1
        <5>3. At(t, i + 1) = IF j = k - 1 THEN c ELSE At(s, j + 1)
          <6>1. CASE i + 1 = k
            <7>1. j = k - 1 /\ ~(i + 1 < k)
              BY <1>1, <5>1, <6>1
            <7> QED  BY <1>12, <3>2, <6>1, <7>1
          <6>2. CASE i + 1 < k
            <7>1. j # k - 1
              BY <1>1, <5>1, <6>2
            <7> QED  BY <1>12, <3>2, <5>1, <6>2, <7>1
          <6> QED  BY <1>1, <4>10, <6>1, <6>2
        <5> QED  BY <4>2, <4>7, <4>8, <4>9, <5>1, <5>2, <5>3
      <4>11. CASE k < i
        <5>1. j = i - 1 /\ j # k - 1 /\ ~(i + 1 < k) /\ i + 1 # k /\ j + 1 = i
          BY <1>1, <4>1, <4>11
        <5>2. At(t, i + 1) = At(s, j + 1)
          BY <1>12, <3>2, <5>1
        <5>3. At(t, i - 1) = IF j = k THEN c ELSE At(s, j - 1)
          <6>1. ~(j < k)
            BY <1>1, <4>11, <5>1
          <6> QED  BY <1>12, <3>2, <5>1, <6>1
        <5> QED  BY <4>2, <4>7, <4>8, <4>9, <5>1, <5>2, <5>3
      <4> QED  BY <1>1, <3>4, <4>10, <4>11
    <3> QED  BY <3>3, <3>4
  <2> QED  BY <1>4, <1>9, <2>1, <2>2, <2>3, <2>4 DEF Listed
<1>14. (a # Null => F[a].parent = p) /\ (b # Null => F[b].parent = p)
  BY <1>1, <1>5 DEF a, b
<1>15. ASSUME NEW q \in Entity, q # p PROVE Listed(M, q, W[q])
  <2>1. Listed(F, q, K[q]) /\ W[q] = K[q]
    BY <1>2, <1>15
  <2>2. ASSUME NEW i \in 1 .. Len(K[q])
        PROVE  LET e == K[q][i] IN M[e].parent = q /\ M[e].previous = F[e].previous /\ M[e].next = F[e].next
    <3>1. K[q][i] \in Entity /\ F[K[q][i]].parent = q /\ K[q][i] # Null
      BY <2>1, EntityAssumption DEF Listed
    <3>2. K[q][i] # c /\ K[q][i] # a /\ K[q][i] # b
      BY <1>14, <1>15, <3>1, EntityAssumption
    <3> QED  BY <1>11, <3>1, <3>2
  <2>3. M[q].first = F[q].first /\ M[q].last = F[q].last /\ M[q].count = F[q].count
    BY <1>11, <1>15
  <2> QED  BY <2>1, <2>2, <2>3 DEF Listed
<1>16. ASSUME NEW x \in Entity
       PROVE  IF M[x].parent = Null THEN M[x].next = Null /\ M[x].previous = Null
              ELSE \E i \in 1 .. Len(W[M[x].parent]) : W[M[x].parent][i] = x
  <2>1. CASE x = c
    <3>1. k \in 1 .. Len(t) /\ t[k] = c
      <4>1. k \in 1 .. Len(t)
        BY <1>1, <1>4
      <4> QED  BY <1>1, <1>4, <4>1 DEF Longer
    <3>2. M[x].parent = p /\ p # Null
      BY <1>11, <2>1, EntityAssumption
    <3>3. k \in 1 .. Len(W[p]) /\ W[p][k] = x
      BY <1>3, <2>1, <3>1
    <3> QED  BY <3>2, <3>3
  <2>2. CASE x # c /\ F[x].parent = Null
    <3>1. F[x].next = Null /\ F[x].previous = Null
      BY <2>2 DEF Woven
    <3>2. x # a /\ x # b
      BY <1>14, <2>2, EntityAssumption
    <3> QED  BY <1>11, <2>2, <3>1, <3>2
  <2>3. CASE x # c /\ F[x].parent # Null /\ F[x].parent # p
    <3>1. F[x].parent \in Entity /\ \E i \in 1 .. Len(K[F[x].parent]) : K[F[x].parent][i] = x
      BY <2>3, LinkFields DEF Woven
    <3>2. W[F[x].parent] = K[F[x].parent] /\ M[x].parent = F[x].parent
      BY <1>2, <1>11, <2>3, <3>1
    <3> QED  BY <2>3, <3>1, <3>2
  <2>4. CASE x # c /\ F[x].parent = p
    <3>1. PICK j \in 1 .. Len(s) : s[j] = x
      BY <2>4, EntityAssumption DEF Woven, s
    <3>2. PICK i \in 1 .. Len(t) : t[i] = s[j]
      <4>1. CASE j < k
        <5>1. j \in 1 .. Len(s) + 1 /\ j \in 1 .. Len(t)
          BY <1>4
        <5> QED  BY <1>1, <4>1, <5>1 DEF Longer
      <4>2. CASE ~(j < k)
        <5>1. j + 1 \in 1 .. Len(s) + 1 /\ j + 1 \in 1 .. Len(t) /\ ~(j + 1 < k) /\ j + 1 # k /\ (j + 1) - 1 = j
          BY <1>1, <1>4, <4>2
        <5> QED  BY <1>1, <5>1 DEF Longer
      <4> QED  BY <4>1, <4>2
    <3> QED  BY <1>3, <1>11, <2>4, <3>1, <3>2, EntityAssumption
  <2> QED  BY <2>1, <2>2, <2>3, <2>4
<1>17. Woven(M, W)
  BY <1>3, <1>13, <1>15, <1>16 DEF Woven
<1> QED  BY <1>11, <1>17 DEF M, W, s, a, b, LinkTyped, Put, Joined

\* A forest stays one when entities lose their parents, and when c becomes
\* the child of a p that is not below it.
LEMMA RootedStays ==
  ASSUME NEW L, NEW M, Rooted(L), \A e \in Entity : M[e].parent = L[e].parent \/ M[e].parent = Null
  PROVE  Rooted(M)
<1>1. SUFFICES ASSUME NEW T \in SUBSET Entity, T # {} PROVE \E x \in T : M[x].parent \notin T
  BY DEF Rooted
<1>2. PICK x \in T : L[x].parent \notin T
  BY <1>1 DEF Rooted
<1> QED  BY <1>2, EntityAssumption

LEMMA RootedMoved ==
  ASSUME NEW L, NEW M, ParentTyped(L), Rooted(L), NEW c \in Entity, NEW p \in Entity, c \notin Above(L, p),
         \A e \in Entity : M[e].parent = IF e = c THEN p ELSE L[e].parent
  PROVE  Rooted(M)
<1>1. SUFFICES ASSUME NEW T \in SUBSET Entity, T # {} PROVE \E x \in T : M[x].parent \notin T
  BY DEF Rooted
<1>2. CASE c \in T /\ p \notin T
  BY <1>2
<1>3. CASE c \notin T
  <2>1. PICK x \in T : L[x].parent \notin T
    BY <1>1 DEF Rooted
  <2> QED  BY <1>3, <2>1
<1>4. CASE p \in T
  <2> DEFINE U == {x \in T : c \notin Above(L, x)}
  <2>1. U \in SUBSET Entity /\ U # {}
    BY <1>4
  <2>2. PICK x \in U : L[x].parent \notin U
    BY <2>1 DEF Rooted
  <2>3. x # c /\ x \in Entity
    BY AboveIs
  <2>4. L[x].parent \notin T
    <3>1. SUFFICES ASSUME L[x].parent \in T PROVE FALSE
      OBVIOUS
    <3>2. L[x].parent # Null /\ c \in Above(L, L[x].parent)
      BY <2>2, <3>1, EntityAssumption
    <3> QED  BY <2>3, <3>2, AboveIs
  <2> QED  BY <2>3, <2>4
<1> QED  BY <1>2, <1>3, <1>4

Held(l, p, a, b) == [l EXCEPT !.parent = p, !.previous = a, !.next = b]
Holding(l, c, a, b) == [l EXCEPT !.first = IF a = Null THEN c ELSE @, !.last = IF b = Null THEN c ELSE @,
                                 !.count = @ + 1]

\* Taking c out first, or only when it is put in again.
LEMMA LinkedSame ==
  ASSUME NEW L, NEW U, NEW c \in Entity, NEW p, NEW a, NEW b, U \in [Entity -> Link],
         U = Unlinked(L, c), p # c, a # c, b # c
  PROVE  Linked(Freed(L, c), c, p, a, b) = Linked(U, c, p, a, b)
<1> DEFINE F == Freed(L, c)
           C == [U[c] EXCEPT !.parent = Null, !.previous = Null, !.next = Null]
<1>1. U[c] \in Link
  OBVIOUS
<1>2. F = [U EXCEPT ![c].parent = Null, ![c].previous = Null, ![c].next = Null]
  BY DEF Freed
<1> HIDE DEF F
<1>3. F = [U EXCEPT ![c] = C]
  BY <1>1, <1>2 DEF Link
<1>4. Held(C, p, a, b) = Held(U[c], p, a, b)
  BY <1>1 DEF Link, Held
<1> HIDE DEF C
<1>5. F[c] = C /\ \A e \in Entity : e # c => F[e] = U[e]
  BY <1>3
<1> DEFINE G(H) == [e \in Entity |->
             CASE e = c -> Held(H[c], p, a, b)
               [] e = p -> Holding(H[p], c, a, b)
               [] e = a -> WithNext(H[a], c)
               [] e = b -> WithPrevious(H[b], c)
               [] OTHER -> H[e]]
<1>6. ASSUME NEW e \in Entity PROVE G(F)[e] = G(U)[e]
  <2>1. CASE e = c
    <3>1. G(F)[c] = Held(F[c], p, a, b) /\ G(U)[c] = Held(U[c], p, a, b)
      OBVIOUS
    <3> HIDE DEF G
    <3> QED  BY <1>4, <1>5, <2>1, <3>1
  <2>2. CASE e # c
    <3>1. F[e] = U[e]
      BY <1>5, <2>2
    <3>2. CASE e = p
      BY <2>2, <3>1, <3>2
    <3>3. CASE e # p /\ e = a
      BY <2>2, <3>1, <3>3
    <3>4. CASE e # p /\ e # a /\ e = b
      BY <2>2, <3>1, <3>4
    <3>5. CASE e # p /\ e # a /\ e # b
      BY <2>2, <3>1, <3>5
    <3> QED  BY <3>2, <3>3, <3>4, <3>5
  <2> QED  BY <2>1, <2>2
<1>7. G(F) = G(U)
  BY <1>6
<1> QED  BY <1>7 DEF F, Linked, Held, Holding, WithNext, WithPrevious

-----------------------------------------------------------------------------
(* setParent's changes of the links.                                       *)

\* The lists when c is the child of p with pos of p's other children before it.
Inserted(K, c, p, pos) ==
    [q \in Entity |-> IF q = p THEN InsertAt(RemoveFirst(K[p], c), pos + 1, c) ELSE RemoveFirst(K[q], c)]

LEMMA DestinationIs ==
  ASSUME NEW L, NEW K, LinkTyped(L), Woven(L, K), Rooted(L), NEW c \in Entity, NEW p \in Entity, c # p
  PROVE  /\ Siblings(L, c, p) = Without(K, c)[p]
         /\ DestinationCount(L, c, p) = Len(Without(K, c)[p])
         /\ Len(Without(K, c)[p]) \in Nat
         /\ \A pos \in 0 .. Len(Without(K, c)[p]) :
              /\ Before(L, c, p, pos) = At(Without(K, c)[p], pos)
              /\ After(L, c, p, pos) = At(Without(K, c)[p], pos + 1)
<1> DEFINE s == K[p]
           t == Without(K, c)[p]
<1>1. Listed(L, p, s) /\ s \in Seq(Entity) /\ Len(s) \in Nat /\ Distinct(s)
  BY AtIs DEF Woven, Listed
<1>2. Siblings(L, c, p) = t
  BY <1>1, ChildrenAre DEF Siblings, Without
<1>3. t \in Seq(Entity) /\ Len(t) \in Nat
  BY WithoutIs, AtIs
<1>4. CASE L[c].parent # p
  <2>1. t = s
    BY <1>4, WithoutIs
  <2> HIDE DEF s, t
  <2>2. DestinationCount(L, c, p) = Len(t)
    BY <1>1, <1>4, <2>1 DEF DestinationCount, Listed
  <2>3. L[p].last # c
    <3>1. SUFFICES ASSUME L[p].last = c PROVE FALSE
      OBVIOUS
    <3>2. At(s, Len(s)) = c
      BY <1>1, <3>1 DEF Listed
    <3>3. Len(s) \in 1 .. Len(s) /\ s[Len(s)] = c
      BY <3>2, EntityAssumption DEF At
    <3> QED  BY <1>1, <1>4, <3>3 DEF Listed
  <2>4. L[p].last = At(s, Len(s))
    BY <1>1 DEF Listed
  <2>5. ASSUME NEW pos \in 0 .. Len(t)
        PROVE  Before(L, c, p, pos) = At(t, pos) /\ After(L, c, p, pos) = At(t, pos + 1)
    <3>1. CASE pos = Len(t)
      <4>1. ~(pos + 1 \in 1 .. Len(t)) /\ pos + 1 \in Int
        BY <1>3, <3>1
      <4> QED  BY <1>3, <2>1, <2>2, <2>3, <2>4, <3>1, <4>1, AtIs DEF Before, After
    <3>2. CASE pos # Len(t)
      <4>1. pos + 1 \in 1 .. Len(t) /\ (pos # 0 => pos \in 1 .. Len(t)) /\ (pos = 0 => ~(pos \in 1 .. Len(t)))
        BY <1>3, <3>2
      <4>2. After(L, c, p, pos) = t[pos + 1] /\ Before(L, c, p, pos) = IF pos = 0 THEN Null ELSE t[pos]
        BY <1>2, <2>2, <3>2 DEF Before, After
      <4> QED  BY <4>1, <4>2 DEF At
    <3> QED  BY <3>1, <3>2
  <2> QED  BY <1>2, <1>3, <2>2, <2>5 DEF t
<1>5. CASE L[c].parent = p
  <2>1. PICK k \in 1 .. Len(s) : s[k] = c /\ L[c].previous = At(s, k - 1) /\ Shorter(s, k, t)
    <3>1. L[c].parent # Null
      BY <1>5, EntityAssumption
    <3>2. PICK k \in 1 .. Len(K[p]) : K[p][k] = c /\ L[c].previous = At(K[p], k - 1)
      BY <1>5, <3>1, Placing
    <3>3. Shorter(K[p], k, Without(K, c)[p])
      BY <1>5, <3>2, WithoutIs
    <3> QED  BY <3>2, <3>3
  <2> HIDE DEF s, t
  <2>2. Len(t) = Len(s) - 1 /\ k \in 1 .. Len(s)
    BY <2>1 DEF Shorter
  <2>3. DestinationCount(L, c, p) = Len(t)
    BY <1>1, <1>5, <2>2 DEF DestinationCount, Listed
  <2>4. L[p].last = At(s, Len(s))
    BY <1>1 DEF Listed
  <2>5. \A i \in Int : At(t, i) = IF i < k THEN At(s, i) ELSE At(s, i + 1)
    BY <1>1, <2>1, AtShorter
  <2>6. (IF L[p].last = c THEN L[c].previous ELSE L[p].last) = At(t, Len(t))
    <3>1. Len(s) \in 1 .. Len(s) /\ At(s, Len(s)) = s[Len(s)] /\ k \in Int /\ Len(t) \in Int /\ Len(t) + 1 = Len(s)
      <4>1. Len(s) \in 1 .. Len(s)
        BY <1>1, <2>2
      <4> QED  BY <1>1, <2>2, <4>1, AtIs
    <3>2. s[Len(s)] = c <=> k = Len(s)
      BY <1>1, <2>1, <2>2, <3>1 DEF Distinct
    <3>3. CASE k = Len(s)
      <4>1. Len(t) < k /\ Len(t) = k - 1
        BY <1>1, <2>2, <3>3
      <4> QED  BY <2>1, <2>4, <2>5, <3>1, <3>2, <3>3, <4>1
    <3>4. CASE k # Len(s)
      <4>1. ~(Len(t) < k)
        BY <1>1, <2>2, <3>4
      <4> QED  BY <2>4, <2>5, <3>1, <3>2, <3>4, <4>1
    <3> QED  BY <3>3, <3>4
  <2>7. ASSUME NEW pos \in 0 .. Len(t)
        PROVE  Before(L, c, p, pos) = At(t, pos) /\ After(L, c, p, pos) = At(t, pos + 1)
    <3>1. CASE pos = Len(t)
      <4>1. ~(pos + 1 \in 1 .. Len(t)) /\ pos + 1 \in Int
        BY <1>3, <3>1
      <4> QED  BY <1>3, <2>3, <2>6, <3>1, <4>1, AtIs DEF Before, After
    <3>2. CASE pos # Len(t)
      <4>1. pos + 1 \in 1 .. Len(t) /\ (pos # 0 => pos \in 1 .. Len(t)) /\ (pos = 0 => ~(pos \in 1 .. Len(t)))
        BY <1>3, <3>2
      <4>2. After(L, c, p, pos) = t[pos + 1] /\ Before(L, c, p, pos) = IF pos = 0 THEN Null ELSE t[pos]
        BY <1>2, <2>3, <3>2 DEF Before, After
      <4> QED  BY <4>1, <4>2 DEF At
    <3> QED  BY <3>1, <3>2
  <2> QED  BY <1>2, <1>3, <2>3, <2>7 DEF t
<1> QED  BY <1>4, <1>5

LEMMA MovedWoven ==
  ASSUME NEW L, NEW K, LinkTyped(L), Woven(L, K), Rooted(L), NEW c \in Entity, NEW p \in Entity,
         c \notin Above(L, p), NEW pos \in 0 .. Len(Without(K, c)[p])
  PROVE  /\ LinkTyped(Moved(L, c, p, pos))
         /\ Woven(Moved(L, c, p, pos), Inserted(K, c, p, pos))
         /\ Rooted(Moved(L, c, p, pos))
         /\ \A e \in Entity : Moved(L, c, p, pos)[e].parent = IF e = c THEN p ELSE L[e].parent
<1> DEFINE R == Without(K, c)
           t == R[p]
           F == IF L[c].parent = Null THEN L ELSE Freed(L, c)
           M == Linked(F, c, p, At(t, pos), At(t, pos + 1))
           v == InsertAt(t, pos + 1, c)
           W == Inserted(K, c, p, pos)
<1>1. c # p /\ ParentTyped(L)
  BY LinkFields, AboveIs
<1>2. Before(L, c, p, pos) = At(t, pos) /\ After(L, c, p, pos) = At(t, pos + 1) /\ Len(t) \in Nat
  BY <1>1, DestinationIs
<1>3. /\ LinkTyped(F) /\ Woven(F, R) /\ F[c].parent = Null
      /\ \A e \in Entity : F[e].parent = IF e = c THEN Null ELSE L[e].parent
  <2>1. CASE L[c].parent = Null
    <3>1. R \in [Entity -> Seq(Entity)] /\ \A q \in Entity : R[q] = K[q]
      BY <2>1, WithoutIs, EntityAssumption
    <3>2. R = K
      BY <3>1 DEF Woven
    <3> QED  BY <2>1, <3>2
  <2>2. CASE L[c].parent # Null
    BY <2>2, FreedWoven
  <2> QED  BY <2>1, <2>2
<1>4. Rooted(F)
  <2> HIDE DEF F
  <2> QED  BY <1>3, RootedStays
<1>5. R \in [Entity -> Seq(Entity)]
  BY WithoutIs
<1>6. Moved(L, c, p, pos) = M
  <2>1. CASE L[c].parent = Null
    BY <1>2, <2>1 DEF Moved
  <2>2. CASE L[c].parent # Null
    <3>1. Moved(L, c, p, pos) = Linked(Unlinked(L, c), c, p, At(t, pos), At(t, pos + 1))
      BY <1>2, <2>2 DEF Moved
    <3>2. Unlinked(L, c) \in [Entity -> Link]
      BY <2>2, UnlinkedIs DEF LinkTyped
    <3>3. \A i \in 1 .. Len(t) : t[i] # c
      BY WithoutIs
    <3>4. At(t, pos) # c /\ At(t, pos + 1) # c
      BY <3>3, EntityAssumption DEF At
    <3> QED  BY <1>1, <2>2, <3>1, <3>2, <3>4, LinkedSame
  <2> QED  BY <2>1, <2>2
<1>7. W = [R EXCEPT ![p] = v]
  <2>1. \A q \in Entity : R[q] = RemoveFirst(K[q], c)
    BY DEF Without
  <2> HIDE DEF R, v
  <2>2. W = [q \in Entity |-> IF q = p THEN v ELSE R[q]]
    BY <2>1 DEF Inserted, v
  <2> QED  BY <1>5, <2>2
<1> HIDE DEF F, R, W
<1>8. t \in Seq(Entity) /\ pos + 1 \in 1 .. Len(R[p]) + 1 /\ (pos + 1) - 1 = pos
  BY <1>2, <1>5 DEF R
<1>9. Longer(R[p], pos + 1, c, v)
  BY <1>8, InsertedAt
<1> HIDE DEF v
<1>10. /\ LinkTyped(M) /\ Woven(M, [R EXCEPT ![p] = v])
       /\ \A e \in Entity : M[e].parent = IF e = c THEN p ELSE F[e].parent
  <2>1. PICK k \in 1 .. Len(R[p]) + 1 : k = pos + 1 /\ k - 1 = pos
    BY <1>8
  <2>2. Longer(R[p], k, c, v)
    BY <1>9, <2>1
  <2>3. Joined(F, R, c, p, k, v)
    BY <1>1, <1>3, <1>4, <2>2, LinkedWoven
  <2> QED  BY <2>1, <2>3 DEF Put, Joined
<1>11. \A e \in Entity : M[e].parent = IF e = c THEN p ELSE L[e].parent
  BY <1>3, <1>10
<1>12. Rooted(M)
  <2> HIDE DEF M
  <2> QED  BY <1>1, <1>11, RootedMoved
<1> QED  BY <1>6, <1>7, <1>10, <1>11, <1>12 DEF W

-----------------------------------------------------------------------------
(* The forest of the live entities.                                        *)

Kids(L) == [p \in Entity |-> Children(L, p)]

\* The lists K of the links L make a forest of the entities V; the others
\* are in no list and have none.
Forest(L, K, V) ==
    /\ LinkTyped(L) /\ Woven(L, K) /\ Rooted(L)
    /\ \A e \in Entity \ V : L[e].parent = Null /\ K[e] = <<>>

LEMMA KidsAre ==
  ASSUME NEW L, NEW K, LinkTyped(L), Woven(L, K)
  PROVE  Kids(L) = K
<1>1. \A p \in Entity : Children(L, p) = K[p]
  BY ChildrenAre DEF Woven
<1>2. K = [p \in Entity |-> K[p]]
  BY DEF Woven
<1> QED  BY <1>1, <1>2 DEF Kids

\* Being in a list, and having a parent.
LEMMA ChildIs ==
  ASSUME NEW L, NEW K, Woven(L, K), NEW x \in Entity, NEW p \in Entity
  PROVE  /\ K[p] \in Seq(Entity)
         /\ x \in ToSet(K[p]) <=> L[x].parent = p
         /\ x \in ToSet(K[p]) <=> \E i \in 1 .. Len(K[p]) : K[p][i] = x
         /\ ToSet(K[p]) \subseteq Entity
<1>1. Listed(L, p, K[p]) /\ K[p] \in Seq(Entity)
  BY DEF Woven
<1>2. x \in ToSet(K[p]) <=> \E i \in 1 .. Len(K[p]) : K[p][i] = x
  BY <1>1 DEF ToSet
<1>3. ToSet(K[p]) \subseteq Entity
  BY <1>1 DEF ToSet
<1>4. x \in ToSet(K[p]) => L[x].parent = p
  BY <1>1, <1>2 DEF Listed
<1>5. L[x].parent = p => \E i \in 1 .. Len(K[p]) : K[p][i] = x
  BY EntityAssumption DEF Woven
<1> QED  BY <1>1, <1>2, <1>3, <1>4, <1>5

LEMMA ForestLive ==
  ASSUME NEW L, NEW K, NEW V \in SUBSET Entity, Forest(L, K, V), NEW x \in Entity, L[x].parent # Null
  PROVE  x \in V /\ L[x].parent \in V
<1>1. L[x].parent \in Entity /\ x \in V
  BY LinkFields DEF Forest
<1>2. \E i \in 1 .. Len(K[L[x].parent]) : K[L[x].parent][i] = x
  BY <1>1, ChildIs DEF Forest
<1>3. K[L[x].parent] # <<>>
  BY <1>2
<1> QED  BY <1>1, <1>3 DEF Forest

\* An entity outside has the links of none.
LEMMA BareIs ==
  ASSUME NEW L, NEW K, LinkTyped(L), Woven(L, K), NEW e \in Entity, L[e].parent = Null, K[e] = <<>>
  PROVE  L[e] = NoLinks
<1>1. L[e].next = Null /\ L[e].previous = Null /\ Listed(L, e, <<>>)
  BY DEF Woven
<1>2. At(<<>>, 1) = Null /\ At(<<>>, Len(<<>>)) = Null /\ Len(<<>>) = 0
  BY DEF At
<1>3. L[e].first = Null /\ L[e].last = Null /\ L[e].count = 0
  BY <1>1, <1>2 DEF Listed
<1>4. L[e] \in Link
  BY LinkFields
<1>5. L[e] = [parent |-> L[e].parent, first |-> L[e].first, last |-> L[e].last,
              next |-> L[e].next, previous |-> L[e].previous, count |-> L[e].count]
  BY <1>4 DEF Link
<1> QED  BY <1>1, <1>3, <1>5 DEF NoLinks

LEMMA EmptyForest ==
  Forest([e \in Entity |-> NoLinks], [e \in Entity |-> <<>>], {})
<1> DEFINE L == [e \in Entity |-> NoLinks]
           K == [e \in Entity |-> <<>>]
<1>1. LinkTyped(L)
  <2>1. NoLinks \in Link
    BY DepthIs DEF NoLinks, Link, Count
  <2> QED  BY <2>1 DEF LinkTyped
<1>2. \A e \in Entity : /\ L[e].parent = Null /\ L[e].first = Null /\ L[e].last = Null
                        /\ L[e].next = Null /\ L[e].previous = Null /\ L[e].count = 0 /\ K[e] = <<>>
  BY DEF NoLinks
<1>3. /\ <<>> \in Seq(Entity) /\ Len(<<>>) = 0 /\ At(<<>>, 1) = Null /\ At(<<>>, Len(<<>>)) = Null
      /\ 1 .. Len(<<>>) = {}
  BY DEF At
<1>4. K \in [Entity -> Seq(Entity)]
  BY <1>3
<1> HIDE DEF L, K
<1>5. \A p \in Entity : Listed(L, p, K[p])
  BY <1>2, <1>3 DEF Listed, Distinct
<1>6. Woven(L, K)
  BY <1>2, <1>4, <1>5 DEF Woven
<1>7. Rooted(L)
  <2>1. SUFFICES ASSUME NEW T \in SUBSET Entity, T # {} PROVE \E x \in T : L[x].parent \notin T
    BY DEF Rooted
  <2> QED  BY <1>2, <2>1, EntityAssumption
<1>8. Forest(L, K, {})
  BY <1>1, <1>2, <1>6, <1>7 DEF Forest
<1> QED  BY <1>8 DEF L, K

LEMMA ForestGrown ==
  ASSUME NEW L, NEW K, NEW V, Forest(L, K, V), NEW e
  PROVE  Forest(L, K, V \cup {e})
BY DEF Forest

\* The entities outside the forest stay bare when c leaves its parent.
LEMMA ForestFreed ==
  ASSUME NEW L, NEW K, NEW V \in SUBSET Entity, Forest(L, K, V), NEW c \in Entity, L[c].parent # Null
  PROVE  Forest(Freed(L, c), Without(K, c), V)
<1> DEFINE F == Freed(L, c)
           W == Without(K, c)
<1>1. LinkTyped(L) /\ Woven(L, K) /\ Rooted(L)
  BY DEF Forest
<1>2. /\ LinkTyped(F) /\ Woven(F, W)
      /\ \A e \in Entity : F[e].parent = IF e = c THEN Null ELSE L[e].parent
  BY <1>1, FreedWoven
<1>3. \A q \in Entity : q # L[c].parent => W[q] = K[q]
  BY <1>1, WithoutIs
<1>4. L[c].parent \in V
  BY ForestLive
<1> HIDE DEF F, W
<1>5. Rooted(F)
  BY <1>1, <1>2, RootedStays
<1>6. \A e \in Entity \ V : F[e].parent = Null /\ W[e] = <<>>
  BY <1>2, <1>3, <1>4 DEF Forest
<1> QED  BY <1>2, <1>5, <1>6 DEF Forest, F, W

LEMMA ForestMoved ==
  ASSUME NEW L, NEW K, NEW V \in SUBSET Entity, Forest(L, K, V), NEW c \in V, NEW p \in V,
         c \notin Above(L, p), NEW pos \in 0 .. Len(Without(K, c)[p])
  PROVE  Forest(Moved(L, c, p, pos), Inserted(K, c, p, pos), V)
<1> DEFINE M == Moved(L, c, p, pos)
           W == Inserted(K, c, p, pos)
<1>1. LinkTyped(L) /\ Woven(L, K) /\ Rooted(L) /\ c \in Entity /\ p \in Entity
  BY DEF Forest
<1>2. /\ LinkTyped(M) /\ Woven(M, W) /\ Rooted(M)
      /\ \A e \in Entity : M[e].parent = IF e = c THEN p ELSE L[e].parent
  BY <1>1, MovedWoven
<1>3. \A q \in Entity : q # L[c].parent => Without(K, c)[q] = K[q]
  BY <1>1, WithoutIs
<1>4. L[c].parent \in V \cup {Null}
  BY <1>1, ForestLive
<1>5. \A q \in Entity : q # p => W[q] = Without(K, c)[q]
  BY DEF Inserted, Without
<1> HIDE DEF M, W
<1>6. \A e \in Entity \ V : M[e].parent = Null /\ W[e] = <<>>
  BY <1>1, <1>2, <1>3, <1>4, <1>5, EntityAssumption DEF Forest
<1> QED  BY <1>2, <1>6 DEF Forest, M, W

\* Whole trees D can be cut out of a forest.
Cut(L, D) == [x \in Entity |-> IF x \in D THEN NoLinks ELSE L[x]]
Pruned(K, D) == [x \in Entity |-> IF x \in D THEN <<>> ELSE K[x]]

LEMMA ForestCut ==
  ASSUME NEW L, NEW K, NEW V \in SUBSET Entity, Forest(L, K, V), NEW D \in SUBSET Entity,
         \A x \in Entity : L[x].parent # Null => (x \in D <=> L[x].parent \in D)
  PROVE  Forest(Cut(L, D), Pruned(K, D), V \ D)
<1> DEFINE M == [x \in Entity |-> IF x \in D THEN NoLinks ELSE L[x]]
           W == [x \in Entity |-> IF x \in D THEN <<>> ELSE K[x]]
<1>1. LinkTyped(L) /\ Woven(L, K) /\ Rooted(L)
  BY DEF Forest
<1>2. LinkTyped(M)
  <2>1. NoLinks \in Link
    BY DepthIs DEF NoLinks, Link, Count
  <2>2. \A x \in Entity : L[x] \in Link
    BY <1>1, LinkFields
  <2> QED  BY <2>1, <2>2 DEF LinkTyped
<1>3. \A x \in D : /\ M[x].parent = Null /\ M[x].first = Null /\ M[x].last = Null
                   /\ M[x].next = Null /\ M[x].previous = Null /\ M[x].count = 0 /\ W[x] = <<>>
  BY DEF NoLinks
<1>4. \A x \in Entity : x \notin D => M[x] = L[x] /\ W[x] = K[x]
  OBVIOUS
<1>5. /\ <<>> \in Seq(Entity) /\ Len(<<>>) = 0 /\ At(<<>>, 1) = Null /\ At(<<>>, Len(<<>>)) = Null
      /\ 1 .. Len(<<>>) = {}
  BY DEF At
<1>6. W \in [Entity -> Seq(Entity)]
  <2>1. \A x \in Entity : K[x] \in Seq(Entity)
    BY <1>1 DEF Woven
  <2> QED  BY <1>5, <2>1
<1> HIDE DEF M, W
<1>7. ASSUME NEW p \in Entity PROVE Listed(M, p, W[p])
  <2>1. CASE p \in D
    BY <1>3, <1>5, <2>1 DEF Listed, Distinct
  <2>2. CASE p \notin D
    <3>1. Listed(L, p, K[p]) /\ M[p] = L[p] /\ W[p] = K[p]
      BY <1>1, <1>4, <2>2 DEF Woven
    <3>2. ASSUME NEW i \in 1 .. Len(K[p]) PROVE M[K[p][i]] = L[K[p][i]]
      <4>1. K[p][i] \in Entity /\ L[K[p][i]].parent = p
        BY <3>1 DEF Listed
      <4> QED  BY <1>4, <2>2, <4>1, EntityAssumption
    <3> QED  BY <3>1, <3>2 DEF Listed
  <2> QED  BY <2>1, <2>2
<1>8. ASSUME NEW x \in Entity
      PROVE  IF M[x].parent = Null THEN M[x].next = Null /\ M[x].previous = Null
             ELSE \E i \in 1 .. Len(W[M[x].parent]) : W[M[x].parent][i] = x
  <2>1. CASE x \in D
    BY <1>3, <2>1
  <2>2. CASE x \notin D /\ L[x].parent = Null
    BY <1>1, <1>4, <2>2 DEF Woven
  <2>3. CASE x \notin D /\ L[x].parent # Null
    <3>1. L[x].parent \in Entity /\ L[x].parent \notin D
      BY <1>1, <2>3, LinkFields
    <3>2. \E i \in 1 .. Len(K[L[x].parent]) : K[L[x].parent][i] = x
      BY <1>1, <3>1, ChildIs
    <3> QED  BY <1>4, <2>3, <3>1, <3>2
  <2> QED  BY <2>1, <2>2, <2>3
<1>9. Woven(M, W)
  BY <1>6, <1>7, <1>8 DEF Woven
<1>10. Rooted(M)
  <2>1. \A e \in Entity : M[e].parent = L[e].parent \/ M[e].parent = Null
    BY <1>3, <1>4
  <2> QED  BY <1>1, <2>1, RootedStays
<1>11. \A e \in Entity \ (V \ D) : M[e].parent = Null /\ W[e] = <<>>
  BY <1>3, <1>4 DEF Forest
<1>12. Forest(M, W, V \ D)
  BY <1>2, <1>9, <1>10, <1>11 DEF Forest
<1> QED  BY <1>12 DEF M, W, Cut, Pruned

-----------------------------------------------------------------------------
(* Subtrees.                                                               *)

\* e and what is below it.
Sub(L, e) == {x \in Entity : e \in Above(L, x)}

LEMMA SubIs ==
  ASSUME NEW L, ParentTyped(L), Rooted(L), NEW e \in Entity
  PROVE  /\ e \in Sub(L, e) /\ Sub(L, e) \subseteq Entity
         /\ \A x \in Entity : x # e /\ L[x].parent # Null => (x \in Sub(L, e) <=> L[x].parent \in Sub(L, e))
         /\ \A x \in Sub(L, e) : x # e => L[x].parent # Null
         /\ L[e].parent \notin Sub(L, e)
<1>1. e \in Sub(L, e) /\ Sub(L, e) \subseteq Entity
  BY AboveIs DEF Sub
<1>2. ASSUME NEW x \in Entity, x # e, L[x].parent # Null
      PROVE  x \in Sub(L, e) <=> L[x].parent \in Sub(L, e)
  <2>1. L[x].parent \in Entity /\ Above(L, x) = {x} \cup Above(L, L[x].parent)
    BY <1>2, AboveIs DEF ParentTyped
  <2> QED  BY <1>2, <2>1 DEF Sub
<1>3. \A x \in Sub(L, e) : x # e => L[x].parent # Null
  BY AboveIs DEF Sub
<1>4. L[e].parent \notin Sub(L, e)
  <2>1. SUFFICES ASSUME L[e].parent \in Entity, e \in Above(L, L[e].parent) PROVE FALSE
    BY DEF Sub
  <2>2. L[e].parent \in Above(L, e)
    BY <2>1, AboveIs, EntityAssumption
  <2>3. L[e].parent = e
    BY <2>1, <2>2, AboveOnce
  <2> QED  BY <2>3, NotOwnParent
<1> QED  BY <1>1, <1>2, <1>3, <1>4

\* What contains e, and the children of its members, contains what is below e.
LEMMA SubLeast ==
  ASSUME NEW L, ParentTyped(L), Rooted(L), NEW e \in Entity, NEW T, e \in T,
         \A x \in Entity : L[x].parent # Null /\ L[x].parent \in T => x \in T
  PROVE  Sub(L, e) \subseteq T
<1>1. SUFFICES ASSUME NEW x \in Sub(L, e), x \notin T PROVE FALSE
  OBVIOUS
<1> DEFINE U == Entity \ T
<1>2. x \in U /\ x \in Entity /\ e \in Above(L, x) /\ e \notin U
  BY <1>1 DEF Sub
<1>3. \A y \in U \cap Entity : L[y].parent \in U \cup {Null}
  BY DEF ParentTyped
<1> HIDE DEF U
<1>4. Above(L, x) \subseteq U
  BY <1>2, <1>3, AboveLeast
<1> QED  BY <1>2, <1>4

\* A set of entities that grows from round to round has stopped when there
\* have been as many rounds as there are entities.
LEMMA GrowthEnds ==
  ASSUME NEW next \in [SUBSET Entity -> SUBSET Entity], NEW e \in Entity,
         \A X \in SUBSET Entity : X \subseteq next[X]
  PROVE  /\ Rounds(next, {e})[Cardinality(Entity)] \in SUBSET Entity
         /\ e \in Rounds(next, {e})[Cardinality(Entity)]
         /\ next[Rounds(next, {e})[Cardinality(Entity)]] = Rounds(next, {e})[Cardinality(Entity)]
<1>0. PICK N \in Nat : N = Cardinality(Entity)
  BY DepthIs
<1> DEFINE r == Rounds(next, {e})
           D == SUBSET Entity
<1>1. {e} \in D /\ next \in [D -> D]
  OBVIOUS
<1>2. /\ r \in [0 .. N -> D] /\ r[0] = {e}
      /\ \A n \in 1 .. N : r[n] = next[r[n - 1]]
  <2> HIDE DEF D
  <2>1. /\ r \in [Depth -> D] /\ r[0] = {e}
        /\ \A n \in 1 .. Cardinality(Entity) : r[n] = next[r[n - 1]]
    <3>1. PICK E \in D : E = {e}
      BY <1>1
    <3>2. r = Rounds(next, E)
      BY <3>1, Zenon
    <3> HIDE DEF D, r
    <3>3. /\ r \in [Depth -> D] /\ r[0] = E
          /\ \A n \in 1 .. Cardinality(Entity) : r[n] = next[r[n - 1]]
      BY <1>1, <3>2, RoundsAre
    <3> QED  BY <3>1, <3>3
  <2> QED  BY <1>0, <2>1 DEF Depth
<1> HIDE DEF r
<1>3. \A n \in 0 .. N : r[n] \in SUBSET Entity
  BY <1>2
<1> DEFINE T == {n \in 0 .. N : e \in r[n] /\ (next[r[n]] = r[n] \/ Cardinality(r[n]) >= n + 1)}
<1>4. 0 \in T
  <2>1. Cardinality({e}) = 1
    BY FS_Singleton
  <2>2. Cardinality(r[0]) >= 0 + 1 /\ e \in r[0] /\ 0 \in 0 .. N
    BY <1>0, <1>2, <2>1
  <2> QED  BY <2>2
<1>5. ASSUME NEW n \in 1 .. N, n - 1 \in T PROVE n \in T
  <2>1. r[n] = next[r[n - 1]] /\ r[n - 1] \in SUBSET Entity /\ r[n] \in SUBSET Entity
    <3>1. n - 1 \in 0 .. N /\ n \in 0 .. N
      BY <1>0
    <3> QED  BY <1>2, <1>3, <3>1
  <2>2. r[n - 1] \subseteq r[n]
    BY <2>1
  <2>3. CASE r[n - 1] = r[n]
    <3>1. next[r[n]] = r[n] /\ e \in r[n] /\ n \in 0 .. N
      <4>1. next[r[n]] = r[n]
        BY <2>1, <2>3
      <4>2. e \in r[n]
        BY <1>5, <2>3
      <4> QED  BY <4>1, <4>2
    <3> QED  BY <3>1
  <2>4. CASE r[n - 1] # r[n]
    <3>1. IsFiniteSet(r[n]) /\ IsFiniteSet(r[n - 1])
      BY <2>1, EntityAssumption, FS_Subset
    <3>2. Cardinality(r[n]) \in Nat /\ Cardinality(r[n - 1]) \in Nat
      BY <3>1, FS_CardinalityType
    <3>3. Cardinality(r[n - 1]) <= Cardinality(r[n]) /\ Cardinality(r[n - 1]) # Cardinality(r[n])
      BY <2>2, <2>4, <3>1, FS_Subset
    <3>4. Cardinality(r[n - 1]) >= n
      <4>1. next[r[n - 1]] # r[n - 1]
        BY <2>1, <2>4
      <4>2. Cardinality(r[n - 1]) >= (n - 1) + 1
        BY <1>5, <4>1
      <4> QED  BY <3>2, <4>2
    <3>5. Cardinality(r[n]) >= n + 1
      <4>1. PICK u \in Nat : u = Cardinality(r[n])
        BY <3>2
      <4>2. PICK v \in Nat : v = Cardinality(r[n - 1])
        BY <3>2
      <4>3. v <= u /\ v # u /\ v >= n
        BY <3>3, <3>4, <4>1, <4>2
      <4>4. u >= n + 1
        BY <4>3
      <4> QED  BY <4>1, <4>4
    <3> QED  BY <1>5, <2>2, <3>5
  <2> QED  BY <2>3, <2>4
<1> HIDE DEF T
<1>6. \A n \in 0 .. N : n \in T
  BY <1>4, <1>5, EveryNumber
<1>7. e \in r[N] /\ (next[r[N]] = r[N] \/ Cardinality(r[N]) >= N + 1) /\ r[N] \in SUBSET Entity
  <2>1. N \in 0 .. N
    BY <1>0
  <2> QED  BY <1>3, <1>6, <2>1 DEF T
<1>8. ~(Cardinality(r[N]) >= N + 1)
  <2>1. IsFiniteSet(r[N]) /\ Cardinality(r[N]) <= Cardinality(Entity)
    BY <1>7, EntityAssumption, FS_Subset
  <2>2. PICK u \in Nat : u = Cardinality(r[N])
    BY <2>1, FS_CardinalityType
  <2> QED  BY <1>0, <2>1, <2>2
<1> QED  BY <1>0, <1>7, <1>8 DEF r

\* destroyEntity's worklist ends with the whole subtree.
LEMMA CollectedIs ==
  ASSUME NEW L, NEW K, LinkTyped(L), Woven(L, K), Rooted(L), NEW e \in Entity
  PROVE  Collected(L, e) = Sub(L, e)
<1> DEFINE next == [X \in SUBSET Entity |-> X \cup UNION {ToSet(Children(L, x)) : x \in X}]
           D == SUBSET Entity
           r == Rounds(next, {e})
           N == Cardinality(Entity)
<1>0. ParentTyped(L)
  BY LinkFields
<1>1. \A x \in Entity : Children(L, x) = K[x]
  BY ChildrenAre DEF Woven
<1>2. \A x, y \in Entity : x \in ToSet(Children(L, y)) <=> L[x].parent = y
  BY <1>1, ChildIs
<1>3. \A y \in Entity : ToSet(Children(L, y)) \subseteq Entity
  BY <1>1, ChildIs
<1>4. next \in [D -> D] /\ {e} \in D
  BY <1>3
<1>5. \A X \in D : X \subseteq next[X]
  OBVIOUS
<1>6. \A X \in D : \A x \in Entity : x \in next[X] <=> x \in X \/ \E y \in X : x \in ToSet(Children(L, y))
  OBVIOUS
<1> HIDE DEF next
<1>7. r[N] \in D /\ e \in r[N] /\ next[r[N]] = r[N]
  BY <1>4, <1>5, GrowthEnds
<1>8. Sub(L, e) \subseteq r[N]
  <2> HIDE DEF r, N
  <2>1. \A x \in Entity : L[x].parent # Null /\ L[x].parent \in r[N] => x \in r[N]
    BY <1>2, <1>6, <1>7
  <2> QED  BY <1>0, <1>7, <2>1, SubLeast
<1>9. r[N] \subseteq Sub(L, e)
  <2> DEFINE G == SUBSET Sub(L, e)
  <2>1. {e} \in G
    BY <1>0, SubIs
  <2>2. \A X \in D \cap G : next[X] \in G
    <3>1. SUFFICES ASSUME NEW X \in D, X \subseteq Sub(L, e), NEW x \in next[X] PROVE x \in Sub(L, e)
      OBVIOUS
    <3>2. x \in Entity
      BY <1>4
    <3>3. CASE x \in X
      BY <3>1, <3>3
    <3>4. CASE \E y \in X : x \in ToSet(Children(L, y))
      <4>1. PICK y \in X : L[x].parent = y /\ y \in Entity
        BY <1>2, <3>2, <3>4
      <4>2. L[x].parent \in Sub(L, e) /\ L[x].parent # Null
        BY <3>1, <4>1, EntityAssumption
      <4> QED  BY <1>0, <3>2, <4>2, SubIs
    <3> QED  BY <1>6, <3>2, <3>3, <3>4
  <2> HIDE DEF G, D
  <2>3. \A n \in Depth : Rounds(next, {e})[n] \in G
    BY <1>4, <2>1, <2>2, RoundsKeep
  <2>4. N \in Depth
    BY DepthIs DEF Depth
  <2> QED  BY <2>3, <2>4 DEF G
<1>10. Collected(L, e) = r[N]
  BY DEF Collected, next
<1> QED  BY <1>8, <1>9, <1>10

-----------------------------------------------------------------------------
(* Transforms compose as affine maps do.                                   *)

LEMMA RestIs ==
  ASSUME NEW n \in Nat
  PROVE  n % Modulus \in Ring
<1>1. n % Modulus \in 0 .. Modulus - 1
  BY ModulusAssumption
<1> QED  BY <1>1 DEF Ring

LEMMA ComposeTyped ==
  ASSUME NEW f \in Frame, NEW g \in Frame
  PROVE  Compose(f, g) \in Frame
<1>1. /\ f.scale \in Nat /\ f.shift \in Nat /\ g.scale \in Nat /\ g.shift \in Nat
  BY ModulusAssumption DEF Frame, Ring
<1>2. f.scale * g.scale \in Nat /\ f.scale * g.shift \in Nat
  BY <1>1
<1>3. f.shift + f.scale * g.shift \in Nat
  BY <1>1, <1>2
<1>4. (f.scale * g.scale) % Modulus \in Ring /\ (f.shift + f.scale * g.shift) % Modulus \in Ring
  BY <1>2, <1>3, RestIs
<1> QED  BY <1>4 DEF Compose, Frame

LEMMA IdentityTyped ==
  Identity \in Frame
BY ModulusAssumption DEF Identity, Frame, Ring

LEMMA InvertedTyped ==
  ASSUME NEW f \in Frame, ~Singular(f)
  PROVE  Inverted(f) \in Frame /\ Compose(f, Inverted(f)) = Identity
BY InverseAssumption DEF Inverted

LEMMA Divided ==
  ASSUME NEW n \in Nat
  PROVE  \E q \in Nat : n = Modulus * q + (n % Modulus)
<1>1. n \div Modulus \in Nat
  BY ModulusAssumption
<1>2. n = Modulus * (n \div Modulus) + (n % Modulus)
  BY ModulusAssumption
<1> QED  BY <1>1, <1>2

LEMMA Remains ==
  ASSUME NEW r \in 0 .. Modulus - 1, NEW q \in Nat
  PROVE  (Modulus * q + r) % Modulus = r
BY ModulusAssumption

LEMMA Dropped ==
  ASSUME NEW n \in Nat, NEW r \in Nat, NEW q \in Nat, n = Modulus * q + r
  PROVE  n % Modulus = r % Modulus
<1>1. PICK k \in Nat : r = Modulus * k + (r % Modulus)
  BY Divided
<1>2. r % Modulus \in 0 .. Modulus - 1
  BY ModulusAssumption
<1>3. PICK d \in 0 .. Modulus - 1 : d = r % Modulus
  BY <1>2
<1>4. n = Modulus * (q + k) + d
  BY <1>1, <1>3, ModulusAssumption
<1>5. (Modulus * (q + k) + d) % Modulus = d
  BY <1>3, Remains
<1> QED  BY <1>3, <1>4, <1>5

LEMMA TimesRest ==
  ASSUME NEW x \in Nat, NEW y \in Nat
  PROVE  /\ (x * (y % Modulus)) % Modulus = (x * y) % Modulus
         /\ ((y % Modulus) * x) % Modulus = (y * x) % Modulus
<1>1. PICK q \in Nat : y = Modulus * q + (y % Modulus)
  BY Divided
<1>2. PICK d \in Nat : d = y % Modulus
  BY ModulusAssumption
<1>3. x * y = Modulus * (x * q) + x * d
  BY <1>1, <1>2, ModulusAssumption
<1>4. x * q \in Nat /\ x * d \in Nat /\ x * y \in Nat
  OBVIOUS
<1>5. (x * y) % Modulus = (x * d) % Modulus
  BY <1>3, <1>4, Dropped
<1>6. x * y = y * x /\ d * x = x * d
  OBVIOUS
<1> QED  BY <1>2, <1>5, <1>6

LEMMA PlusRest ==
  ASSUME NEW x \in Nat, NEW y \in Nat
  PROVE  /\ (x + (y % Modulus)) % Modulus = (x + y) % Modulus
         /\ ((y % Modulus) + x) % Modulus = (y + x) % Modulus
<1>1. PICK q \in Nat : y = Modulus * q + (y % Modulus)
  BY Divided
<1>2. PICK d \in Nat : d = y % Modulus
  BY ModulusAssumption
<1>3. x + y = Modulus * q + (x + d)
  BY <1>1, <1>2, ModulusAssumption
<1>4. x + d \in Nat /\ x + y \in Nat
  OBVIOUS
<1>5. (x + y) % Modulus = (x + d) % Modulus
  BY <1>3, <1>4, Dropped
<1>6. x + y = y + x /\ d + x = x + d
  OBVIOUS
<1> QED  BY <1>2, <1>5, <1>6

LEMMA FrameIs ==
  ASSUME NEW f \in Frame
  PROVE  /\ f.scale \in 0 .. Modulus - 1 /\ f.shift \in 0 .. Modulus - 1
         /\ f.scale \in Nat /\ f.shift \in Nat
         /\ f = [scale |-> f.scale, shift |-> f.shift]
BY ModulusAssumption DEF Frame, Ring

LEMMA IdentityIs ==
  ASSUME NEW f \in Frame
  PROVE  Compose(f, Identity) = f /\ Compose(Identity, f) = f
<1>1. PICK a \in 0 .. Modulus - 1 : a = f.scale
  BY FrameIs
<1>2. PICK b \in 0 .. Modulus - 1 : b = f.shift
  BY FrameIs
<1>3. a \in Nat /\ b \in Nat
  BY ModulusAssumption
<1>4. (Modulus * 0 + a) % Modulus = a /\ (Modulus * 0 + b) % Modulus = b
  BY Remains
<1>5. a % Modulus = a /\ b % Modulus = b
  BY <1>3, <1>4, ModulusAssumption
<1>6. a * 1 = a /\ 1 * a = a /\ b + a * 0 = b /\ 0 + 1 * b = b
  BY <1>3
<1>7. /\ Compose(f, Identity) = [scale |-> (a * 1) % Modulus, shift |-> (b + a * 0) % Modulus]
      /\ Compose(Identity, f) = [scale |-> (1 * a) % Modulus, shift |-> (0 + 1 * b) % Modulus]
  BY <1>1, <1>2 DEF Compose, Identity
<1>8. f = [scale |-> a, shift |-> b]
  BY <1>1, <1>2, FrameIs
<1> QED  BY <1>5, <1>6, <1>7, <1>8

LEMMA TurnedSum ==
  ASSUME NEW m \in Nat, NEW n \in Nat, NEW u \in Nat
  PROVE  ((m % Modulus) + (n % Modulus) * u) % Modulus = (m + n * u) % Modulus
<1>1. n % Modulus \in Nat
  BY ModulusAssumption
<1>2. PICK k \in Nat : k = (n % Modulus) * u
  BY <1>1
<1>3. PICK l \in Nat : l = n * u
  OBVIOUS
<1>4. k % Modulus = l % Modulus
  BY <1>2, <1>3, TimesRest
<1>5. (m + (k % Modulus)) % Modulus = (m + k) % Modulus
  BY PlusRest
<1>6. (m + (l % Modulus)) % Modulus = (m + l) % Modulus
  BY PlusRest
<1>7. ((m % Modulus) + k) % Modulus = (m + k) % Modulus
  BY PlusRest
<1>8. ((m % Modulus) + k) % Modulus = (m + l) % Modulus
  BY <1>4, <1>5, <1>6, <1>7
<1> QED  BY <1>2, <1>3, <1>8

LEMMA TurnedFactor ==
  ASSUME NEW s \in Nat, NEW a \in Nat, NEW m \in Nat
  PROVE  (s + a * (m % Modulus)) % Modulus = (s + a * m) % Modulus
<1>1. m % Modulus \in Nat
  BY ModulusAssumption
<1>2. PICK k \in Nat : k = a * (m % Modulus)
  BY <1>1
<1>3. PICK l \in Nat : l = a * m
  OBVIOUS
<1>4. k % Modulus = l % Modulus
  BY <1>2, <1>3, TimesRest
<1>5. (s + (k % Modulus)) % Modulus = (s + k) % Modulus
  BY PlusRest
<1>6. (s + (l % Modulus)) % Modulus = (s + l) % Modulus
  BY PlusRest
<1> QED  BY <1>2, <1>3, <1>4, <1>5, <1>6

LEMMA ScalesAgree ==
  ASSUME NEW f \in Frame, NEW g \in Frame, NEW h \in Frame
  PROVE  Compose(Compose(f, g), h).scale = Compose(f, Compose(g, h)).scale
<1>1. PICK a \in Nat : a = f.scale
  BY FrameIs
<1>2. PICK b \in Nat : b = g.scale
  BY FrameIs
<1>3. PICK c \in Nat : c = h.scale
  BY FrameIs
<1>4. PICK ab \in Nat : ab = a * b
  OBVIOUS
<1>5. PICK bc \in Nat : bc = b * c
  OBVIOUS
<1>6. Compose(Compose(f, g), h).scale = ((ab % Modulus) * c) % Modulus
  BY <1>1, <1>2, <1>3, <1>4 DEF Compose
<1>7. Compose(f, Compose(g, h)).scale = (a * (bc % Modulus)) % Modulus
  BY <1>1, <1>2, <1>3, <1>5 DEF Compose
<1>8. ((ab % Modulus) * c) % Modulus = (ab * c) % Modulus
  BY TimesRest
<1>9. (a * (bc % Modulus)) % Modulus = (a * bc) % Modulus
  BY TimesRest
<1>10. ab * c = a * bc
  BY <1>4, <1>5
<1> QED  BY <1>6, <1>7, <1>8, <1>9, <1>10

LEMMA ShiftsAgree ==
  ASSUME NEW f \in Frame, NEW g \in Frame, NEW h \in Frame
  PROVE  Compose(Compose(f, g), h).shift = Compose(f, Compose(g, h)).shift
<1>1. PICK a \in Nat, s \in Nat : a = f.scale /\ s = f.shift
  BY FrameIs
<1>2. PICK b \in Nat, t \in Nat : b = g.scale /\ t = g.shift
  BY FrameIs
<1>3. PICK u \in Nat : u = h.shift
  BY FrameIs
<1>4. PICK m \in Nat : m = s + a * t
  OBVIOUS
<1>5. PICK n \in Nat : n = a * b
  OBVIOUS
<1>6. PICK r \in Nat : r = t + b * u
  OBVIOUS
<1>7. Compose(Compose(f, g), h).shift = ((m % Modulus) + (n % Modulus) * u) % Modulus
  BY <1>1, <1>2, <1>3, <1>4, <1>5 DEF Compose
<1>8. Compose(f, Compose(g, h)).shift = (s + a * (r % Modulus)) % Modulus
  BY <1>1, <1>2, <1>3, <1>6 DEF Compose
<1>9. m + n * u = s + a * r
  <2>1. PICK bu \in Nat : bu = b * u
    OBVIOUS
  <2>2. n * u = a * bu
    BY <1>5, <2>1
  <2>3. a * (t + bu) = a * t + a * bu
    OBVIOUS
  <2>4. a * t \in Nat /\ a * bu \in Nat
    OBVIOUS
  <2> QED  BY <1>4, <1>6, <2>1, <2>2, <2>3, <2>4
<1>10. ((m % Modulus) + (n % Modulus) * u) % Modulus = (m + n * u) % Modulus
  BY TurnedSum
<1>11. (s + a * (r % Modulus)) % Modulus = (s + a * r) % Modulus
  BY TurnedFactor
<1> QED  BY <1>7, <1>8, <1>9, <1>10, <1>11

LEMMA ComposeAssociates ==
  ASSUME NEW f \in Frame, NEW g \in Frame, NEW h \in Frame
  PROVE  Compose(Compose(f, g), h) = Compose(f, Compose(g, h))
<1>1. \A x, y : Compose(x, y) = [scale |-> Compose(x, y).scale, shift |-> Compose(x, y).shift]
  BY DEF Compose
<1>2. /\ Compose(Compose(f, g), h) = [scale |-> Compose(Compose(f, g), h).scale, shift |-> Compose(Compose(f, g), h).shift]
      /\ Compose(f, Compose(g, h)) = [scale |-> Compose(f, Compose(g, h)).scale, shift |-> Compose(f, Compose(g, h)).shift]
  BY <1>1, Zenon
<1>3. /\ Compose(Compose(f, g), h).scale = Compose(f, Compose(g, h)).scale
      /\ Compose(Compose(f, g), h).shift = Compose(f, Compose(g, h)).shift
  BY ScalesAgree, ShiftsAgree
<1> QED  BY <1>2, <1>3, Zenon

-----------------------------------------------------------------------------
(* The walk of a subtree.                                                  *)

\* Of two ancestors of e the farther is above the nearer.
LEMMA AncestorsAbove ==
  ASSUME NEW L, ParentTyped(L), Rooted(L), NEW e \in Entity
  PROVE  \A n \in Depth : \A k \in 0 .. n :
           Ancestor(L, e)[n] # Null => Ancestor(L, e)[n] \in Above(L, Ancestor(L, e)[k])
<1> DEFINE up == Ancestor(L, e)
           T == {n \in Depth : \A k \in 0 .. n : up[n] # Null => up[n] \in Above(L, up[k])}
<1>1. /\ up \in [Depth -> Entity \cup {Null}] /\ up[0] = e
      /\ \A n \in 1 .. Cardinality(Entity) : up[n] = IF up[n - 1] = Null THEN Null ELSE L[up[n - 1]].parent
      /\ \A n \in Depth : up[n] = Null \/ \A k \in 0 .. n : up[k] # Null
  BY AncestorIs, AncestorsThen
<1> HIDE DEF up
<1>2. 0 \in T
  <2>1. up[0] \in Above(L, up[0])
    BY <1>1, AboveIs
  <2>2. \A k \in 0 .. 0 : k = 0
    OBVIOUS
  <2> QED  BY <2>1, <2>2, DepthIs
<1>3. ASSUME NEW n \in 1 .. Cardinality(Entity), n - 1 \in T PROVE n \in T
  <2>1. n \in Depth /\ n - 1 \in Depth /\ n \in Nat
    BY DepthIs
  <2>2. SUFFICES ASSUME NEW k \in 0 .. n, up[n] # Null PROVE up[n] \in Above(L, up[k])
    BY <2>1
  <2>3. up[n] \in Entity /\ up[n - 1] # Null /\ up[n] = L[up[n - 1]].parent
    BY <1>1, <2>1, <2>2
  <2>4. CASE k = n
    BY <2>3, <2>4, AboveIs
  <2>5. CASE k # n
    <3>1. k \in 0 .. (n - 1)
      BY <2>1, <2>5
    <3>2. up[n - 1] \in Above(L, up[k])
      BY <1>3, <2>3, <3>1
    <3>3. up[k] \in Entity
      BY <1>1, <2>1, <2>2, DepthIs DEF Depth
    <3> QED  BY <2>2, <2>3, <3>2, <3>3, AboveIs
  <2> QED  BY <2>4, <2>5
<1> HIDE DEF T
<1>4. \A n \in 0 .. Cardinality(Entity) : n \in T
  BY <1>2, <1>3, DepthIs, EveryNumber
<1> QED  BY <1>4 DEF T, Depth, up

\* From a leaf the walk of root's subtree climbs to the nearest z that is
\* root or has a sibling behind it.
Climbs(L, root, e, z) ==
    /\ z \in Above(L, e) /\ z \in Sub(L, root)
    /\ z = root \/ L[z].next # Null
    /\ Climbed(L, root, e) = IF z = root THEN Null ELSE L[z].next
    /\ \A w \in Above(L, e) : z \in Above(L, w) /\ w # z => w # root /\ L[w].next = Null

LEMMA ClimbedIs ==
  ASSUME NEW L, ParentTyped(L), Rooted(L), NEW root \in Entity, NEW e \in Sub(L, root)
  PROVE  \E z \in Entity : Climbs(L, root, e, z)
<1> DEFINE up == Ancestor(L, e)
           stops == {n \in Depth : up[n] # Null /\ (up[n] = root \/ L[up[n]].next # Null)}
           top == CHOOSE n \in stops : \A k \in stops : n <= k
<1>0. e \in Entity /\ root \in Above(L, e)
  BY DEF Sub
<1>1. up \in [Depth -> Entity \cup {Null}]
  BY <1>0, AncestorIs
<1>2. PICK r \in Depth : up[r] = root
  BY <1>0 DEF Above
<1>3. \A n \in Depth : \A k \in 0 .. n : up[n] # Null => up[n] \in Above(L, up[k])
  BY <1>0, AncestorsAbove
<1>4. Climbed(L, root, e) = IF up[top] = root THEN Null ELSE L[up[top]].next
  BY DEF Climbed
<1>5. Above(L, e) = {x \in Entity : \E n \in Depth : up[n] = x}
  BY DEF Above
<1> HIDE DEF up
<1>6. r \in stops /\ stops \in SUBSET Nat
  BY <1>2, DepthIs, EntityAssumption
<1>7. top \in stops /\ \A k \in stops : top <= k
  <2>1. \E n \in stops : \A k \in stops : n <= k
    <3> HIDE DEF stops
    <3> QED  BY <1>6, LeastNumber
  <2> HIDE DEF stops
  <2> QED  BY <2>1
<1> HIDE DEF top
<1> DEFINE z == up[top]
<1>8. top \in Depth /\ z # Null /\ z \in Entity /\ (z = root \/ L[z].next # Null)
  BY <1>1, <1>7
<1>9. \A n \in stops : up[n] \in Above(L, z)
  <2>1. SUFFICES ASSUME NEW n \in stops PROVE up[n] \in Above(L, z)
    OBVIOUS
  <2>2. top \in 0 .. n
    BY <1>7, <1>8, <2>1, DepthIs
  <2> QED  BY <1>3, <2>1, <2>2
<1>10. z \in Above(L, e) /\ z \in Sub(L, root)
  <2>1. root \in Above(L, z)
    BY <1>2, <1>6, <1>9
  <2> QED  BY <1>5, <1>8, <2>1 DEF Sub
<1>11. ASSUME NEW w \in Above(L, e), z \in Above(L, w), w # z PROVE w # root /\ L[w].next = Null
  <2>1. PICK m \in Depth : up[m] = w
    BY <1>5
  <2>2. SUFFICES ASSUME w = root \/ L[w].next # Null PROVE FALSE
    OBVIOUS
  <2>3. w \in Entity /\ w # Null
    BY <1>5, EntityAssumption
  <2>4. m \in stops
    BY <2>1, <2>2, <2>3
  <2>5. w \in Above(L, z)
    BY <1>9, <2>1, <2>4
  <2>6. w = z
    BY <1>8, <1>11, <2>3, <2>5, AboveOnce
  <2> QED  BY <1>11, <2>6
<1> QED  BY <1>4, <1>8, <1>10, <1>11 DEF Climbs

LEMMA KidIs ==
  ASSUME NEW L, NEW K, LinkTyped(L), Woven(L, K), NEW q \in Entity, NEW i \in 1 .. Len(K[q])
  PROVE  /\ K[q][i] \in Entity /\ L[K[q][i]].parent = q /\ Len(K[q]) \in Nat
         /\ L[K[q][i]].next = IF i = Len(K[q]) THEN Null ELSE K[q][i + 1]
         /\ i # Len(K[q]) => L[K[q][i]].next # Null
         /\ \A j \in 1 .. Len(K[q]) : K[q][i] = K[q][j] => i = j
<1>1. Listed(L, q, K[q]) /\ K[q] \in Seq(Entity) /\ Len(K[q]) \in Nat
  BY AtIs DEF Woven
<1>2. L[K[q][i]].next = At(K[q], i + 1)
  BY <1>1 DEF Listed
<1>3. CASE i = Len(K[q])
  <2>1. ~(i + 1 \in 1 .. Len(K[q]))
    BY <1>1, <1>3
  <2> QED  BY <1>1, <1>2, <1>3, <2>1 DEF At, Listed, Distinct
<1>4. CASE i # Len(K[q])
  <2>1. i + 1 \in 1 .. Len(K[q])
    BY <1>1, <1>4
  <2>2. K[q][i + 1] \in Entity
    BY <1>1, <2>1
  <2> QED  BY <1>1, <1>2, <1>4, <2>1, <2>2, EntityAssumption DEF At, Listed, Distinct
<1> QED  BY <1>3, <1>4

\* An entity with a sibling behind it.
LEMMA NextIs ==
  ASSUME NEW L, NEW K, LinkTyped(L), Woven(L, K), Rooted(L), NEW z \in Entity, L[z].next # Null
  PROVE  /\ L[z].parent \in Entity
         /\ \E m \in 1 .. Len(K[L[z].parent]) : /\ K[L[z].parent][m] = z
                                                /\ m + 1 \in 1 .. Len(K[L[z].parent])
                                                /\ K[L[z].parent][m + 1] = L[z].next
<1>1. L[z].parent # Null
  BY DEF Woven
<1>2. L[z].parent \in Entity
  BY <1>1, LinkFields
<1>3. PICK m \in 1 .. Len(K[L[z].parent]) : K[L[z].parent][m] = z /\ L[z].next = At(K[L[z].parent], m + 1)
  BY <1>1, Placing
<1>4. m + 1 \in 1 .. Len(K[L[z].parent]) /\ K[L[z].parent][m + 1] = L[z].next
  BY <1>3 DEF At
<1> QED  BY <1>2, <1>3, <1>4

\* A walk of root's subtree that has visited V and stands at an entity: what
\* is above it is visited, its siblings behind it are not, and whatever is
\* not visited yet is to be met when it comes back from below a sibling.
Toured(L, K, root, V, at) ==
    /\ V \subseteq Sub(L, root)
    /\ at \in Sub(L, root) \cup {Null}
    /\ at \notin V
    /\ \A x \in V \cup {at} : x # Null /\ x # root => L[x].parent \in V
    /\ at = Null => V = Sub(L, root)
    /\ at # Null =>
         \A x \in Sub(L, root) : \A i \in 1 .. Len(K[x]) :
           /\ x \in V => (K[x][i] \in V \/ \E j \in 1 .. i : at \in Sub(L, K[x][j]))
           /\ \A j \in 1 .. Len(K[x]) : j < i /\ at \in Sub(L, K[x][j]) => K[x][i] \notin V

LEMMA TourStarts ==
  ASSUME NEW L, NEW K, LinkTyped(L), Woven(L, K), Rooted(L), NEW root \in Entity
  PROVE  Toured(L, K, root, {}, root)
<1>1. root \in Sub(L, root) /\ root # Null
  BY LinkFields, SubIs, EntityAssumption
<1> QED  BY <1>1 DEF Toured

LEMMA TourAbove ==
  ASSUME NEW L, NEW K, LinkTyped(L), Rooted(L), NEW root \in Entity, NEW V, NEW e \in Entity,
         Toured(L, K, root, V, e)
  PROVE  /\ e \in Sub(L, root) /\ V \subseteq Entity
         /\ \A w \in Above(L, e) : w \in Sub(L, root) => w \in V \cup {e}
<1>1. e \in Sub(L, root) /\ V \subseteq Sub(L, root) /\ \A x \in V \cup {e} : x # Null /\ x # root => L[x].parent \in V
  BY EntityAssumption DEF Toured
<1>2. ParentTyped(L) /\ root \in Sub(L, root) /\ L[root].parent \notin Sub(L, root) /\ Sub(L, root) \subseteq Entity
  BY LinkFields, SubIs
<1> DEFINE T == (V \cup {e}) \cup (Entity \ Sub(L, root))
<1>3. \A x \in T \cap Entity : L[x].parent \in T \cup {Null}
  <2>1. SUFFICES ASSUME NEW x \in T \cap Entity, L[x].parent # Null PROVE L[x].parent \in T
    OBVIOUS
  <2>2. L[x].parent \in Entity /\ x # Null
    BY <1>2, <2>1, EntityAssumption DEF ParentTyped
  <2>3. CASE x = root
    BY <1>2, <2>2, <2>3
  <2>4. CASE x # root /\ x \in V \cup {e}
    BY <1>1, <2>2, <2>4
  <2>5. CASE x \notin Sub(L, root)
    <3>1. x # root
      BY <1>2, <2>5
    <3>2. L[x].parent \notin Sub(L, root)
      BY <1>2, <2>1, <2>5, <3>1, SubIs
    <3> QED  BY <2>2, <3>2
  <2> QED  BY <2>3, <2>4, <2>5
<1>4. e \in T
  OBVIOUS
<1> HIDE DEF T
<1>5. Above(L, e) \subseteq T
  BY <1>2, <1>3, <1>4, AboveLeast
<1> QED  BY <1>1, <1>2, <1>5 DEF T

\* Down to the first child.
LEMMA TourDown ==
  ASSUME NEW L, NEW K, LinkTyped(L), Woven(L, K), Rooted(L), NEW root \in Entity, NEW V, NEW e \in Entity,
         Toured(L, K, root, V, e), L[e].first # Null
  PROVE  Toured(L, K, root, V \cup {e}, L[e].first)
<1> DEFINE f == L[e].first
<1>0. ParentTyped(L)
  BY LinkFields
<1>1. 1 \in 1 .. Len(K[e]) /\ f = K[e][1]
  BY DEF Woven, Listed, At
<1>2. f \in Entity /\ L[f].parent = e /\ e # Null /\ f # Null
  BY <1>1, KidIs, EntityAssumption
<1>3. e \in Sub(L, root) /\ V \subseteq Entity
  BY TourAbove
<1>4. /\ V \subseteq Sub(L, root) /\ e \notin V
      /\ \A x \in V \cup {e} : x # Null /\ x # root => L[x].parent \in V
      /\ \A x \in Sub(L, root) : \A i \in 1 .. Len(K[x]) :
           /\ x \in V => (K[x][i] \in V \/ \E j \in 1 .. i : e \in Sub(L, K[x][j]))
           /\ \A j \in 1 .. Len(K[x]) : j < i /\ e \in Sub(L, K[x][j]) => K[x][i] \notin V
  BY <1>2 DEF Toured
<1>5. f # root /\ f # e
  <2>1. f = root => FALSE
    BY <1>0, <1>2, <1>3, SubIs
  <2> QED  BY <1>2, <2>1, NotOwnParent
<1>6. f \in Sub(L, root)
  BY <1>0, <1>2, <1>3, <1>5, SubIs
<1>7. f \notin V \cup {e}
  BY <1>2, <1>4, <1>5
<1>8. ASSUME NEW y \in Entity, e \in Sub(L, y) PROVE f \in Sub(L, y)
  <2>1. CASE f = y
    BY <1>0, <1>8, <2>1, SubIs
  <2> QED  BY <1>0, <1>2, <1>8, <2>1, SubIs
<1> HIDE DEF f
<1>9. ASSUME NEW x \in Sub(L, root), NEW i \in 1 .. Len(K[x]), x \in V \cup {e}
      PROVE  K[x][i] \in V \cup {e} \/ \E j \in 1 .. i : f \in Sub(L, K[x][j])
  <2>0. x \in Entity
    BY DEF Sub
  <2>1. CASE x = e
    <3>1. 1 \in 1 .. i /\ f \in Sub(L, K[x][1])
      BY <1>0, <1>1, <1>2, <2>1, SubIs
    <3> QED  BY <3>1
  <2>2. CASE x \in V /\ \E j \in 1 .. i : e \in Sub(L, K[x][j])
    <3>1. PICK j \in 1 .. i : e \in Sub(L, K[x][j])
      BY <2>2
    <3>2. j \in 1 .. Len(K[x])
      BY <2>0, <3>1, KidIs
    <3>3. K[x][j] \in Entity
      BY <2>0, <3>2, KidIs
    <3> QED  BY <1>8, <3>1, <3>3
  <2> QED  BY <1>4, <1>9, <2>1, <2>2
<1>10. ASSUME NEW x \in Sub(L, root), NEW i \in 1 .. Len(K[x]), NEW j \in 1 .. Len(K[x]),
              j < i, f \in Sub(L, K[x][j])
       PROVE  K[x][i] \notin V \cup {e}
  <2>0. x \in Entity /\ x # Null
    BY EntityAssumption DEF Sub
  <2>1. K[x][i] \in Entity /\ K[x][j] \in Entity /\ L[K[x][i]].parent = x /\ L[K[x][j]].parent = x /\ K[x][i] # K[x][j]
    BY <1>10, <2>0, KidIs
  <2>2. CASE K[x][j] = f
    <3>1. x = e /\ K[x][i] # e
      BY <1>2, <2>0, <2>1, <2>2, NotOwnParent
    <3>2. K[x][i] \notin V
      <4>1. SUFFICES ASSUME K[x][i] \in V PROVE FALSE
        OBVIOUS
      <4>2. K[x][i] # root
        BY <1>0, <1>3, <2>1, <3>1, SubIs
      <4>3. K[x][i] # Null
        BY <2>1, EntityAssumption
      <4>4. L[K[x][i]].parent \in V
        BY <1>4, <4>1, <4>2, <4>3
      <4> QED  BY <1>4, <2>1, <3>1, <4>4
    <3> QED  BY <3>1, <3>2
  <2>3. CASE K[x][j] # f
    <3>1. e \in Sub(L, K[x][j])
      BY <1>0, <1>2, <1>10, <2>1, <2>3, SubIs
    <3>2. K[x][i] \notin V
      BY <1>4, <1>10, <3>1
    <3>3. K[x][i] # e
      <4>1. SUFFICES ASSUME K[x][i] = e PROVE FALSE
        OBVIOUS
      <4>2. K[x][i] \in Above(L, e) /\ K[x][j] \in Above(L, e)
        BY <1>0, <1>3, <3>1, <4>1, AboveIs DEF Sub
      <4> QED  BY <1>0, <2>0, <2>1, <4>2, SiblingsApart
    <3> QED  BY <3>2, <3>3
  <2> QED  BY <2>2, <2>3
<1>11. \A x \in (V \cup {e}) \cup {f} : x # Null /\ x # root => L[x].parent \in V \cup {e}
  BY <1>2, <1>4
<1>12. V \cup {e} \subseteq Sub(L, root)
  BY <1>3, <1>4
<1> QED  BY <1>2, <1>6, <1>7, <1>9, <1>10, <1>11, <1>12 DEF Toured, f

\* Back up from a leaf, to the sibling of z or to the end.
LEMMA TourUp ==
  ASSUME NEW L, NEW K, LinkTyped(L), Woven(L, K), Rooted(L), NEW root \in Entity, NEW V, NEW e \in Entity,
         Toured(L, K, root, V, e), L[e].first = Null, NEW z \in Entity, Climbs(L, root, e, z)
  PROVE  Toured(L, K, root, V \cup {e}, Climbed(L, root, e))
<1>0. ParentTyped(L)
  BY LinkFields
<1>1. Len(K[e]) = 0 /\ 1 .. Len(K[e]) = {}
  <2>1. Listed(L, e, K[e]) /\ K[e] \in Seq(Entity) /\ Len(K[e]) \in Nat
    BY AtIs DEF Woven
  <2>2. ~(1 \in 1 .. Len(K[e]))
    BY <2>1, AtIs DEF Listed
  <2> QED  BY <2>1, <2>2
<1>2. e \in Sub(L, root) /\ V \subseteq Entity /\ \A w \in Above(L, e) : w \in Sub(L, root) => w \in V \cup {e}
  BY TourAbove
<1>3. /\ V \subseteq Sub(L, root) /\ e \notin V
      /\ \A x \in V \cup {e} : x # Null /\ x # root => L[x].parent \in V
      /\ \A x \in Sub(L, root) : \A i \in 1 .. Len(K[x]) :
           /\ x \in V => (K[x][i] \in V \/ \E j \in 1 .. i : e \in Sub(L, K[x][j]))
           /\ \A j \in 1 .. Len(K[x]) : j < i /\ e \in Sub(L, K[x][j]) => K[x][i] \notin V
  BY EntityAssumption DEF Toured
<1>4. /\ z \in Above(L, e) /\ z \in Sub(L, root) /\ (z = root \/ L[z].next # Null)
      /\ Climbed(L, root, e) = IF z = root THEN Null ELSE L[z].next
      /\ \A w \in Above(L, e) : z \in Above(L, w) /\ w # z => w # root /\ L[w].next = Null
  BY DEF Climbs
<1>5. V \cup {e} \subseteq Sub(L, root) /\ Sub(L, root) \subseteq Entity /\ root \in Sub(L, root)
  BY <1>0, <1>2, <1>3, SubIs
\* Below z, a child on the way to e is the last of its siblings.
<1>6. ASSUME NEW x \in Entity, NEW i \in 1 .. Len(K[x]), NEW j \in 1 .. i, e \in Sub(L, K[x][j]),
             z \in Above(L, K[x][j]), K[x][j] # z, x \in Sub(L, root)
      PROVE  K[x][i] \in V \cup {e}
  <2>1. j \in 1 .. Len(K[x]) /\ i \in 1 .. Len(K[x]) /\ Len(K[x]) \in Nat
    BY KidIs
  <2>2. K[x][j] \in Entity /\ L[K[x][j]].parent = x /\ (j # Len(K[x]) => L[K[x][j]].next # Null)
    BY <2>1, KidIs
  <2>3. K[x][j] \in Above(L, e)
    BY <1>6 DEF Sub
  <2>4. j = Len(K[x])
    BY <1>4, <1>6, <2>2, <2>3
  <2>5. i = j
    BY <2>1, <2>4
  <2>6. K[x][j] \in Sub(L, root)
    <3>1. K[x][j] # root
      BY <1>4, <1>6, <2>3
    <3> QED  BY <1>0, <1>6, <2>2, <3>1, SubIs, EntityAssumption
  <2> QED  BY <1>2, <2>3, <2>5, <2>6
<1>7. CASE z = root
  <2>1. \A x \in Entity : L[x].parent # Null /\ L[x].parent \in V \cup {e} => x \in V \cup {e}
    <3>1. SUFFICES ASSUME NEW y \in Entity, L[y].parent # Null, L[y].parent \in V \cup {e}
                   PROVE  y \in V \cup {e}
      OBVIOUS
    <3> DEFINE x == L[y].parent
    <3>2. x \in Entity /\ x \in Sub(L, root)
      BY <1>5, <3>1
    <3>3. PICK i \in 1 .. Len(K[x]) : K[x][i] = y
      BY <3>1 DEF Woven
    <3> HIDE DEF x
    <3>4. x \in V
      BY <1>1, <3>1, <3>3 DEF x
    <3>5. CASE \E j \in 1 .. i : e \in Sub(L, K[x][j])
      <4>1. PICK j \in 1 .. i : e \in Sub(L, K[x][j])
        BY <3>5
      <4>2. j \in 1 .. Len(K[x])
        BY <3>2, <4>1, KidIs
      <4>3. K[x][j] \in Entity /\ L[K[x][j]].parent = x
        BY <3>2, <4>2, KidIs
      <4>4. K[x][j] # root
        BY <1>0, <3>2, <4>3, SubIs
      <4>5. root \in Above(L, K[x][j])
        <5>1. K[x][j] \in Sub(L, root)
          BY <1>0, <3>2, <4>3, <4>4, SubIs, EntityAssumption
        <5> QED  BY <5>1 DEF Sub
      <4> QED  BY <1>6, <1>7, <3>2, <3>3, <4>1, <4>4, <4>5
    <3> QED  BY <1>3, <3>2, <3>3, <3>4, <3>5
  <2>2. root \in V \cup {e}
    <3>1. root \in Above(L, e)
      BY <1>2 DEF Sub
    <3> QED  BY <1>2, <1>5, <3>1
  <2>3. Sub(L, root) \subseteq V \cup {e}
    <3> DEFINE T == V \cup {e}
    <3>1. root \in T /\ \A x \in Entity : L[x].parent # Null /\ L[x].parent \in T => x \in T
      BY <2>1, <2>2
    <3> HIDE DEF T
    <3>2. Sub(L, root) \subseteq T
      BY <1>0, <3>1, SubLeast
    <3> QED  BY <3>2 DEF T
  <2>4. V \cup {e} = Sub(L, root)
    BY <1>5, <2>3
  <2>5. \A x \in V \cup {e} : x # Null /\ x # root => L[x].parent \in V \cup {e}
    BY <1>3
  <2>6. Null \notin V \cup {e}
    BY <1>5, EntityAssumption
  <2> QED  BY <1>4, <1>7, <2>4, <2>5, <2>6 DEF Toured
<1>8. CASE z # root
  <2> DEFINE q == L[z].parent
             f == L[z].next
  <2>1. q \in Entity /\ Climbed(L, root, e) = f /\ L[z].next # Null
    BY <1>4, <1>8, NextIs
  <2>2. PICK m \in 1 .. Len(K[q]) : K[q][m] = z /\ m + 1 \in 1 .. Len(K[q]) /\ K[q][m + 1] = f
    BY <1>4, <1>8, NextIs
  <2> HIDE DEF q, f
  <2>3. L[z].parent = q /\ q # Null /\ q \in Sub(L, root)
    <3>1. q # Null
      BY <2>1, EntityAssumption
    <3> QED  BY <1>0, <1>4, <1>8, <3>1, SubIs DEF q
  <2>4. f \in Entity /\ L[f].parent = q /\ f # Null
    BY <2>1, <2>2, KidIs, EntityAssumption
  <2>5. f # root
    BY <1>0, <2>3, <2>4, SubIs
  <2>6. f \in Sub(L, root)
    BY <1>0, <2>3, <2>4, <2>5, SubIs
  <2>7. e \in Sub(L, z)
    BY <1>2, <1>4 DEF Sub
  <2>8. f \notin V
    <3>1. m < m + 1 /\ m + 1 \in 1 .. Len(K[q]) /\ m \in 1 .. Len(K[q])
      BY <2>2
    <3> QED  BY <1>3, <2>2, <2>3, <2>7, <3>1
  <2>9. f # z
    <3>1. m # m + 1 /\ m + 1 \in 1 .. Len(K[q]) /\ m \in 1 .. Len(K[q])
      BY <2>2
    <3> QED  BY <2>1, <2>2, <3>1, KidIs
  \* e is not below the siblings of z.
  <2>10. ASSUME NEW x \in Entity, NEW y \in Entity, L[x].parent = L[y].parent, L[x].parent # Null,
                e \in Sub(L, x), e = y
         PROVE  x = y
    <3>1. x \in Above(L, e) /\ y \in Above(L, e)
      BY <1>0, <2>10, AboveIs DEF Sub
    <3> QED  BY <1>0, <2>10, <3>1, SiblingsApart
  <2>11. f # e
    BY <2>3, <2>4, <2>7, <2>9, <2>10
  <2>12. q \in V
    <3>1. q \in Above(L, e) /\ q # z
      <4>1. L[z].parent \in Above(L, e)
        BY <1>0, <1>2, <1>4, <2>3, AboveIs DEF Sub
      <4> QED  BY <2>3, <4>1, NotOwnParent
    <3>2. q # e
      <4>1. SUFFICES ASSUME q = e PROVE FALSE
        OBVIOUS
      <4>2. m \in 1 .. Len(K[e])
        BY <2>2, <4>1
      <4> QED  BY <1>1, <4>2
    <3> QED  BY <1>2, <2>3, <3>1, <3>2
  <2>13. ASSUME NEW x \in Entity, q \in Sub(L, x) PROVE f \in Sub(L, x) /\ e \in Sub(L, x)
    <3>1. x \in Above(L, q)
      BY <2>13 DEF Sub
    <3>2. Above(L, f) = {f} \cup Above(L, q) /\ Above(L, z) = {z} \cup Above(L, q)
      BY <1>0, <2>3, <2>4, AboveIs
    <3>3. Above(L, z) \subseteq Above(L, e)
      BY <1>0, <1>2, <1>4, AboveAgain DEF Sub
    <3> QED  BY <1>2, <2>4, <3>1, <3>2, <3>3 DEF Sub
  <2>14. ASSUME NEW x \in Entity, f \in Sub(L, x), x # f PROVE q \in Sub(L, x)
    <3>1. L[f].parent \in Sub(L, x)
      BY <1>0, <2>3, <2>4, <2>14, SubIs
    <3> QED  BY <2>4, <3>1
  <2>15. ASSUME NEW x \in Sub(L, root), NEW i \in 1 .. Len(K[x]), x \in V \cup {e}
         PROVE  K[x][i] \in V \cup {e} \/ \E j \in 1 .. i : f \in Sub(L, K[x][j])
    <3>0. x \in Entity
      BY <1>5
    <3>1. x \in V
      BY <1>1, <2>15
    <3>2. CASE \E j \in 1 .. i : e \in Sub(L, K[x][j])
      <4>1. PICK j \in 1 .. i : e \in Sub(L, K[x][j])
        BY <3>2
      <4>2. j \in 1 .. Len(K[x]) /\ Len(K[x]) \in Nat
        BY <3>0, <4>1, KidIs
      <4> DEFINE w == K[x][j]
      <4>3. w \in Entity /\ L[w].parent = x /\ w \in Above(L, e)
        BY <3>0, <4>1, <4>2, KidIs DEF Sub
      <4>4. z \in Above(L, w) \/ w \in Above(L, z)
        BY <1>0, <1>2, <1>4, <4>3, AboveChain
      <4>5. CASE w = z
        <5>1. x = q
          BY <2>3, <4>3, <4>5
        <5>2. j = m
          BY <2>1, <2>2, <4>2, <4>5, <5>1, KidIs
        <5>3. CASE i = m
          <6>1. K[x][i] = z
            BY <4>5, <5>2, <5>3
          <6> QED  BY <1>2, <1>4, <6>1
        <5>4. CASE i # m
          <6>1. m + 1 \in 1 .. i
            BY <4>1, <4>2, <5>2, <5>4
          <6>2. f \in Sub(L, K[x][m + 1])
            BY <1>0, <2>2, <2>4, <5>1, SubIs
          <6> QED  BY <6>1, <6>2
        <5> QED  BY <5>3, <5>4
      <4>6. CASE w # z /\ w \in Above(L, z)
        <5>1. Above(L, z) = {z} \cup Above(L, q)
          BY <1>0, <2>3, AboveIs
        <5>2. q \in Sub(L, w)
          BY <2>1, <4>6, <5>1 DEF Sub
        <5>3. f \in Sub(L, w)
          BY <2>13, <4>3, <5>2
        <5> QED  BY <4>1, <5>3
      <4>7. CASE w # z /\ z \in Above(L, w)
        BY <1>6, <3>0, <4>1, <4>7
      <4> QED  BY <4>4, <4>5, <4>6, <4>7
    <3> QED  BY <1>3, <3>1, <3>2
  <2>16. ASSUME NEW x \in Sub(L, root), NEW i \in 1 .. Len(K[x]), NEW j \in 1 .. Len(K[x]),
                j < i, f \in Sub(L, K[x][j])
         PROVE  K[x][i] \notin V \cup {e}
    <3>0. x \in Entity /\ x # Null
      BY <1>5, EntityAssumption
    <3>1. /\ K[x][i] \in Entity /\ K[x][j] \in Entity /\ L[K[x][i]].parent = x /\ L[K[x][j]].parent = x
          /\ K[x][i] # K[x][j]
      BY <2>16, <3>0, KidIs
    <3>2. CASE K[x][j] = f
      <4>1. x = q
        BY <2>4, <3>1, <3>2
      <4>2. m + 1 = j
        BY <2>1, <2>2, <3>2, <4>1, KidIs
      <4>3. m \in 1 .. Len(K[x]) /\ m < i /\ K[x][m] = z
        BY <2>2, <2>16, <4>1, <4>2
      <4>4. K[x][i] \notin V
        BY <1>3, <2>7, <4>3
      <4>5. K[x][i] # z
        <5>1. m # i
          BY <4>3
        <5> QED  BY <3>0, <4>3, <5>1, KidIs
      <4>6. K[x][i] # e
        BY <2>3, <2>7, <2>10, <3>0, <3>1, <4>1, <4>5
      <4> QED  BY <4>4, <4>6
    <3>3. CASE K[x][j] # f
      <4>1. e \in Sub(L, K[x][j])
        BY <2>13, <2>14, <2>16, <3>1, <3>3
      <4>2. K[x][i] \notin V
        BY <1>3, <2>16, <4>1
      <4>3. K[x][i] # e
        BY <2>10, <3>0, <3>1, <4>1
      <4> QED  BY <4>2, <4>3
    <3> QED  BY <3>2, <3>3
  <2>17. \A x \in (V \cup {e}) \cup {f} : x # Null /\ x # root => L[x].parent \in V \cup {e}
    BY <1>3, <2>4, <2>12
  <2> QED  BY <1>5, <2>1, <2>4, <2>6, <2>8, <2>11, <2>15, <2>16, <2>17 DEF Toured
<1> QED  BY <1>7, <1>8

\* The cached world of x is its local transform below that of its parent.
FreshAt(L, lo, w, x) ==
    w[x] = IF L[x].parent = Null THEN lo[x] ELSE Compose(w[L[x].parent], lo[x])

\* The worlds v are those of w, up to the entities V, that are fresh.
Painted(L, lo, w, V, v) ==
    /\ v \in [Entity -> Frame]
    /\ \A x \in Entity : x \notin V => v[x] = w[x]
    /\ \A x \in V : FreshAt(L, lo, v, x)

\* The walk stands at s when it has visited V.
Walked(L, K, lo, w, root, V, s) ==
    s \in Walk /\ Toured(L, K, root, V, s.at) /\ Painted(L, lo, w, V, s.world)

LEMMA TourOn ==
  ASSUME NEW L, NEW K, LinkTyped(L), Woven(L, K), Rooted(L), NEW root \in Entity, NEW V, NEW e \in Entity,
         Toured(L, K, root, V, e)
  PROVE  Toured(L, K, root, V \cup {e}, Following(L, root, e))
<1>1. CASE L[e].first # Null
  <2>1. Following(L, root, e) = L[e].first
    BY <1>1 DEF Following
  <2> QED  BY <1>1, <2>1, TourDown
<1>2. CASE L[e].first = Null
  <2>1. Following(L, root, e) = Climbed(L, root, e)
    BY <1>2 DEF Following
  <2>2. e \in Sub(L, root) /\ ParentTyped(L)
    BY TourAbove, LinkFields
  <2>3. PICK z \in Entity : Climbs(L, root, e, z)
    BY <2>2, ClimbedIs
  <2> QED  BY <1>2, <2>1, <2>3, TourUp
<1> QED  BY <1>1, <1>2

LEMMA PaintOn ==
  ASSUME NEW L, NEW K, LinkTyped(L), Woven(L, K), Rooted(L), NEW root \in Entity, NEW V, NEW e \in Entity,
         Toured(L, K, root, V, e), NEW lo \in [Entity -> Frame], NEW w, NEW v, Painted(L, lo, w, V, v)
  PROVE  Painted(L, lo, w, V \cup {e}, Updated(L, lo, v, e))
<1> DEFINE p == L[e].parent
           f == IF p = Null THEN lo[e] ELSE Compose(v[p], lo[e])
           u == Updated(L, lo, v, e)
<1>1. v \in [Entity -> Frame] /\ lo[e] \in Frame /\ p \in Entity \cup {Null} /\ p # e
  BY LinkFields, NotOwnParent DEF Painted
<1>2. f \in Frame
  BY <1>1, ComposeTyped
<1>3. u = [v EXCEPT ![e] = f]
  BY DEF Updated
<1> HIDE DEF f, u
<1>4. u \in [Entity -> Frame] /\ u[e] = f /\ \A x \in Entity : x # e => u[x] = v[x]
  BY <1>1, <1>2, <1>3
<1>5. FreshAt(L, lo, u, e)
  BY <1>1, <1>4 DEF FreshAt, f
<1>6. e \in Sub(L, root) /\ V \subseteq Entity /\ V \subseteq Sub(L, root)
  <2>1. V \subseteq Sub(L, root)
    BY DEF Toured
  <2> QED  BY <2>1, TourAbove
<1>7. e \notin V /\ \A x \in V : x # Null /\ x # root => L[x].parent \in V
  BY DEF Toured
<1>8. ASSUME NEW x \in V PROVE FreshAt(L, lo, u, x)
  <2>1. x \in Entity /\ x # e /\ x # Null
    BY <1>6, <1>7, EntityAssumption
  <2>2. L[x].parent # e
    <3>1. CASE x = root
      BY <1>6, <3>1, SubIs, LinkFields
    <3>2. CASE x # root
      BY <1>7, <2>1, <3>2
    <3> QED  BY <3>1, <3>2
  <2>3. L[x].parent \in Entity \cup {Null}
    BY <2>1, LinkFields
  <2>4. FreshAt(L, lo, v, x)
    BY DEF Painted
  <2> QED  BY <1>4, <2>1, <2>2, <2>3, <2>4 DEF FreshAt
<1>9. \A x \in Entity : x \notin V \cup {e} => u[x] = w[x]
  BY <1>4 DEF Painted
<1> QED  BY <1>4, <1>5, <1>8, <1>9 DEF Painted, u

LEMMA WalkOn ==
  ASSUME NEW L, NEW K, LinkTyped(L), Woven(L, K), Rooted(L), NEW root \in Entity, NEW V,
         NEW lo \in [Entity -> Frame], NEW w, NEW s, Walked(L, K, lo, w, root, V, s)
  PROVE  /\ s.at = Null => Visit(L, lo, root, s) = s
         /\ s.at # Null => /\ s.at \in Entity /\ s.at \notin V /\ V \subseteq Entity
                           /\ Walked(L, K, lo, w, root, V \cup {s.at}, Visit(L, lo, root, s))
<1>1. s \in Walk /\ Toured(L, K, root, V, s.at) /\ Painted(L, lo, w, V, s.world)
  BY DEF Walked
<1>2. s.at \in Entity \cup {Null} /\ s.world \in [Entity -> Frame]
  BY <1>1 DEF Walk
<1>3. s.at = Null => Visit(L, lo, root, s) = s
  BY DEF Visit
<1>4. ASSUME s.at # Null
      PROVE  /\ s.at \in Entity /\ s.at \notin V /\ V \subseteq Entity
             /\ Walked(L, K, lo, w, root, V \cup {s.at}, Visit(L, lo, root, s))
  <2>1. PICK e \in Entity : e = s.at
    BY <1>2, <1>4
  <2> DEFINE on == Following(L, root, e)
             v == Updated(L, lo, s.world, e)
  <2>2. Visit(L, lo, root, s) = [at |-> on, world |-> v]
    BY <1>4, <2>1 DEF Visit
  <2>3. Toured(L, K, root, V, e)
    BY <1>1, <2>1
  <2>4. Toured(L, K, root, V \cup {e}, on) /\ Painted(L, lo, w, V \cup {e}, v)
    <3>1. Toured(L, K, root, V \cup {e}, on)
      BY <2>3, TourOn
    <3>2. Painted(L, lo, w, V, s.world)
      BY <1>1
    <3>3. Painted(L, lo, w, V \cup {e}, v)
      BY <2>3, <3>2, PaintOn
    <3> QED  BY <3>1, <3>3
  <2>5. e \notin V /\ V \subseteq Entity
    <3>1. e \notin V
      BY <2>3 DEF Toured
    <3> QED  BY <2>3, <3>1, TourAbove
  <2>6. on \in Entity \cup {Null} /\ v \in [Entity -> Frame]
    BY <2>4 DEF Toured, Painted, Sub
  <2> HIDE DEF on, v
  <2>7. [at |-> on, world |-> v] \in Walk
    BY <2>6 DEF Walk
  <2> QED  BY <2>1, <2>2, <2>4, <2>5, <2>7 DEF Walked
<1> QED  BY <1>3, <1>4

\* The walk meets every entity of the subtree, and leaves each fresh below
\* its parent.
LEMMA PropagatedIs ==
  ASSUME NEW L, NEW K, LinkTyped(L), Woven(L, K), Rooted(L), NEW root \in Entity,
         NEW lo \in [Entity -> Frame], NEW w \in [Entity -> Frame]
  PROVE  Painted(L, lo, w, Sub(L, root), Propagated(L, lo, w, root))
<1>0. PICK N \in Nat : N = Cardinality(Entity)
  BY DepthIs
<1> DEFINE next == [s \in Walk |-> Visit(L, lo, root, s)]
           start == [at |-> root, world |-> w]
           Seen(s) == {V \in SUBSET Entity : Walked(L, K, lo, w, root, V, s)}
           D == {s \in Walk : Seen(s) # {}}
           r == Rounds(next, start)
<1>1. Walked(L, K, lo, w, root, {}, start)
  <2>1. start \in Walk
    BY DEF Walk
  <2>2. Painted(L, lo, w, {}, w)
    BY DEF Painted
  <2>3. Toured(L, K, root, {}, root)
    BY TourStarts
  <2> QED  BY <2>1, <2>2, <2>3 DEF Walked
<1>2. ASSUME NEW s, NEW V \in Seen(s)
      PROVE  /\ s \in Walk
             /\ s.at = Null => next[s] = s /\ V = Sub(L, root) /\ Painted(L, lo, w, Sub(L, root), s.world)
             /\ s.at # Null => s.at \in Entity /\ s.at \notin V /\ V \cup {s.at} \in Seen(next[s])
  <2>1. Walked(L, K, lo, w, root, V, s) /\ V \subseteq Entity
    OBVIOUS
  <2>2. s \in Walk
    BY <2>1 DEF Walked
  <2>3. next[s] = Visit(L, lo, root, s)
    BY <2>2
  <2>4. s.at = Null => V = Sub(L, root) /\ Painted(L, lo, w, V, s.world)
    BY <2>1 DEF Walked, Toured
  <2> HIDE DEF next
  <2> QED  BY <2>1, <2>2, <2>3, <2>4, WalkOn
<1>3. {} \in Seen(start) /\ start \in Walk
  BY <1>1 DEF Walked
<1>4. \A s \in D : next[s] \in D
  <2>1. SUFFICES ASSUME NEW s \in D PROVE next[s] \in D
    OBVIOUS
  <2>2. PICK V : V \in Seen(s)
    OBVIOUS
  <2> HIDE DEF Seen, next
  <2>3. PICK U : U \in Seen(next[s])
    BY <1>2, <2>2
  <2>4. next[s] \in Walk
    BY <1>2, <2>3
  <2> QED  BY <2>3, <2>4
<1>5. start \in D
  BY <1>3
<1>6. r \in [0 .. N -> D] /\ r[0] = start /\ \A n \in 1 .. N : r[n] = next[r[n - 1]]
  <2>1. PICK b \in D : b = start
    BY <1>5
  <2>2. r = Rounds(next, b)
    BY <2>1, Zenon
  <2> HIDE DEF r, D, next, start
  <2>3. /\ r \in [Depth -> D] /\ r[0] = b
        /\ \A n \in 1 .. Cardinality(Entity) : r[n] = next[r[n - 1]]
    BY <1>4, <2>2, RoundsIn
  <2> QED  BY <1>0, <2>1, <2>3 DEF Depth
<1>7. Propagated(L, lo, w, root) = r[N].world
  BY <1>0 DEF Propagated
<1> HIDE DEF r, next, start, Seen, D
<1> DEFINE T == {n \in 0 .. N : \E V \in Seen(r[n]) : r[n].at = Null \/ Cardinality(V) = n}
<1>8. 0 \in T
  <2>1. Cardinality({}) = 0
    BY FS_EmptySet
  <2> QED  BY <1>3, <1>6, <2>1
<1>9. ASSUME NEW n \in 1 .. N, n - 1 \in T PROVE n \in T
  <2>1. PICK V \in Seen(r[n - 1]) : r[n - 1].at = Null \/ Cardinality(V) = n - 1
    BY <1>9
  <2>2. r[n] = next[r[n - 1]]
    BY <1>6
  <2>3. CASE r[n - 1].at = Null
    <3>1. r[n] = r[n - 1]
      BY <1>2, <2>1, <2>2, <2>3
    <3> QED  BY <1>9, <2>1, <2>3, <3>1
  <2>4. CASE r[n - 1].at # Null
    <3>1. r[n - 1].at \notin V /\ V \cup {r[n - 1].at} \in Seen(r[n])
      BY <1>2, <2>1, <2>2, <2>4
    <3>2. V \in SUBSET Entity
      BY <2>1 DEF Seen
    <3>3. IsFiniteSet(V)
      BY <3>2, EntityAssumption, FS_Subset
    <3>4. Cardinality(V \cup {r[n - 1].at}) = Cardinality(V) + 1
      BY <3>1, <3>3, FS_AddElement
    <3>5. Cardinality(V \cup {r[n - 1].at}) = n
      BY <2>1, <2>4, <3>4
    <3> QED  BY <1>9, <3>1, <3>5
  <2> QED  BY <2>3, <2>4
<1> HIDE DEF T
<1>10. \A n \in 0 .. N : n \in T
  BY <1>8, <1>9, EveryNumber
<1>11. PICK V \in Seen(r[N]) : r[N].at = Null \/ Cardinality(V) = N
  <2>1. N \in T
    BY <1>0, <1>10
  <2> QED  BY <2>1 DEF T
<1>12. r[N].at = Null
  <2>1. SUFFICES ASSUME r[N].at # Null PROVE FALSE
    OBVIOUS
  <2>2. r[N].at \in Entity /\ r[N].at \notin V /\ V \in SUBSET Entity /\ Cardinality(V) = Cardinality(Entity)
    BY <1>0, <1>2, <1>11, <2>1 DEF Seen
  <2>3. V = Entity
    BY <2>2, EntityAssumption, FS_Subset
  <2> QED  BY <2>2, <2>3
<1> QED  BY <1>2, <1>7, <1>11, <1>12

\* A propagation from root makes the entities Z fresh, when those outside
\* its subtree are.
LEMMA PropagatedFresh ==
  ASSUME NEW L, NEW K, LinkTyped(L), Woven(L, K), Rooted(L), NEW root \in Entity,
         NEW lo \in [Entity -> Frame], NEW w \in [Entity -> Frame], NEW Z \in SUBSET Entity,
         \A x \in Z : x \notin Sub(L, root) => FreshAt(L, lo, w, x)
  PROVE  /\ Propagated(L, lo, w, root) \in [Entity -> Frame]
         /\ \A x \in Z : FreshAt(L, lo, Propagated(L, lo, w, root), x)
         /\ \A x \in Entity : x \notin Sub(L, root) => Propagated(L, lo, w, root)[x] = w[x]
<1> DEFINE v == Propagated(L, lo, w, root)
<1>1. /\ v \in [Entity -> Frame]
      /\ \A x \in Entity : x \notin Sub(L, root) => v[x] = w[x]
      /\ \A x \in Sub(L, root) : FreshAt(L, lo, v, x)
  BY PropagatedIs DEF Painted
<1> HIDE DEF v
<1>2. ASSUME NEW x \in Z, x \notin Sub(L, root) PROVE FreshAt(L, lo, v, x)
  <2>1. x \in Entity /\ x # root /\ L[x].parent \in Entity \cup {Null}
    BY <1>2, LinkFields, SubIs
  <2>2. L[x].parent # Null => L[x].parent \notin Sub(L, root)
    BY <1>2, <2>1, LinkFields, SubIs
  <2>3. FreshAt(L, lo, w, x)
    BY <1>2
  <2> QED  BY <1>1, <1>2, <2>1, <2>2, <2>3 DEF FreshAt
<1> QED  BY <1>1, <1>2 DEF v

LEMMA WorldFromLocalsTyped ==
  ASSUME LinkTyped(links), local \in [Entity -> Frame], NEW e \in Entity
  PROVE  WorldFromLocals(e) \in Frame
<1> DEFINE next == [s \in Climb |-> Ascended(s)]
           start == [at |-> e, product |-> Identity]
           r == Rounds(next, start)
<1>1. PICK b \in Climb : b = start
  BY IdentityTyped DEF Climb
<1>2. ASSUME NEW s \in Climb PROVE next[s] \in Climb
  <2>1. s.at \in Entity \cup {Null} /\ s.product \in Frame
    BY DEF Climb
  <2>2. CASE s.at = Null
    BY <2>2 DEF Ascended
  <2>3. CASE s.at # Null
    <3>1. links[s.at].parent \in Entity \cup {Null} /\ local[s.at] \in Frame
      BY <2>1, <2>3, LinkFields
    <3>2. Compose(local[s.at], s.product) \in Frame
      BY <2>1, <3>1, ComposeTyped
    <3> QED  BY <2>3, <3>1, <3>2 DEF Ascended, Climb
  <2> QED  BY <2>2, <2>3
<1>3. r = Rounds(next, b)
  BY <1>1, Zenon
<1>4. WorldFromLocals(e) = r[Cardinality(Entity)].product
  BY DEF WorldFromLocals
<1> HIDE DEF r, next
<1>5. r \in [Depth -> Climb]
  BY <1>2, <1>3, RoundsIn
<1>6. Cardinality(Entity) \in Depth
  BY DepthIs DEF Depth
<1>7. r[Cardinality(Entity)] \in Climb
  BY <1>5, <1>6
<1> QED  BY <1>4, <1>7 DEF Climb

\* Every entity of the forest is below one of its roots.
LEMMA RootAbove ==
  ASSUME NEW L, NEW K, NEW V \in SUBSET Entity, Forest(L, K, V), NEW x \in V
  PROVE  \E y \in V : L[y].parent = Null /\ x \in Sub(L, y)
<1>1. LinkTyped(L) /\ Rooted(L) /\ ParentTyped(L) /\ x \in Entity
  BY LinkFields DEF Forest
<1>2. x \in Above(L, x) /\ Above(L, x) \in SUBSET Entity
  BY <1>1, AboveIs
<1>3. PICK y \in Above(L, x) : L[y].parent \notin Above(L, x)
  <2>1. Above(L, x) # {}
    BY <1>2
  <2> QED  BY <1>1, <1>2, <2>1 DEF Rooted
<1>4. L[y].parent = Null
  BY <1>1, <1>3, AboveIs
<1>5. Above(L, x) \subseteq V
  <2>1. \A z \in V \cap Entity : L[z].parent \in V \cup {Null}
    BY ForestLive
  <2> QED  BY <1>1, <2>1, AboveLeast
<1> QED  BY <1>1, <1>3, <1>4, <1>5 DEF Sub

\* Nothing is below two roots.
LEMMA RootsApart ==
  ASSUME NEW L, ParentTyped(L), Rooted(L), NEW a \in Entity, NEW b \in Entity, a # b,
         L[a].parent = Null, L[b].parent = Null, NEW x \in Sub(L, a)
  PROVE  x \notin Sub(L, b)
<1>1. SUFFICES ASSUME x \in Sub(L, b) PROVE FALSE
  OBVIOUS
<1>2. x \in Entity /\ a \in Above(L, x) /\ b \in Above(L, x)
  BY <1>1 DEF Sub
<1>3. b \in Above(L, a) \/ a \in Above(L, b)
  BY <1>2, AboveChain
<1>4. Above(L, a) = {a} /\ Above(L, b) = {b}
  BY AboveIs
<1> QED  BY <1>3, <1>4

\* propagateTransforms leaves the whole scene fresh.
LEMMA AllPropagatedIs ==
  ASSUME NEW K, live \in SUBSET Entity, Forest(links, K, live),
         local \in [Entity -> Frame], world \in [Entity -> Frame]
  PROVE  /\ AllPropagated \in [Entity -> Frame]
         /\ \A x \in live : FreshAt(links, local, AllPropagated, x)
<1>0. PICK N \in Nat : N = Cardinality(Entity)
  BY DepthIs
<1> DEFINE next == [s \in Sweep |-> Swept(s)]
           start == [left |-> Roots, world |-> world]
           Done(s) == {x \in live : \E y \in Roots \ s.left : x \in Sub(links, y)}
           D == {s \in Sweep : s.left \subseteq Roots /\ \A x \in Done(s) : FreshAt(links, local, s.world, x)}
           r == Rounds(next, start)
<1>1. /\ LinkTyped(links) /\ Woven(links, K) /\ Rooted(links) /\ ParentTyped(links)
      /\ Roots \subseteq Entity /\ \A y \in Roots : y \in live /\ links[y].parent = Null
  BY LinkFields DEF Forest, Roots
<1>2. PICK b \in D : b = start
  <2>1. start \in Sweep
    BY <1>1 DEF Sweep
  <2>2. Done(start) = {}
    OBVIOUS
  <2> QED  BY <2>1, <2>2
<1>3. ASSUME NEW s \in D
      PROVE  /\ next[s] \in D
             /\ s.left = {} => next[s].left = {}
             /\ s.left # {} => \E y \in s.left : next[s].left = s.left \ {y}
  <2>1. s \in Sweep /\ s.left \in SUBSET Entity /\ s.world \in [Entity -> Frame] /\ s.left \subseteq Roots
        /\ \A x \in Done(s) : FreshAt(links, local, s.world, x)
    BY DEF Sweep
  <2>2. CASE s.left = {}
    BY <2>1, <2>2 DEF Swept
  <2>3. CASE s.left # {}
    <3> DEFINE root == CHOOSE e \in s.left : TRUE
               v == Propagated(links, local, s.world, root)
    <3>1. root \in s.left /\ root \in Entity /\ links[root].parent = Null /\ root \in live
      BY <1>1, <2>1, <2>3
    <3>2. next[s] = [left |-> s.left \ {root}, world |-> v]
      BY <2>1, <2>3 DEF Swept
    <3> HIDE DEF root
    <3> DEFINE Z == Done([left |-> s.left \ {root}, world |-> v])
    <3>3. Z = {x \in live : \E y \in Roots \ (s.left \ {root}) : x \in Sub(links, y)}
      OBVIOUS
    <3>4. \A x \in Z : x \notin Sub(links, root) => x \in Done(s)
      BY <3>3
    <3>5. Z \in SUBSET Entity
      BY <3>3
    <3> HIDE DEF Z, Done
    <3>6. v \in [Entity -> Frame] /\ \A x \in Z : FreshAt(links, local, v, x)
      <4>1. \A x \in Z : x \notin Sub(links, root) => FreshAt(links, local, s.world, x)
        BY <2>1, <3>4
      <4> QED  BY <1>1, <2>1, <3>1, <3>5, <4>1, PropagatedFresh
    <3> HIDE DEF v
    <3>7. [left |-> s.left \ {root}, world |-> v] \in Sweep
      BY <2>1, <3>6 DEF Sweep
    <3>8. next[s] \in D
      BY <2>1, <3>2, <3>6, <3>7, SMTT(30) DEF Z
    <3>9. next[s].left = s.left \ {root}
      BY <3>2
    <3> QED  BY <2>3, <3>1, <3>8, <3>9
  <2> QED  BY <2>2, <2>3
<1>4. AllPropagated = r[N].world
  BY <1>0 DEF AllPropagated
<1>5. r = Rounds(next, b)
  BY <1>2, Zenon
<1>6. \A s \in D : /\ s \in Sweep /\ s.left \subseteq Roots
                   /\ \A x \in Done(s) : FreshAt(links, local, s.world, x)
  OBVIOUS
<1>7. b.left = Roots
  BY <1>2
<1>8. \A s : s.left = {} => \A x \in live : (\E y \in Roots : x \in Sub(links, y)) => x \in Done(s)
  OBVIOUS
<1> HIDE DEF r, next, start, D, Done
<1>9. r \in [0 .. N -> D] /\ r[0] = b /\ \A n \in 1 .. N : r[n] = next[r[n - 1]]
  <2>1. /\ r \in [Depth -> D] /\ r[0] = b
        /\ \A n \in 1 .. Cardinality(Entity) : r[n] = next[r[n - 1]]
    BY <1>3, <1>5, RoundsIn
  <2> QED  BY <1>0, <2>1 DEF Depth
<1>10. \A n \in 0 .. N : IsFiniteSet(r[n].left) /\ Cardinality(r[n].left) \in Nat
  <2>1. SUFFICES ASSUME NEW n \in 0 .. N PROVE IsFiniteSet(r[n].left) /\ Cardinality(r[n].left) \in Nat
    OBVIOUS
  <2>2. r[n].left \in SUBSET Entity
    BY <1>1, <1>6, <1>9
  <2>3. IsFiniteSet(r[n].left)
    BY <2>2, EntityAssumption, FS_Subset
  <2> QED  BY <2>3, FS_CardinalityType
<1> DEFINE T == {n \in 0 .. N : Cardinality(r[n].left) + n <= N}
<1>11. 0 \in T
  <2>1. r[0].left \in SUBSET Entity
    BY <1>1, <1>7, <1>9
  <2>2. Cardinality(r[0].left) <= Cardinality(Entity) /\ Cardinality(r[0].left) \in Nat
    BY <1>0, <1>10, <2>1, EntityAssumption, FS_Subset
  <2>3. PICK u \in Nat : u = Cardinality(r[0].left)
    BY <2>2
  <2> QED  BY <1>0, <2>2, <2>3
<1>12. ASSUME NEW n \in 1 .. N, n - 1 \in T PROVE n \in T
  <2>1. n - 1 \in 0 .. N /\ n \in 0 .. N /\ r[n] = next[r[n - 1]] /\ r[n - 1] \in D
    BY <1>0, <1>9
  <2>2. PICK u \in Nat : u = Cardinality(r[n - 1].left) /\ u + (n - 1) <= N
    BY <1>10, <1>12, <2>1
  <2>3. CASE r[n - 1].left = {}
    <3>1. r[n].left = {}
      BY <1>3, <2>1, <2>3
    <3>2. Cardinality(r[n].left) = 0
      BY <3>1, FS_EmptySet
    <3> QED  BY <1>12, <2>1, <3>2
  <2>4. CASE r[n - 1].left # {}
    <3>1. PICK y \in r[n - 1].left : r[n].left = r[n - 1].left \ {y}
      BY <1>3, <2>1, <2>4
    <3> DEFINE W == r[n - 1].left
    <3> HIDE DEF W
    <3>4. IsFiniteSet(W) /\ y \in W
      BY <1>10, <2>1, <3>1 DEF W
    <3>5. Cardinality(W \ {y}) = Cardinality(W) - 1
      BY <3>4, FS_RemoveElement
    <3>2. Cardinality(r[n].left) = Cardinality(r[n - 1].left) - 1
      BY <3>1, <3>5 DEF W
    <3>3. Cardinality(r[n].left) = u - 1
      BY <2>2, <3>2
    <3> QED  BY <2>1, <2>2, <3>3
  <2> QED  BY <2>3, <2>4
<1> HIDE DEF T
<1>13. \A n \in 0 .. N : n \in T
  BY <1>11, <1>12, EveryNumber
<1>14. r[N].left = {}
  <2>1. N \in 0 .. N /\ N \in T
    BY <1>0, <1>13
  <2>2. PICK u \in Nat : u = Cardinality(r[N].left)
    BY <1>10, <2>1
  <2>3. u + N <= N
    BY <2>1, <2>2 DEF T
  <2>4. Cardinality(r[N].left) = 0
    BY <2>2, <2>3
  <2> QED  BY <1>10, <2>1, <2>4, FS_EmptySet
<1>15. r[N] \in D
  BY <1>0, <1>9
<1>16. \A x \in live : \E y \in Roots : x \in Sub(links, y)
  <2>1. SUFFICES ASSUME NEW x \in live PROVE \E y \in Roots : x \in Sub(links, y)
    OBVIOUS
  <2>2. PICK y \in live : links[y].parent = Null /\ x \in Sub(links, y)
    BY RootAbove
  <2> QED  BY <2>2 DEF Roots
<1> QED  BY <1>4, <1>6, <1>8, <1>14, <1>15, <1>16 DEF Sweep

-----------------------------------------------------------------------------
(* The invariant.                                                          *)

\* The types, and the links as a forest of the live entities.
Shape ==
    /\ live \in SUBSET Entity /\ spent \subseteq Entity \ live
    /\ local \in [Entity -> Frame] /\ world \in [Entity -> Frame] /\ reading \in BOOLEAN
    /\ Forest(links, Kids(links), live)

HierarchyInv == Shape /\ WorldFresh

\* The children of an entity of a forest are as many as its list is long.
LEMMA RowIs ==
  ASSUME NEW L, NEW K, NEW V \in SUBSET Entity, Forest(L, K, V), NEW e \in V
  PROVE  LET mine == {x \in V : L[x].parent = e}
         IN  ToSet(K[e]) = mine /\ Len(K[e]) = Cardinality(mine)
<1> DEFINE mine == {x \in V : L[x].parent = e}
<1>1. ToSet(K[e]) = mine
  <2>1. \A x \in Entity : x \in ToSet(K[e]) <=> L[x].parent = e
    BY ChildIs DEF Forest
  <2>2. \A x \in Entity : L[x].parent = e => x \in V
    BY EntityAssumption, ForestLive
  <2>3. ToSet(K[e]) \subseteq Entity
    BY ChildIs DEF Forest
  <2> QED  BY <2>1, <2>2, <2>3
<1>2. K[e] \in Seq(Entity) /\ Distinct(K[e])
  BY DEF Forest, Woven, Listed
<1>3. IsFiniteSet(mine)
  <2>1. mine \subseteq Entity
    OBVIOUS
  <2> QED  BY <2>1, EntityAssumption, FS_Subset
<1> HIDE DEF mine
<1>4. PICK s : s = K[e]
  OBVIOUS
<1>5. PICK k \in Nat : k = Len(s)
  BY <1>2, <1>4, AtIs
<1>6. s \in [1 .. k -> mine] /\ \A x \in mine : \E i \in 1 .. k : s[i] = x
  <2>1. s \in Seq(Entity)
    BY <1>2, <1>4
  <2>2. mine = {s[i] : i \in 1 .. k}
    BY <1>1, <1>4, <1>5, <2>1 DEF ToSet
  <2>3. s = [i \in 1 .. k |-> s[i]]
    BY <1>5, <2>1
  <2> QED  BY <2>2, <2>3
<1>7. s \in Injection(1 .. k, mine)
  BY <1>2, <1>4, <1>5, <1>6 DEF Distinct, Injection, IsInjective
<1>8. s \in Surjection(1 .. k, mine)
  BY <1>6 DEF Surjection
<1>9. Cardinality(1 .. k) = Cardinality(mine)
  BY <1>3, <1>7, <1>8, FS_Injection
<1>10. Cardinality(1 .. k) = k
  <2>1. Cardinality(1 .. k) = (IF 1 > k THEN 0 ELSE k - 1 + 1)
    BY FS_Interval
  <2> QED  BY <2>1
<1>11. ToSet(K[e]) = mine /\ Len(K[e]) = Cardinality(mine)
  BY <1>1, <1>4, <1>5, <1>9, <1>10
<1> QED  BY <1>11 DEF mine

LEMMA KidsShape ==
  ASSUME Shape
  PROVE  /\ LinkTyped(links) /\ Woven(links, Kids(links)) /\ Rooted(links) /\ ParentTyped(links)
         /\ live \in SUBSET Entity /\ Forest(links, Kids(links), live)
         /\ \A e \in Entity : Kids(links)[e] = Children(links, e)
<1>1. LinkTyped(links)
  BY DEF Shape, Forest
<1>2. ParentTyped(links)
  BY <1>1, LinkFields
<1> QED  BY <1>1, <1>2 DEF Shape, Forest, Kids

\* The invariant gives LinksSound and Acyclic.
LEMMA ShapeLinks ==
  ASSUME Shape
  PROVE  LinksSound /\ Acyclic
<1> DEFINE K == Kids(links)
<1>1. /\ LinkTyped(links) /\ Woven(links, K) /\ Rooted(links) /\ ParentTyped(links)
      /\ live \in SUBSET Entity /\ Forest(links, K, live)
      /\ \A e \in Entity : K[e] = Children(links, e)
  BY KidsShape
<1> HIDE DEF K
<1>2. Acyclic
  <2>1. \A e \in live : e \in Entity
    BY <1>1
  <2>2. \A e \in Entity : Ancestor(links, e)[Cardinality(Entity)] = Null
    BY <1>1, AncestorEnds
  <2> QED  BY <2>1, <2>2 DEF Acyclic
<1>3. ASSUME NEW e \in live
      PROVE  /\ ToSet(K[e]) = {x \in live : links[x].parent = e}
             /\ Len(K[e]) = Cardinality({x \in live : links[x].parent = e})
             /\ links[e].count = Len(K[e])
             /\ links[e].last = IF K[e] = <<>> THEN Null ELSE K[e][Len(K[e])]
             /\ \A n \in DOMAIN K[e] :
                  links[K[e][n]].previous = IF n = 1 THEN Null ELSE K[e][n - 1]
             /\ links[e].parent = Null => links[e].next = Null /\ links[e].previous = Null
  <2>1. /\ ToSet(K[e]) = {x \in live : links[x].parent = e}
        /\ Len(K[e]) = Cardinality({x \in live : links[x].parent = e})
    BY <1>1, RowIs, SMTT(30)
  <2>2. e \in Entity
    BY <1>1
  <2>3. Listed(links, e, K[e]) /\ K[e] \in Seq(Entity)
    BY <1>1, <2>2 DEF Woven, Listed
  <2>4. PICK s \in Seq(Entity) : s = K[e]
    BY <2>3
  <2>5. /\ links[e].count = Len(s) /\ links[e].last = At(s, Len(s))
        /\ \A i \in 1 .. Len(s) : links[s[i]].previous = At(s, i - 1)
    BY <2>3, <2>4 DEF Listed
  <2>6. At(s, Len(s)) = IF s = <<>> THEN Null ELSE s[Len(s)]
    BY DEF At
  <2>7. \A n \in 1 .. Len(s) : At(s, n - 1) = IF n = 1 THEN Null ELSE s[n - 1]
    BY DEF At
  <2>8. links[e].parent = Null => links[e].next = Null /\ links[e].previous = Null
    BY <1>1, <2>2 DEF Woven
  <2>9. DOMAIN s = 1 .. Len(s)
    OBVIOUS
  <2> QED  BY <2>1, <2>4, <2>5, <2>6, <2>7, <2>8, <2>9
<1>4. \A e \in live : K[e] = Children(links, e)
  BY <1>1
<1>5. LinksSound
  BY <1>3, <1>4 DEF LinksSound
<1> QED  BY <1>2, <1>5

-----------------------------------------------------------------------------
(* What setParent and unparent refuse.                                     *)

\* In a forest the links around an entity agree.
LEMMA AgreeIs ==
  ASSUME NEW K, live \in SUBSET Entity, Forest(links, K, live), NEW c \in live
  PROVE  LinksAgree(links, c)
<1>1. LinkTyped(links) /\ Woven(links, K) /\ Rooted(links) /\ c \in Entity
  BY DEF Forest
<1>2. CASE links[c].parent = Null
  BY <1>1, <1>2 DEF LinksAgree, Woven
<1>3. CASE links[c].parent # Null
  <2> DEFINE p == links[c].parent
             a == links[c].previous
             b == links[c].next
  <2>1. /\ p \in Entity /\ links[p].count # 0
        /\ \E k \in 1 .. Len(K[p]) : K[p][k] = c /\ a = At(K[p], k - 1) /\ b = At(K[p], k + 1)
    BY <1>1, <1>3, Placing
  <2>2. p \in live
    BY <1>1, <1>3, ForestLive
  <2> HIDE DEF p, a, b
  <2>3. PICK s : s = K[p]
    OBVIOUS
  <2>4. Listed(links, p, s) /\ s \in Seq(Entity)
    BY <1>1, <2>1, <2>3 DEF Woven
  <2>5. PICK k \in 1 .. Len(s) : s[k] = c /\ a = At(s, k - 1) /\ b = At(s, k + 1)
    BY <2>1, <2>3
  <2>6. /\ Len(s) \in Nat
        /\ \A i \in 1 .. Len(s) : s[i] \in Entity /\ At(s, i) = s[i] /\ At(s, i) # Null
        /\ \A i \in Int : ~(i \in 1 .. Len(s)) => At(s, i) = Null
    BY <2>4, AtIs
  <2>7. ASSUME a # Null PROVE a \in live /\ links[a].next = c
    <3>1. k - 1 \in 1 .. Len(s) /\ a = s[k - 1]
      BY <2>5, <2>6, <2>7
    <3>2. links[a].parent = p /\ links[a].next = At(s, (k - 1) + 1)
      BY <2>4, <3>1 DEF Listed
    <3>3. a \in live
      BY <2>1, <2>6, <3>1, <3>2, EntityAssumption, ForestLive
    <3> QED  BY <2>5, <2>6, <3>2, <3>3
  <2>8. ASSUME b # Null PROVE b \in live /\ links[b].previous = c
    <3>1. k + 1 \in 1 .. Len(s) /\ b = s[k + 1]
      BY <2>5, <2>6, <2>8
    <3>2. links[b].parent = p /\ links[b].previous = At(s, (k + 1) - 1)
      BY <2>4, <3>1 DEF Listed
    <3>3. b \in live
      BY <2>1, <2>6, <3>1, <3>2, EntityAssumption, ForestLive
    <3> QED  BY <2>5, <2>6, <3>2, <3>3
  <2>9. ASSUME a = Null PROVE links[p].first = c
    <3>1. k = 1
      BY <2>5, <2>6, <2>9
    <3> QED  BY <2>4, <2>5, <2>6, <3>1 DEF Listed
  <2>10. ASSUME b = Null PROVE links[p].last = c
    <3>1. k = Len(s)
      BY <2>5, <2>6, <2>10
    <3> QED  BY <2>4, <2>5, <2>6, <3>1 DEF Listed
  <2>11. p # Null
    BY <2>1, EntityAssumption
  <2> QED  BY <2>1, <2>2, <2>7, <2>8, <2>9, <2>10, <2>11 DEF LinksAgree, p, a, b
<1> QED  BY <1>2, <1>3

\* Nothing below c takes c: the climb of setParent finds it.
LEMMA CycleIs ==
  ASSUME NEW L, LinkTyped(L), Rooted(L), NEW c \in Entity, NEW p \in Entity
  PROVE  /\ c # p /\ ~ClosesCycle(L, c, p) <=> c \notin Above(L, p)
         /\ p \in Sub(L, c) <=> c \in Above(L, p)
<1>1. ParentTyped(L)
  BY LinkFields
<1>2. p \in Above(L, p)
  BY <1>1, AboveIs
<1>3. ASSUME L[c].parent = p PROVE c \notin Above(L, p)
  <2>1. L[c].parent # Null
    BY <1>3, EntityAssumption
  <2>2. c \in Above(L, c) /\ L[c].parent \in Above(L, c)
    BY <1>1, <2>1, AboveIs
  <2>3. p \in Above(L, c)
    BY <1>3, <2>2
  <2>4. SUFFICES ASSUME c \in Above(L, p) PROVE FALSE
    OBVIOUS
  <2>5. p = c
    BY <1>1, <2>3, <2>4, AboveOnce
  <2> QED  BY <1>3, <2>5, NotOwnParent
<1>4. c \in Above(L, p) <=> \E n \in Depth : Ancestor(L, p)[n] = c
  BY DEF Above
<1> QED  BY <1>2, <1>3, <1>4 DEF ClosesCycle, Sub

LEMMA SubtreeIs ==
  ASSUME Shape, NEW e \in Entity
  PROVE  Tree!Subtree(e) = Sub(links, e)
<1>1. /\ LinkTyped(links) /\ Woven(links, Kids(links)) /\ Rooted(links) /\ ParentTyped(links)
      /\ \A x \in Entity : Kids(links)[x] = Children(links, x)
  BY KidsShape
<1>2. \A y \in Entity : Tree!ToSet(Children(links, y)) = {x \in Entity : links[x].parent = y}
  <2>1. SUFFICES ASSUME NEW y \in Entity
                 PROVE  ToSet(Children(links, y)) = {x \in Entity : links[x].parent = y}
    BY DEF Tree!ToSet, ToSet
  <2>2. \A x \in Entity : x \in ToSet(Kids(links)[y]) <=> links[x].parent = y
    BY <1>1, ChildIs
  <2>3. ToSet(Kids(links)[y]) \subseteq Entity
    BY <1>1, ChildIs
  <2> QED  BY <1>1, <2>2, <2>3
<1> DEFINE Closed(T) == \A y \in T : \A x \in Entity : links[x].parent = y => x \in T
<1>3. Tree!Subtree(e) = {x \in Entity : \A T \in SUBSET Entity : e \in T /\ Closed(T) => x \in T}
  <2> DEFINE bonds == UNION {{y} \X Tree!ToSet([q \in Entity |-> Children(links, q)][y]) : y \in Entity}
  <2>1. bonds = UNION {{y} \X {x \in Entity : links[x].parent = y} : y \in Entity}
    BY <1>2
  <2> HIDE DEF bonds
  <2>2. ASSUME NEW T \in SUBSET Entity
        PROVE  (\A b \in bonds : b[1] \in T => b[2] \in T) <=> Closed(T)
    <3>1. ASSUME Closed(T), NEW b \in bonds, b[1] \in T PROVE b[2] \in T
      BY <2>1, <3>1
    <3>2. ASSUME \A b \in bonds : b[1] \in T => b[2] \in T PROVE Closed(T)
      <4>1. SUFFICES ASSUME NEW y \in T, NEW x \in Entity, links[x].parent = y PROVE x \in T
        OBVIOUS
      <4>2. <<y, x>> \in bonds
        BY <2>1, <4>1
      <4> QED  BY <3>2, <4>2
    <3> QED  BY <3>1, <3>2
  <2> HIDE DEF Closed
  <2>3. Tree!Subtree(e) = {x \in Entity : \A Z \in {T \in SUBSET Entity :
                             e \in T /\ \A b \in bonds : b[1] \in T => b[2] \in T} : x \in Z}
    BY DEF Tree!Subtree, bonds
  <2> QED  BY <2>2, <2>3
<1>4. ASSUME NEW T \in SUBSET Entity, e \in T, Closed(T) PROVE Sub(links, e) \subseteq T
  <2>1. \A x \in Entity : links[x].parent # Null /\ links[x].parent \in T => x \in T
    BY <1>4
  <2> QED  BY <1>1, <1>4, <2>1, SubLeast
<1>5. /\ Sub(links, e) \in SUBSET Entity /\ e \in Sub(links, e) /\ Null \notin Sub(links, e)
      /\ \A x \in Entity : x # e /\ links[x].parent # Null
                             => (x \in Sub(links, e) <=> links[x].parent \in Sub(links, e))
      /\ links[e].parent \notin Sub(links, e)
  BY <1>1, SubIs, EntityAssumption
<1>6. Closed(Sub(links, e))
  BY <1>5
<1> HIDE DEF Closed
<1> QED  BY <1>3, <1>4, <1>5, <1>6

LEMMA OthersIs ==
  ASSUME NEW c, NEW p \in Entity
  PROVE  Tree!Others(p, c) = Without(Kids(links), c)[p]
<1>1. \A s : Tree!Cardinality(s) = Cardinality(s)
  BY DEF Tree!Cardinality, Cardinality
<1>2. \A s : Tree!Min(s) = Min(s)
  BY DEF Tree!Min, Min
<1>3. \A s, k : Tree!RemoveAt(s, k) = RemoveAt(s, k)
  BY DEF Tree!RemoveAt, RemoveAt, Tree!SubSeq
<1>4. \A s, e : Tree!RemoveFirst(s, e) = RemoveFirst(s, e)
  BY <1>2, <1>3 DEF Tree!RemoveFirst, RemoveFirst, SelectInSeq, Tree!SelectInSeq
<1> QED BY <1>4 DEF Tree!Others, Without, Kids

\* setParent accepts what the tree allows.
LEMMA AcceptsIs ==
  ASSUME Shape, NEW c \in Entity, NEW p \in Entity, NEW pos \in Nat
  PROVE  /\ Accepts(c, p, pos) <=> Tree!Legal(c, p, pos)
         /\ Accepts(c, p, pos) => /\ c \in live /\ p \in live /\ c \notin Above(links, p)
                                  /\ pos \in 0 .. Len(Without(Kids(links), c)[p])
<1> DEFINE W == Without(Kids(links), c)[p]
<1>1. /\ LinkTyped(links) /\ Woven(links, Kids(links)) /\ Rooted(links)
      /\ live \in SUBSET Entity /\ Forest(links, Kids(links), live)
  BY KidsShape
<1>2. c \in live => LinksAgree(links, c)
  BY <1>1, AgreeIs
<1>3. /\ c # p /\ ~ClosesCycle(links, c, p) <=> c \notin Above(links, p)
      /\ p \in Tree!Subtree(c) <=> c \in Above(links, p)
  BY <1>1, CycleIs, SubtreeIs
<1>4. Tree!Others(p, c) = W
  BY OthersIs
<1>5. c # p => Siblings(links, c, p) = W /\ DestinationCount(links, c, p) = Len(W) /\ Len(W) \in Nat
  BY <1>1, DestinationIs
<1> HIDE DEF W
<1>6. Tree!Legal(c, p, pos) <=> /\ c \in live /\ p \in live /\ c \notin Above(links, p)
                                /\ pos \in 0 .. Len(W)
  BY <1>3, <1>4 DEF Tree!Legal
<1>7. c \notin Above(links, p) => Len(W) \in Nat
  BY <1>3, <1>5
<1>8. Accepts(c, p, pos) <=> /\ c \in live /\ p \in live /\ c \notin Above(links, p)
                             /\ pos <= Len(W)
  <2>1. CASE c = p
    BY <1>3, <2>1 DEF Accepts
  <2>2. CASE c # p
    BY <1>2, <1>3, <1>5, <2>2 DEF Accepts
  <2> QED  BY <2>1, <2>2
<1>9. c \notin Above(links, p) => (pos <= Len(W) <=> pos \in 0 .. Len(W))
  BY <1>7
<1> QED  BY <1>6, <1>8, <1>9 DEF W

\* What the runs check of the links follows from their shape.
LEMMA ShapeSound ==
  ASSUME Shape
  PROVE  HierarchySound
<1>1. TypeOK
  BY KidsShape DEF TypeOK, Shape, LinkTyped
<1>2. AcceptsLegalMoves
  <2>1. SUFFICES ASSUME NEW c \in Entity, NEW p \in Entity, NEW pos \in Count
                 PROVE  Accepts(c, p, pos) <=> Tree!Legal(c, p, pos)
    BY DEF AcceptsLegalMoves
  <2>2. pos \in Nat
    BY DepthIs DEF Count
  <2> QED  BY <2>2, AcceptsIs
<1> QED  BY <1>1, <1>2, ShapeLinks DEF HierarchySound

-----------------------------------------------------------------------------
(* The operations.                                                         *)

LEMMA InputTyped ==
  \A f \in Input : f \in Frame
BY InputAssumption DEF Input, Frame, Ring

\* A world is as fresh as the parents and the locals it is made of.
LEMMA FreshStays ==
  ASSUME NEW L, NEW M, NEW lo, NEW mo, NEW w, NEW v, NEW x,
         FreshAt(L, lo, w, x), M[x].parent = L[x].parent, mo[x] = lo[x], v[x] = w[x],
         L[x].parent # Null => v[L[x].parent] = w[L[x].parent]
  PROVE  FreshAt(M, mo, v, x)
BY DEF FreshAt

\* setLocal of c, when the worlds that are not below c are fresh.
LEMMA PlacedIs ==
  ASSUME NEW L, NEW K, LinkTyped(L), Woven(L, K), Rooted(L), NEW c \in Entity, NEW f \in Frame,
         NEW lo \in [Entity -> Frame], NEW w \in [Entity -> Frame], NEW Z \in SUBSET Entity,
         \A x \in Z : x \notin Sub(L, c) => FreshAt(L, lo, w, x), NEW mo, mo = [lo EXCEPT ![c] = f]
  PROVE  /\ mo \in [Entity -> Frame]
         /\ Propagated(L, mo, w, c) \in [Entity -> Frame]
         /\ \A x \in Z : FreshAt(L, mo, Propagated(L, mo, w, c), x)
<1>1. mo \in [Entity -> Frame] /\ \A x \in Entity : x # c => mo[x] = lo[x]
  OBVIOUS
<1>2. c \in Sub(L, c)
  BY LinkFields, SubIs
<1>3. ASSUME NEW x \in Z, x \notin Sub(L, c) PROVE FreshAt(L, mo, w, x)
  <2>1. FreshAt(L, lo, w, x) /\ mo[x] = lo[x]
    BY <1>1, <1>2, <1>3
  <2> QED  BY <2>1, FreshStays
<1> QED  BY <1>1, <1>3, PropagatedFresh

\* A state whose links make a forest has the shape.
LEMMA ShapeAgain ==
  ASSUME NEW K, Forest(links', K, live'), live' \in SUBSET Entity, spent' \subseteq Entity \ live',
         local' \in [Entity -> Frame], world' \in [Entity -> Frame], reading' \in BOOLEAN
  PROVE  Shape' /\ Kids(links)' = K
<1>1. Kids(links') = K
  BY KidsAre DEF Forest
<1>2. Kids(links)' = Kids(links')
  BY DEF Kids
<1>3. Forest(links', Kids(links'), live')
  BY <1>1
<1>4. Forest(links, Kids(links), live)'
  BY <1>3
<1> QED  BY <1>1, <1>2, <1>4 DEF Shape

LEMMA InitIs ==
  ASSUME Init
  PROVE  HierarchyInv /\ Tree!Init
<1>1. Forest(links, [e \in Entity |-> <<>>], live)
  BY EmptyForest DEF Init
<1>2. Kids(links) = [e \in Entity |-> <<>>]
  BY <1>1, KidsAre DEF Forest
<1>3. Shape
  BY <1>1, <1>2, IdentityTyped DEF Init, Shape
<1>4. WorldFresh
  BY DEF Init, WorldFresh
<1>5. Tree!Init
  BY <1>2 DEF Init, Tree!Init, Kids
<1> QED  BY <1>3, <1>4, <1>5 DEF HierarchyInv

\* Nothing of an entity that is not live is linked.
LEMMA FreshIs ==
  ASSUME Shape, NEW e \in Entity, e \notin live
  PROVE  /\ links[e] = NoLinks /\ Kids(links)[e] = <<>> /\ links[e].parent = Null
         /\ [links EXCEPT ![e] = NoLinks] = links
         /\ \A p \in Entity : p # e => e \notin Above(links, p)
         /\ Without(Kids(links), e) = Kids(links)
<1>1. /\ LinkTyped(links) /\ Woven(links, Kids(links)) /\ Rooted(links) /\ ParentTyped(links)
      /\ live \in SUBSET Entity /\ Forest(links, Kids(links), live)
  BY KidsShape
<1>2. links[e].parent = Null /\ Kids(links)[e] = <<>>
  BY <1>1 DEF Forest
<1>3. links[e] = NoLinks
  BY <1>1, <1>2, BareIs
<1>4. [links EXCEPT ![e] = NoLinks] = links
  BY <1>1, <1>3 DEF LinkTyped
<1>5. ASSUME NEW p \in Entity, p # e PROVE e \notin Above(links, p)
  <2> DEFINE T == Entity \ {e}
  <2>1. \A x \in T \cap Entity : links[x].parent \in T \cup {Null}
    <3>1. \A x \in Entity : links[x].parent \in live \cup {Null}
      BY <1>1, ForestLive
    <3> QED  BY <1>1, <3>1
  <2>2. p \in T
    BY <1>5
  <2> HIDE DEF T
  <2>3. Above(links, p) \subseteq T
    BY <1>1, <2>1, <2>2, AboveLeast
  <2> QED  BY <2>3 DEF T
<1>6. Without(Kids(links), e) = Kids(links)
  <2>1. /\ Without(Kids(links), e) \in [Entity -> Seq(Entity)]
        /\ \A q \in Entity : q # Null => Without(Kids(links), e)[q] = Kids(links)[q]
    BY <1>1, <1>2, WithoutIs
  <2>2. Kids(links) \in [Entity -> Seq(Entity)]
    BY <1>1 DEF Woven
  <2> QED  BY <2>1, <2>2, EntityAssumption
<1> QED  BY <1>2, <1>3, <1>4, <1>5, <1>6

LEMMA createEntityIs ==
  ASSUME HierarchyInv, NEW e \in Entity, createEntity(e), ~reading
  PROVE  HierarchyInv' /\ Tree!Create(e)
<1> DEFINE K == Kids(links)
<1>1. Shape /\ \A x \in live : FreshAt(links, local, world, x)
  BY DEF HierarchyInv, WorldFresh, FreshAt
<1>2. e \notin live /\ e \notin spent
  BY DEF createEntity, Fresh
<1>3. links' = links /\ links[e].parent = Null
  BY <1>1, <1>2, FreshIs DEF createEntity
<1>4. Forest(links', K, live')
  BY <1>1, <1>3, KidsShape, ForestGrown DEF createEntity
<1>5. /\ live' \in SUBSET Entity /\ spent' \subseteq Entity \ live' /\ local' \in [Entity -> Frame]
      /\ world' \in [Entity -> Frame] /\ reading' \in BOOLEAN /\ spent' = spent
      /\ live' = live \cup {e}
  BY <1>1, <1>2, IdentityTyped DEF createEntity, Shape
<1> HIDE DEF K
<1>6. Shape' /\ Kids(links)' = K
  BY <1>4, <1>5, ShapeAgain
<1>7. ASSUME NEW x \in live' PROVE FreshAt(links', local', world', x)
  <2>1. CASE x = e
    <3>1. links'[e].parent = Null /\ local'[e] = world'[e]
      BY <1>1, <1>3 DEF createEntity, Shape
    <3> QED  BY <2>1, <3>1 DEF FreshAt
  <2>2. CASE x # e
    <3>1. x \in live /\ x \in Entity /\ FreshAt(links, local, world, x)
      BY <1>1, <1>5, <2>2
    <3>2. links[x].parent # Null => links[x].parent \in live
      BY <1>1, <3>1, KidsShape, ForestLive
    <3>3. /\ local'[x] = local[x] /\ world'[x] = world[x]
          /\ links[x].parent # Null => world'[links[x].parent] = world[links[x].parent]
      BY <1>1, <1>2, <2>2, <3>1, <3>2 DEF createEntity, Shape
    <3> QED  BY <1>3, <3>1, <3>3, FreshStays
  <2> QED  BY <2>1, <2>2
<1>8. WorldFresh'
  BY <1>7 DEF WorldFresh, FreshAt
<1>9. Tree!Create(e)
  BY <1>2, <1>5, <1>6 DEF Tree!Create, Kids, K
<1> QED  BY <1>6, <1>8, <1>9 DEF HierarchyInv

\* A change of the parent of c alone leaves the worlds fresh that are not
\* below c.
LEMMA ApartFresh ==
  ASSUME \A x \in live : FreshAt(links, local, world, x), live \in SUBSET Entity,
         NEW M, ParentTyped(M), Rooted(M), NEW c \in Entity,
         \A x \in Entity : x # c => M[x].parent = links[x].parent
  PROVE  \A x \in live : x \notin Sub(M, c) => FreshAt(M, local, world, x)
<1>1. c \in Sub(M, c)
  BY SubIs
<1>2. SUFFICES ASSUME NEW x \in live, x \notin Sub(M, c) PROVE FreshAt(M, local, world, x)
  OBVIOUS
<1>3. FreshAt(links, local, world, x) /\ M[x].parent = links[x].parent
  BY <1>1, <1>2
<1> QED  BY <1>3, FreshStays

\* The lists of the tree after a move.
LEMMA TreeLists ==
  ASSUME NEW c \in Entity, NEW p \in Entity, NEW pos
  PROVE  /\ [q \in Entity |-> IF q = p THEN Tree!InsertAt(Tree!Others(p, c), pos + 1, c)
                              ELSE Tree!Others(q, c)] = Inserted(Kids(links), c, p, pos)
         /\ [q \in Entity |-> Tree!Others(q, c)] = Without(Kids(links), c)
<1>1. \A q \in Entity : Tree!Others(q, c) = RemoveFirst(Kids(links)[q], c)
  BY OthersIs DEF Without
<1>2. \A s, k, e : Tree!InsertAt(s, k, e) = InsertAt(s, k, e)
  BY DEF Tree!InsertAt, InsertAt
<1> QED  BY <1>1, <1>2 DEF Inserted, Without

LEMMA MovedShape ==
  ASSUME Shape, NEW c \in Entity, NEW p \in Entity, NEW pos \in Nat, Accepts(c, p, pos),
         NEW M, M = Moved(links, c, p, pos), NEW N, N = Inserted(Kids(links), c, p, pos)
  PROVE  /\ LinkTyped(M) /\ Woven(M, N) /\ Rooted(M) /\ ParentTyped(M) /\ Forest(M, N, live)
         /\ \A e \in Entity : M[e].parent = IF e = c THEN p ELSE links[e].parent
<1>1. /\ LinkTyped(links) /\ Woven(links, Kids(links)) /\ Rooted(links)
      /\ live \in SUBSET Entity /\ Forest(links, Kids(links), live)
  BY KidsShape
<1>2. /\ c \in live /\ p \in live /\ c \notin Above(links, p)
      /\ pos \in 0 .. Len(Without(Kids(links), c)[p])
  BY AcceptsIs
<1>3. Forest(M, N, live)
  BY <1>1, <1>2, ForestMoved
<1>4. \A e \in Entity : M[e].parent = IF e = c THEN p ELSE links[e].parent
  BY <1>1, <1>2, MovedWoven
<1>5. LinkTyped(M) /\ Woven(M, N) /\ Rooted(M)
  BY <1>3 DEF Forest
<1>6. ParentTyped(M)
  BY <1>5, LinkFields
<1> QED  BY <1>3, <1>4, <1>5, <1>6

LEMMA AttachIs ==
  ASSUME Shape, NEW c \in Entity, NEW p \in Entity, NEW pos \in Nat, Accepts(c, p, pos),
         UNCHANGED <<live, spent>>, Kids(links)' = Inserted(Kids(links), c, p, pos)
  PROVE  Tree!Attach(c, p, pos)
<1>1. Tree!Legal(c, p, pos)
  BY AcceptsIs
<1>2. Kids(links)' = [q \in Entity |-> IF q = p THEN Tree!InsertAt(Tree!Others(p, c), pos + 1, c)
                                       ELSE Tree!Others(q, c)]
  BY TreeLists
<1>3. [e \in Entity |-> Children(links, e)]' = Kids(links)'
  BY DEF Kids
<1> QED  BY <1>1, <1>2, <1>3 DEF Tree!Attach

LEMMA setParentIs ==
  ASSUME HierarchyInv, NEW c \in Entity, NEW p \in Entity, NEW pos \in Nat, setParent(c, p, pos), ~reading
  PROVE  HierarchyInv' /\ Tree!Attach(c, p, pos)
<1>1. Shape /\ \A x \in live : FreshAt(links, local, world, x)
  BY DEF HierarchyInv, WorldFresh, FreshAt
<1>2. Accepts(c, p, pos) /\ links' = Moved(links, c, p, pos)
  BY DEF setParent
<1>3. PICK N : N = Inserted(Kids(links), c, p, pos)
  OBVIOUS
<1>4. /\ LinkTyped(links') /\ Woven(links', N) /\ Rooted(links') /\ ParentTyped(links')
      /\ Forest(links', N, live)
      /\ \A e \in Entity : links'[e].parent = IF e = c THEN p ELSE links[e].parent
  BY <1>1, <1>2, <1>3, MovedShape
<1>5. /\ live \in SUBSET Entity /\ spent \subseteq Entity \ live /\ local \in [Entity -> Frame]
      /\ world \in [Entity -> Frame] /\ reading \in BOOLEAN
      /\ UNCHANGED <<live, spent, local, reading>>
  BY <1>1 DEF Shape, setParent
<1>6. world' \in [Entity -> Frame] /\ \A x \in live : FreshAt(links', local, world', x)
  <2>1. CASE links[c].parent = p
    <3>1. \A x \in live : links'[x].parent = links[x].parent
      BY <1>4, <1>5, <2>1
    <3>2. world' = world
      BY <2>1 DEF setParent
    <3> QED  BY <1>1, <1>5, <3>1, <3>2, FreshStays
  <2>2. CASE links[c].parent # p
    <3>1. \A x \in Entity : x # c => links'[x].parent = links[x].parent
      BY <1>4
    <3>2. \A x \in live : x \notin Sub(links', c) => FreshAt(links', local, world, x)
      BY <1>1, <1>4, <1>5, <3>1, ApartFresh
    <3>3. world' = Propagated(links', local, world, c)
      BY <2>2 DEF setParent
    <3> QED  BY <1>4, <1>5, <3>2, <3>3, PropagatedFresh
  <2> QED  BY <2>1, <2>2
<1>7. Shape' /\ Kids(links)' = N
  BY <1>4, <1>5, <1>6, ShapeAgain
<1>8. WorldFresh'
  BY <1>5, <1>6 DEF WorldFresh, FreshAt
<1>9. Tree!Attach(c, p, pos)
  BY <1>1, <1>2, <1>3, <1>5, <1>7, AttachIs
<1> QED  BY <1>7, <1>8, <1>9 DEF HierarchyInv

\* The local transform is set after a propagation of the new parents.
LEMMA PlacedAfter ==
  ASSUME Shape, \A x \in live : FreshAt(links, local, world, x), NEW N, NEW c \in Entity, NEW f \in Frame,
         LinkTyped(links'), Woven(links', N), Rooted(links'), ParentTyped(links'),
         \A x \in Entity : x # c => links'[x].parent = links[x].parent,
         Placed(c, f, Propagated(links', local, world, c))
  PROVE  /\ local' \in [Entity -> Frame] /\ world' \in [Entity -> Frame]
         /\ \A x \in live : FreshAt(links', local', world', x)
<1>1. live \in SUBSET Entity /\ local \in [Entity -> Frame] /\ world \in [Entity -> Frame]
  BY DEF Shape
<1>2. \A x \in live : x \notin Sub(links', c) => FreshAt(links', local, world, x)
  BY <1>1, ApartFresh
<1>3. PICK w : w = Propagated(links', local, world, c)
  OBVIOUS
<1>4. w \in [Entity -> Frame] /\ \A x \in live : FreshAt(links', local, w, x)
  BY <1>1, <1>2, <1>3, PropagatedFresh
<1>5. local' = [local EXCEPT ![c] = f] /\ world' = Propagated(links', local', w, c)
  BY <1>3 DEF Placed
<1>6. /\ local' \in [Entity -> Frame]
      /\ Propagated(links', local', w, c) \in [Entity -> Frame]
      /\ \A x \in live : FreshAt(links', local', Propagated(links', local', w, c), x)
  BY <1>1, <1>4, <1>5, PlacedIs
<1> QED  BY <1>5, <1>6

LEMMA RelativeTyped ==
  ASSUME Shape, NEW p \in Entity, NEW f \in Frame, ~Singular(WorldFromLocals(p))
  PROVE  Relative(p, f) \in Frame
<1>1. WorldFromLocals(p) \in Frame
  BY KidsShape, WorldFromLocalsTyped DEF Shape
<1>2. Inverted(WorldFromLocals(p)) \in Frame
  BY <1>1, InvertedTyped
<1> QED  BY <1>2, ComposeTyped DEF Relative

LEMMA setParentKeepingWorldIs ==
  ASSUME HierarchyInv, NEW c \in Entity, NEW p \in Entity, NEW pos \in Nat,
         setParentKeepingWorld(c, p, pos), ~reading
  PROVE  HierarchyInv' /\ Tree!Attach(c, p, pos)
<1>1. Shape /\ \A x \in live : FreshAt(links, local, world, x)
  BY DEF HierarchyInv, WorldFresh, FreshAt
<1>2. Accepts(c, p, pos) /\ links' = Moved(links, c, p, pos)
  BY DEF setParentKeepingWorld
<1>3. PICK N : N = Inserted(Kids(links), c, p, pos)
  OBVIOUS
<1>4. /\ LinkTyped(links') /\ Woven(links', N) /\ Rooted(links') /\ ParentTyped(links')
      /\ Forest(links', N, live)
      /\ \A e \in Entity : links'[e].parent = IF e = c THEN p ELSE links[e].parent
  BY <1>1, <1>2, <1>3, MovedShape
<1>5. /\ live \in SUBSET Entity /\ spent \subseteq Entity \ live /\ reading \in BOOLEAN
      /\ UNCHANGED <<live, spent, reading>>
  BY <1>1 DEF Shape, setParentKeepingWorld
<1>6. PICK f \in Frame : Placed(c, f, Propagated(links', local, world, c))
  <2>1. WorldFromLocals(c) \in Frame
    BY <1>1, KidsShape, WorldFromLocalsTyped DEF Shape
  <2>2. Relative(p, WorldFromLocals(c)) \in Frame
    BY <1>1, <2>1, RelativeTyped DEF setParentKeepingWorld
  <2> QED  BY <2>2 DEF setParentKeepingWorld
<1>7. \A x \in Entity : x # c => links'[x].parent = links[x].parent
  BY <1>4
<1>8. /\ local' \in [Entity -> Frame] /\ world' \in [Entity -> Frame]
      /\ \A x \in live : FreshAt(links', local', world', x)
  BY <1>1, <1>4, <1>6, <1>7, PlacedAfter
<1>9. Shape' /\ Kids(links)' = N
  BY <1>4, <1>5, <1>8, ShapeAgain
<1>10. WorldFresh'
  BY <1>5, <1>8 DEF WorldFresh, FreshAt
<1>11. Tree!Attach(c, p, pos)
  BY <1>1, <1>2, <1>3, <1>5, <1>9, AttachIs
<1> QED  BY <1>9, <1>10, <1>11 DEF HierarchyInv

LEMMA FreedShape ==
  ASSUME Shape, NEW c \in Entity, CanUnparent(c), NEW M, M = Freed(links, c),
         NEW N, N = Without(Kids(links), c)
  PROVE  /\ LinkTyped(M) /\ Woven(M, N) /\ Rooted(M) /\ ParentTyped(M) /\ Forest(M, N, live)
         /\ \A e \in Entity : M[e].parent = IF e = c THEN Null ELSE links[e].parent
<1>1. /\ LinkTyped(links) /\ Woven(links, Kids(links)) /\ Rooted(links)
      /\ live \in SUBSET Entity /\ Forest(links, Kids(links), live)
  BY KidsShape
<1>2. links[c].parent # Null
  BY DEF CanUnparent, HasParent
<1>3. Forest(M, N, live)
  BY <1>1, <1>2, ForestFreed
<1>4. \A e \in Entity : M[e].parent = IF e = c THEN Null ELSE links[e].parent
  BY <1>1, <1>2, FreedWoven
<1>5. LinkTyped(M) /\ Woven(M, N) /\ Rooted(M)
  BY <1>3 DEF Forest
<1>6. ParentTyped(M)
  BY <1>5, LinkFields
<1> QED  BY <1>3, <1>4, <1>5, <1>6

LEMMA DetachIs ==
  ASSUME Shape, NEW c \in Entity, CanUnparent(c),
         UNCHANGED <<live, spent>>, Kids(links)' = Without(Kids(links), c)
  PROVE  Tree!Detach(c)
<1>1. /\ LinkTyped(links) /\ Woven(links, Kids(links)) /\ Rooted(links)
      /\ live \in SUBSET Entity /\ Forest(links, Kids(links), live)
      /\ \A e \in Entity : Kids(links)[e] = Children(links, e)
  BY KidsShape
<1>2. c \in live /\ links[c].parent # Null
  BY DEF CanUnparent, HasParent
<1>3. links[c].parent \in live
  BY <1>1, <1>2, ForestLive
<1>4. c \in ToSet(Kids(links)[links[c].parent])
  BY <1>1, <1>3, ChildIs
<1>5. ~Tree!Orphan(c)
  <2>1. \A s : Tree!ToSet(s) = ToSet(s)
    BY DEF Tree!ToSet, ToSet
  <2> QED  BY <1>1, <1>3, <1>4, <2>1 DEF Tree!Orphan
<1>6. Kids(links)' = [q \in Entity |-> Tree!Others(q, c)]
  BY TreeLists
<1>7. [e \in Entity |-> Children(links, e)]' = Kids(links)'
  BY DEF Kids
<1> QED  BY <1>2, <1>5, <1>6, <1>7 DEF Tree!Detach

LEMMA unparentIs ==
  ASSUME HierarchyInv, NEW c \in Entity, unparent(c) \/ unparentKeepingWorld(c), ~reading
  PROVE  HierarchyInv' /\ Tree!Detach(c)
<1>1. Shape /\ \A x \in live : FreshAt(links, local, world, x)
  BY DEF HierarchyInv, WorldFresh, FreshAt
<1>2. CanUnparent(c) /\ links' = Freed(links, c) /\ UNCHANGED <<live, spent, reading>>
  BY DEF unparent, unparentKeepingWorld
<1>3. PICK N : N = Without(Kids(links), c)
  OBVIOUS
<1>4. /\ LinkTyped(links') /\ Woven(links', N) /\ Rooted(links') /\ ParentTyped(links')
      /\ Forest(links', N, live)
      /\ \A e \in Entity : links'[e].parent = IF e = c THEN Null ELSE links[e].parent
  BY <1>1, <1>2, <1>3, FreedShape
<1>5. /\ live \in SUBSET Entity /\ spent \subseteq Entity \ live /\ local \in [Entity -> Frame]
      /\ world \in [Entity -> Frame] /\ reading \in BOOLEAN
  BY <1>1 DEF Shape
<1>6. \A x \in Entity : x # c => links'[x].parent = links[x].parent
  BY <1>4
<1>7. /\ local' \in [Entity -> Frame] /\ world' \in [Entity -> Frame]
      /\ \A x \in live : FreshAt(links', local', world', x)
  <2>1. CASE unparent(c)
    <3>1. local' = local /\ world' = Propagated(links', local, world, c)
      BY <2>1 DEF unparent
    <3>2. \A x \in live : x \notin Sub(links', c) => FreshAt(links', local, world, x)
      BY <1>1, <1>4, <1>5, <1>6, ApartFresh
    <3> QED  BY <1>4, <1>5, <3>1, <3>2, PropagatedFresh
  <2>2. CASE unparentKeepingWorld(c)
    <3>1. PICK f \in Frame : Placed(c, f, Propagated(links', local, world, c))
      <4>1. DetachedLocal(c) \in Frame
        BY <1>1, KidsShape, WorldFromLocalsTyped DEF Shape, DetachedLocal
      <4> QED  BY <2>2, <4>1 DEF unparentKeepingWorld
    <3> QED  BY <1>1, <1>4, <1>6, <3>1, PlacedAfter
  <2> QED  BY <2>1, <2>2
<1>8. Shape' /\ Kids(links)' = N
  BY <1>2, <1>4, <1>5, <1>7, ShapeAgain
<1>9. WorldFresh'
  BY <1>2, <1>7 DEF WorldFresh, FreshAt
<1>10. Tree!Detach(c)
  BY <1>1, <1>2, <1>3, <1>8, DetachIs
<1> QED  BY <1>8, <1>9, <1>10 DEF HierarchyInv

\* A step that leaves the links alone.
LEMMA LinksStay ==
  ASSUME HierarchyInv, UNCHANGED <<live, spent, links>>, local' \in [Entity -> Frame],
         world' \in [Entity -> Frame], reading' \in BOOLEAN,
         ~reading' => \A x \in live : FreshAt(links, local', world', x)
  PROVE  HierarchyInv' /\ UNCHANGED Tree!vars
<1>1. Forest(links', Kids(links), live') /\ live' \in SUBSET Entity /\ spent' \subseteq Entity \ live'
  BY DEF HierarchyInv, Shape
<1>2. Shape'
  BY <1>1, ShapeAgain
<1>3. WorldFresh'
  BY DEF WorldFresh, FreshAt
<1>4. [e \in Entity |-> Children(links, e)]' = [e \in Entity |-> Children(links, e)]
  OBVIOUS
<1> QED  BY <1>2, <1>3, <1>4 DEF HierarchyInv, Tree!vars

LEMMA setLocalIs ==
  ASSUME HierarchyInv, NEW e \in Entity, NEW f \in Frame, Placed(e, f, world) \/ assign(e, f), ~reading,
         UNCHANGED <<live, spent, links, reading>>
  PROVE  HierarchyInv' /\ UNCHANGED Tree!vars
<1>1. Shape /\ \A x \in live : FreshAt(links, local, world, x)
  BY DEF HierarchyInv, WorldFresh, FreshAt
<1>2. /\ LinkTyped(links) /\ Woven(links, Kids(links)) /\ Rooted(links) /\ live \in SUBSET Entity
      /\ local \in [Entity -> Frame] /\ world \in [Entity -> Frame] /\ reading \in BOOLEAN
  BY <1>1, KidsShape DEF Shape
<1>3. local' = [local EXCEPT ![e] = f] /\ world' = Propagated(links, local', world, e)
  BY DEF Placed, assign
<1>4. /\ local' \in [Entity -> Frame]
      /\ Propagated(links, local', world, e) \in [Entity -> Frame]
      /\ \A x \in live : FreshAt(links, local', Propagated(links, local', world, e), x)
  BY <1>1, <1>2, <1>3, PlacedIs
<1> QED  BY <1>2, <1>3, <1>4, LinksStay

LEMMA setWorldIs ==
  ASSUME HierarchyInv, NEW e \in Entity, NEW f \in Frame, setWorld(e, f), ~reading
  PROVE  HierarchyInv' /\ UNCHANGED Tree!vars
<1>1. Shape /\ UNCHANGED <<live, spent, links, reading>> /\ e \in live
  BY DEF HierarchyInv, setWorld
<1>2. CASE links[e].parent = Null
  <2>1. Placed(e, f, world)
    BY <1>2 DEF setWorld
  <2> QED  BY <1>1, <2>1, setLocalIs
<1>3. CASE links[e].parent # Null
  <2>1. links[e].parent \in Entity
    BY <1>1, <1>3, KidsShape, LinkFields
  <2>2. /\ ~Singular(WorldFromLocals(links[e].parent))
        /\ Placed(e, Relative(links[e].parent, f), world)
    BY <1>3 DEF setWorld
  <2>3. Relative(links[e].parent, f) \in Frame
    BY <1>1, <2>1, <2>2, RelativeTyped
  <2>4. PICK g \in Frame : Placed(e, g, world)
    BY <2>2, <2>3
  <2> QED  BY <1>1, <2>4, setLocalIs
<1> QED  BY <1>2, <1>3

LEMMA clearIs ==
  ASSUME HierarchyInv, clear, reading' \in BOOLEAN
  PROVE  HierarchyInv' /\ Tree!Clear
<1>1. Shape /\ live \in SUBSET Entity /\ spent \subseteq Entity
  BY DEF HierarchyInv, Shape
<1>2. Forest(links', [e \in Entity |-> <<>>], live')
  BY EmptyForest DEF clear
<1>3. /\ live' = {} /\ spent' = spent \cup live
      /\ live' \in SUBSET Entity /\ spent' \subseteq Entity \ live' /\ local' \in [Entity -> Frame]
      /\ world' \in [Entity -> Frame]
  BY <1>1, IdentityTyped DEF clear
<1>4. Shape' /\ Kids(links)' = [e \in Entity |-> <<>>]
  BY <1>2, <1>3, ShapeAgain
<1>5. WorldFresh'
  BY <1>3 DEF WorldFresh
<1>6. Tree!Clear
  BY <1>3, <1>4 DEF Tree!Clear, Kids
<1> QED  BY <1>4, <1>5, <1>6 DEF HierarchyInv

LEMMA DestroyedIs ==
  ASSUME Shape, NEW e \in Entity, NEW left,
         left = IF links[e].parent = Null THEN links ELSE Freed(links, e)
  PROVE  /\ Forest([x \in Entity |-> IF x \in Sub(links, e) THEN NoLinks ELSE left[x]],
                   [x \in Entity |-> IF x \in Sub(links, e) THEN <<>> ELSE Without(Kids(links), e)[x]],
                   live \ Sub(links, e))
         /\ \A x \in Entity : left[x].parent = IF x = e THEN Null ELSE links[x].parent
<1> DEFINE D == Sub(links, e)
           K == Kids(links)
<1>1. /\ LinkTyped(links) /\ Woven(links, K) /\ Rooted(links) /\ ParentTyped(links)
      /\ live \in SUBSET Entity /\ Forest(links, K, live)
  BY KidsShape
<1> HIDE DEF K
<1>2. /\ D \in SUBSET Entity
      /\ \A x \in Entity : x # e /\ links[x].parent # Null => (x \in D <=> links[x].parent \in D)
  BY <1>1, SubIs
<1>3. /\ Forest(left, Without(K, e), live)
      /\ \A x \in Entity : left[x].parent = IF x = e THEN Null ELSE links[x].parent
  <2>1. CASE links[e].parent = Null
    <3>1. /\ Without(K, e) \in [Entity -> Seq(Entity)]
          /\ \A q \in Entity : q # Null => Without(K, e)[q] = K[q]
      BY <1>1, <2>1, WithoutIs
    <3>2. K \in [Entity -> Seq(Entity)]
      BY <1>1 DEF Woven
    <3>3. Without(K, e) = K
      BY <3>1, <3>2, EntityAssumption
    <3> QED  BY <1>1, <2>1, <3>3
  <2>2. CASE links[e].parent # Null
    <3>1. left = Freed(links, e)
      BY <2>2
    <3>2. Forest(Freed(links, e), Without(K, e), live)
      BY <1>1, <2>2, ForestFreed
    <3>3. \A x \in Entity : Freed(links, e)[x].parent = IF x = e THEN Null ELSE links[x].parent
      BY <1>1, <2>2, FreedWoven
    <3> QED  BY <3>1, <3>2, <3>3
  <2> QED  BY <2>1, <2>2
<1>4. \A x \in Entity : left[x].parent # Null => (x \in D <=> left[x].parent \in D)
  BY <1>2, <1>3
<1> HIDE DEF D
<1>5. PICK W : W = Without(K, e)
  OBVIOUS
<1>6. Forest([x \in Entity |-> IF x \in D THEN NoLinks ELSE left[x]],
             [x \in Entity |-> IF x \in D THEN <<>> ELSE W[x]], live \ D)
  <2>1. Forest(left, W, live)
    BY <1>3, <1>5
  <2>2. D \in SUBSET Entity /\ live \in SUBSET Entity
    BY <1>1, <1>2
  <2>3. Forest(Cut(left, D), Pruned(W, D), live \ D)
    BY <1>4, <2>1, <2>2, ForestCut
  <2> QED  BY <2>3 DEF Cut, Pruned
<1> QED  BY <1>3, <1>5, <1>6 DEF D, K

LEMMA destroyEntityIs ==
  ASSUME HierarchyInv, NEW e \in Entity, destroyEntity(e), ~reading
  PROVE  HierarchyInv' /\ Tree!Destroy(e)
<1> DEFINE D == Sub(links, e)
<1>1. Shape /\ \A x \in live : FreshAt(links, local, world, x)
  BY DEF HierarchyInv, WorldFresh, FreshAt
<1>2. /\ LinkTyped(links) /\ Woven(links, Kids(links)) /\ Rooted(links) /\ ParentTyped(links)
      /\ live \in SUBSET Entity
  BY <1>1, KidsShape
<1>3. Collected(links, e) = D /\ Tree!Subtree(e) = D
  BY <1>1, <1>2, CollectedIs, SubtreeIs
<1>4. /\ D \in SUBSET Entity /\ e \in D
      /\ \A x \in Entity : x # e /\ links[x].parent # Null => (x \in D <=> links[x].parent \in D)
  BY <1>2, SubIs
<1>5. PICK left : left = IF links[e].parent = Null THEN links ELSE Freed(links, e)
  OBVIOUS
<1>6. PICK N : N = [x \in Entity |-> IF x \in D THEN <<>> ELSE Without(Kids(links), e)[x]]
  OBVIOUS
<1>7. /\ Forest([x \in Entity |-> IF x \in D THEN NoLinks ELSE left[x]], N, live \ D)
      /\ \A x \in Entity : left[x].parent = IF x = e THEN Null ELSE links[x].parent
  BY <1>1, <1>5, <1>6, DestroyedIs, ZenonT(30)
<1> HIDE DEF D
<1>8. /\ e \in live /\ live' = live \ D /\ spent' = spent \cup D
      /\ links' = [x \in Entity |-> IF x \in D THEN NoLinks ELSE left[x]]
      /\ local' = [x \in Entity |-> IF x \in D THEN Identity ELSE local[x]]
      /\ world' = [x \in Entity |-> IF x \in D THEN Identity ELSE world[x]]
      /\ reading' = reading
  BY <1>3, <1>5 DEF destroyEntity
<1>9. /\ live' \in SUBSET Entity /\ spent' \subseteq Entity \ live' /\ local' \in [Entity -> Frame]
      /\ world' \in [Entity -> Frame] /\ reading' \in BOOLEAN
  <2>1. /\ spent \subseteq Entity \ live /\ local \in [Entity -> Frame] /\ world \in [Entity -> Frame]
        /\ reading \in BOOLEAN
    BY <1>1 DEF Shape
  <2> QED  BY <1>2, <1>4, <1>8, <2>1, IdentityTyped
<1>10. Forest(links', N, live')
  BY <1>7, <1>8
<1>11. Shape' /\ Kids(links)' = N
  BY <1>9, <1>10, ShapeAgain
<1>12. ASSUME NEW x \in live' PROVE FreshAt(links', local', world', x)
  <2>1. x \in live /\ x \in Entity /\ x \notin D /\ x # e /\ FreshAt(links, local, world, x)
    BY <1>1, <1>2, <1>4, <1>8, <1>12
  <2>2. /\ links'[x].parent = links[x].parent /\ local'[x] = local[x] /\ world'[x] = world[x]
    BY <1>7, <1>8, <2>1
  <2>3. links[x].parent # Null => world'[links[x].parent] = world[links[x].parent]
    <3>1. links[x].parent # Null => links[x].parent \in Entity \ D
      BY <1>2, <1>4, <2>1, LinkFields
    <3> QED  BY <1>8, <3>1
  <2> QED  BY <2>1, <2>2, <2>3, FreshStays
<1>13. WorldFresh'
  BY <1>12 DEF WorldFresh, FreshAt
<1>14. N = [q \in Entity |-> IF q \in Tree!Subtree(e) THEN <<>> ELSE Tree!Others(q, e)]
  BY <1>3, <1>6, OthersIs
<1>15. Tree!Destroy(e)
  BY <1>3, <1>8, <1>11, <1>14 DEF Tree!Destroy, Kids
<1> QED  BY <1>11, <1>13, <1>15 DEF HierarchyInv

-----------------------------------------------------------------------------
(* SceneAsset::read.                                                       *)

LEMMA BeginReadIs ==
  ASSUME HierarchyInv, BeginRead
  PROVE  HierarchyInv' /\ UNCHANGED Tree!vars
<1>1. /\ UNCHANGED <<live, spent, links>> /\ local' \in [Entity -> Frame] /\ world' \in [Entity -> Frame]
      /\ reading' = TRUE
  BY DEF BeginRead, HierarchyInv, Shape
<1> QED  BY <1>1, LinksStay

LEMMA EndReadIs ==
  ASSUME HierarchyInv, EndRead
  PROVE  HierarchyInv' /\ UNCHANGED Tree!vars
<1>1. /\ live \in SUBSET Entity /\ Forest(links, Kids(links), live)
      /\ local \in [Entity -> Frame] /\ world \in [Entity -> Frame]
  BY DEF HierarchyInv, Shape
<1>2. /\ AllPropagated \in [Entity -> Frame]
      /\ \A x \in live : FreshAt(links, local, AllPropagated, x)
  BY <1>1, AllPropagatedIs
<1>3. UNCHANGED <<live, spent, links>> /\ local' = local /\ world' = AllPropagated /\ reading' = FALSE
  BY DEF EndRead
<1> QED  BY <1>1, <1>2, <1>3, LinksStay

\* A row below an entity of an earlier one is the last of its children.
LEMMA RowBelow ==
  ASSUME Shape, NEW e \in Entity, e \notin live, e \notin spent, NEW p \in live, NEW M,
         M = Moved(links, e, p, links[p].count), live' = live \cup {e}, spent' = spent,
         Kids(links)' = Inserted(Kids(links), e, p, links[p].count)
  PROVE  Tree!CreateUnder(e, p)
<1> DEFINE K == Kids(links)
<1>1. /\ LinkTyped(links) /\ Woven(links, K) /\ Rooted(links) /\ p \in Entity /\ p # e
  BY KidsShape
<1>2. Without(K, e) = K
  BY FreshIs
<1> HIDE DEF K
<1>3. links[p].count = Len(K[p]) /\ K[p] \in Seq(Entity) /\ K \in [Entity -> Seq(Entity)]
  BY <1>1 DEF Woven, Listed
<1>4. \A q \in Entity : RemoveFirst(K[q], e) = K[q]
  BY <1>2 DEF Without
<1>5. InsertAt(K[p], Len(K[p]) + 1, e) = Append(K[p], e)
  <2>1. PICK s \in Seq(Entity) : s = K[p]
    BY <1>3
  <2>2. PICK t : t = InsertAt(s, Len(s) + 1, e)
    OBVIOUS
  <2>3. Len(s) \in Nat /\ Len(s) + 1 \in 1 .. Len(s) + 1
    BY <2>1
  <2>4. Longer(s, Len(s) + 1, e, t)
    BY <2>2, <2>3, InsertedAt
  <2>5. /\ t \in Seq(Entity) /\ Len(t) = Len(s) + 1
        /\ \A i \in 1 .. Len(s) + 1 : t[i] = IF i < Len(s) + 1 THEN s[i] ELSE e
    BY <2>3, <2>4 DEF Longer
  <2>6. t = Append(s, e)
    BY <2>3, <2>5
  <2> QED  BY <2>1, <2>2, <2>6
<1>6. Inserted(K, e, p, links[p].count) = [K EXCEPT ![p] = Append(K[p], e)]
  BY <1>1, <1>3, <1>4, <1>5 DEF Inserted
<1>7. Kids(links)' = [K EXCEPT ![p] = Append(K[p], e)]
  BY <1>6 DEF K
<1>8. K = [x \in Entity |-> Children(links, x)] /\ Kids(links)' = [x \in Entity |-> Children(links, x)]'
  BY DEF K, Kids
<1> QED  BY <1>7, <1>8 DEF Tree!CreateUnder

LEMMA ReadRowIs ==
  ASSUME HierarchyInv, NEW e \in Entity, NEW p \in Entity \cup {Null}, NEW f \in Frame, ReadRow(e, p, f)
  PROVE  /\ HierarchyInv'
         /\ Tree!Create(e) \/ (p \in Entity /\ Tree!CreateUnder(e, p))
<1> DEFINE K == Kids(links)
           born == [links EXCEPT ![e] = NoLinks]
           fresh == [world EXCEPT ![e] = Identity]
           bare == [local EXCEPT ![e] = Identity]
<1>1. Shape /\ /\ LinkTyped(links) /\ Woven(links, K) /\ Rooted(links) /\ ParentTyped(links)
               /\ live \in SUBSET Entity /\ Forest(links, K, live)
  BY KidsShape DEF HierarchyInv
<1>2. e \notin live /\ e \notin spent /\ p \in live \cup {Null} /\ live' = live \cup {e} /\ spent' = spent
  BY DEF ReadRow, Fresh
<1>3. /\ born = links /\ links[e].parent = Null /\ Without(K, e) = K
      /\ \A q \in Entity : q # e => e \notin Above(links, q)
  BY <1>1, <1>2, FreshIs
<1>4. fresh \in [Entity -> Frame] /\ bare \in [Entity -> Frame]
  BY <1>1, IdentityTyped DEF Shape
<1>5. /\ reading' = TRUE /\ spent' \subseteq Entity \ live' /\ live' \in SUBSET Entity
      /\ local' \in [Entity -> Frame]
  <2>1. reading' = TRUE
    BY <1>1 DEF ReadRow, Shape
  <2> QED  BY <1>1, <1>2, <2>1 DEF ReadRow, Shape
<1>6. links' = (IF p = Null THEN links ELSE Moved(links, e, p, links[p].count))
  BY <1>3 DEF ReadRow
<1>7. world' = (IF p = Null THEN fresh ELSE Propagated(links', bare, fresh, e))
  BY DEF ReadRow
<1> HIDE DEF born, fresh, bare, K
<1>8. WorldFresh'
  BY <1>5 DEF WorldFresh
<1>9. CASE p = Null
  <2>1. links' = links
    BY <1>6, <1>9
  <2>2. world' \in [Entity -> Frame]
    BY <1>4, <1>7, <1>9
  <2>3. Forest(links', K, live')
    BY <1>1, <1>2, <2>1, ForestGrown
  <2>4. Shape' /\ Kids(links)' = K
    BY <1>5, <2>2, <2>3, ShapeAgain
  <2>5. Tree!Create(e)
    BY <1>2, <2>4 DEF Tree!Create, Kids, K
  <2> QED  BY <1>8, <2>4, <2>5 DEF HierarchyInv
<1>10. CASE p # Null
  <2>1. p \in live /\ p \in Entity /\ p # e
    BY <1>1, <1>2, <1>10
  <2>2. PICK pos : pos = links[p].count
    OBVIOUS
  <2>3. links[p].count = Len(K[p]) /\ Len(K[p]) \in Nat
    BY <1>1, <2>1 DEF Woven, Listed
  <2>4. pos \in 0 .. Len(Without(K, e)[p])
    BY <1>3, <2>2, <2>3
  <2>5. PICK N : N = Inserted(K, e, p, pos)
    OBVIOUS
  <2>6. PICK V \in SUBSET Entity : V = live \cup {e}
    BY <1>1
  <2>7. Forest(links, K, V)
    BY <1>1, <2>6, ForestGrown
  <2>8. links' = Moved(links, e, p, pos)
    BY <1>6, <1>10, <2>2
  <2>9. e \in V /\ p \in V /\ e \notin Above(links, p)
    BY <1>3, <2>1, <2>6
  <2>10. Forest(links', N, V)
    BY <2>4, <2>5, <2>7, <2>8, <2>9, ForestMoved
  <2>11. world' \in [Entity -> Frame]
    <3>1. LinkTyped(links') /\ Woven(links', N) /\ Rooted(links')
      BY <2>10 DEF Forest
    <3>2. world' = Propagated(links', bare, fresh, e)
      BY <1>7, <1>10
    <3>3. Painted(links', bare, fresh, Sub(links', e), Propagated(links', bare, fresh, e))
      BY <1>4, <3>1, PropagatedIs
    <3> QED  BY <3>2, <3>3 DEF Painted
  <2>12. Forest(links', N, live')
    BY <1>2, <2>6, <2>10
  <2>13. Shape' /\ Kids(links)' = N
    BY <1>5, <2>11, <2>12, ShapeAgain
  <2>14. Tree!CreateUnder(e, p)
    <3>1. Kids(links)' = Inserted(Kids(links), e, p, links[p].count)
      BY <2>2, <2>5, <2>13 DEF K
    <3> QED  BY <1>1, <1>2, <2>1, <3>1, RowBelow
  <2> QED  BY <1>8, <2>1, <2>13, <2>14 DEF HierarchyInv
<1> QED  BY <1>9, <1>10

-----------------------------------------------------------------------------
(* Moves that preserve the world.                                          *)

\* fromLocalToWorld of an entity returns its cached world, when it and those
\* of its ancestors are fresh.
LEMMA WorldFromLocalsIs ==
  ASSUME Shape, \A x \in live : FreshAt(links, local, world, x), NEW e \in live
  PROVE  WorldFromLocals(e) = world[e]
<1> DEFINE next == [s \in Climb |-> Ascended(s)]
           start == [at |-> e, product |-> Identity]
           r == Rounds(next, start)
           D == {s \in Climb : \/ s.at = Null /\ s.product = world[e]
                               \/ s.at \in live /\ Compose(world[s.at], s.product) = world[e]}
           up == Ancestor(links, e)
<1>0. PICK N \in Nat : N = Cardinality(Entity)
  BY DepthIs
<1>1. /\ LinkTyped(links) /\ Rooted(links) /\ ParentTyped(links) /\ live \in SUBSET Entity
      /\ Forest(links, Kids(links), live) /\ local \in [Entity -> Frame] /\ world \in [Entity -> Frame]
      /\ e \in Entity
  BY KidsShape DEF Shape
<1>2. PICK b \in Climb : b = start
  BY <1>1, IdentityTyped DEF Climb
<1>3. b \in D
  <2>1. Compose(world[e], Identity) = world[e]
    BY <1>1, IdentityIs
  <2> QED  BY <1>2, <2>1
<1>4. ASSUME NEW s \in D
      PROVE  next[s] \in D /\ next[s].at = IF s.at = Null THEN Null ELSE links[s.at].parent
  <2>1. s \in Climb /\ s.at \in Entity \cup {Null} /\ s.product \in Frame
    BY DEF Climb
  <2>2. CASE s.at = Null
    BY <1>4, <2>1, <2>2 DEF Ascended
  <2>3. CASE s.at # Null
    <3>1. PICK x \in live : x = s.at /\ Compose(world[x], s.product) = world[e]
      BY <1>4, <2>3
    <3>2. PICK m \in Frame : m = Compose(local[x], s.product)
      BY <1>1, <2>1, ComposeTyped
    <3>3. next[s] = [at |-> links[x].parent, product |-> m]
      BY <2>1, <2>3, <3>1, <3>2 DEF Ascended
    <3>4. links[x].parent \in live \cup {Null}
      BY <1>1, ForestLive
    <3>5. next[s] \in Climb /\ next[s].at = links[x].parent /\ next[s].product = m
      BY <1>1, <3>3, <3>4 DEF Climb
    <3>6. CASE links[x].parent = Null
      <4>1. world[x] = local[x]
        BY <3>6 DEF FreshAt
      <4> QED  BY <2>3, <3>1, <3>2, <3>5, <3>6, <4>1
    <3>7. CASE links[x].parent # Null
      <4>1. PICK y \in live : y = links[x].parent
        BY <3>4, <3>7
      <4>2. world[x] = Compose(world[y], local[x])
        BY <3>7, <4>1 DEF FreshAt
      <4>3. Compose(Compose(world[y], local[x]), s.product) = Compose(world[y], Compose(local[x], s.product))
        <5>1. world[y] \in Frame /\ local[x] \in Frame
          BY <1>1
        <5> QED  BY <2>1, <5>1, ComposeAssociates
      <4>4. Compose(world[y], m) = world[e]
        BY <3>1, <3>2, <4>2, <4>3
      <4> QED  BY <2>3, <3>1, <3>5, <4>1, <4>4
    <3> QED  BY <3>6, <3>7
  <2> QED  BY <2>2, <2>3
<1>5. WorldFromLocals(e) = r[N].product
  BY <1>0 DEF WorldFromLocals
<1>6. r = Rounds(next, b)
  BY <1>2, Zenon
<1>7. b.at = e
  BY <1>2
<1>8. \A s \in D : s.at = Null => s.product = world[e]
  BY <1>1, EntityAssumption
<1> HIDE DEF r, next, start, D
<1>9. r \in [0 .. N -> D] /\ r[0] = b /\ \A n \in 1 .. N : r[n] = next[r[n - 1]]
  <2>1. /\ r \in [Depth -> D] /\ r[0] = b
        /\ \A n \in 1 .. Cardinality(Entity) : r[n] = next[r[n - 1]]
    BY <1>3, <1>4, <1>6, RoundsIn
  <2> QED  BY <1>0, <2>1 DEF Depth
<1>10. up[0] = e /\ \A n \in 1 .. N : up[n] = IF up[n - 1] = Null THEN Null ELSE links[up[n - 1]].parent
  BY <1>0, <1>1, AncestorIs
<1>11. up[N] = Null
  BY <1>0, <1>1, AncestorEnds
<1> HIDE DEF up
<1> DEFINE T == {n \in 0 .. N : r[n].at = up[n]}
<1>12. 0 \in T
  BY <1>0, <1>7, <1>9, <1>10
<1>13. ASSUME NEW n \in 1 .. N, n - 1 \in T PROVE n \in T
  <2>1. n - 1 \in 0 .. N /\ n \in 0 .. N /\ r[n] = next[r[n - 1]] /\ r[n - 1] \in D
    BY <1>0, <1>9
  <2>2. r[n].at = IF r[n - 1].at = Null THEN Null ELSE links[r[n - 1].at].parent
    BY <1>4, <2>1
  <2>3. r[n - 1].at = up[n - 1]
    BY <1>13
  <2> QED  BY <1>10, <2>1, <2>2, <2>3
<1> HIDE DEF T
<1>14. \A n \in 0 .. N : n \in T
  BY <1>12, <1>13, EveryNumber
<1>15. r[N].at = Null /\ r[N] \in D
  <2>1. N \in 0 .. N
    BY <1>0
  <2> QED  BY <1>9, <1>11, <1>14, <2>1 DEF T
<1> QED  BY <1>5, <1>8, <1>15

\* A new parent and a local transform that keep the world of c keep all.
LEMMA WorldStays ==
  ASSUME Shape, \A x \in live : FreshAt(links, local, world, x), NEW N, NEW c \in live, NEW f \in Frame,
         Forest(links', N, live), \A x \in Entity : x # c => links'[x].parent = links[x].parent,
         Placed(c, f, Propagated(links', local, world, c)),
         world[c] = IF links'[c].parent = Null THEN f ELSE Compose(world[links'[c].parent], f)
  PROVE  world' = world
<1> DEFINE S == Sub(links', c)
           w == Propagated(links', local, world, c)
<1>1. /\ LinkTyped(links') /\ Woven(links', N) /\ Rooted(links') /\ live \in SUBSET Entity /\ c \in Entity
      /\ local \in [Entity -> Frame] /\ world \in [Entity -> Frame]
  BY DEF Forest, Shape
<1>2. ParentTyped(links')
  BY <1>1, LinkFields
<1>3. /\ c \in S /\ S \subseteq Entity /\ links'[c].parent \notin S
      /\ \A x \in S : x # c => links'[x].parent # Null
  BY <1>1, <1>2, SubIs
<1>4. w \in [Entity -> Frame] /\ \A x \in Entity : x \notin S => w[x] = world[x]
  BY <1>1, PropagatedIs DEF Painted
<1>5. /\ local' = [local EXCEPT ![c] = f] /\ local' \in [Entity -> Frame]
      /\ world' = Propagated(links', local', w, c)
  BY <1>1 DEF Placed
<1> HIDE DEF w
<1>6. /\ world' \in [Entity -> Frame] /\ \A x \in Entity : x \notin S => world'[x] = w[x]
      /\ \A x \in S : FreshAt(links', local', world', x)
  <2>1. Painted(links', local', w, Sub(links', c), Propagated(links', local', w, c))
    BY <1>1, <1>4, <1>5, PropagatedIs
  <2> QED  BY <1>5, <2>1 DEF Painted
<1>7. \A x \in Entity : x \notin S => world'[x] = world[x]
  BY <1>4, <1>6
<1>8. local'[c] = f /\ \A x \in Entity : x # c => local'[x] = local[x]
  BY <1>1, <1>5
<1> DEFINE T == {x \in Entity : world'[x] = world[x]}
<1> HIDE DEF S
<1>9. c \in T
  <2>1. FreshAt(links', local', world', c)
    BY <1>3, <1>6
  <2>2. CASE links'[c].parent = Null
    BY <1>1, <1>8, <2>1, <2>2 DEF FreshAt
  <2>3. CASE links'[c].parent # Null
    <3>1. PICK y \in Entity : y = links'[c].parent
      BY <1>1, <1>2, <2>3 DEF ParentTyped
    <3>2. world'[y] = world[y]
      BY <1>3, <1>7, <3>1
    <3>3. world'[c] = Compose(world'[y], f)
      BY <1>8, <2>1, <2>3, <3>1 DEF FreshAt
    <3> QED  BY <1>1, <2>3, <3>1, <3>2, <3>3
  <2> QED  BY <2>2, <2>3
<1>10. ASSUME NEW x \in Entity, links'[x].parent # Null, links'[x].parent \in T PROVE x \in T
  <2>1. CASE x \notin S
    BY <1>7, <2>1
  <2>2. CASE x = c
    BY <1>9, <2>2
  <2>3. CASE x \in S /\ x # c
    <3>1. x \in live
      BY <1>1, <1>10, ForestLive
    <3>2. PICK y \in Entity : y = links'[x].parent /\ world'[y] = world[y]
      BY <1>10
    <3>3. y # Null /\ links[x].parent = y
      BY <1>10, <2>3, <3>2
    <3>4. world[x] = Compose(world[y], local[x])
      BY <3>1, <3>3 DEF FreshAt
    <3>5. FreshAt(links', local', world', x)
      BY <1>6, <2>3
    <3>6. world'[x] = Compose(world'[y], local'[x])
      BY <3>2, <3>3, <3>5 DEF FreshAt
    <3> QED  BY <1>8, <2>3, <3>2, <3>4, <3>6
  <2> QED  BY <2>1, <2>2, <2>3
<1> HIDE DEF T
<1>11. S \subseteq T
  BY <1>1, <1>2, <1>9, <1>10, SubLeast DEF S
<1>12. \A x \in Entity : world'[x] = world[x]
  BY <1>7, <1>11 DEF T
<1> QED  BY <1>1, <1>6, <1>12

LEMMA setParentPreserves ==
  ASSUME HierarchyInv, ~reading, NEW c \in Entity, NEW p \in Entity, NEW pos \in Nat,
         setParentKeepingWorld(c, p, pos)
  PROVE  world' = world
<1>1. Shape /\ (\A x \in live : FreshAt(links, local, world, x)) /\ world \in [Entity -> Frame]
  BY DEF HierarchyInv, WorldFresh, FreshAt, Shape
<1>2. Accepts(c, p, pos) /\ links' = Moved(links, c, p, pos)
  BY DEF setParentKeepingWorld
<1>3. c \in live /\ p \in live
  BY <1>1, <1>2, AcceptsIs
<1>4. PICK N : N = Inserted(Kids(links), c, p, pos)
  OBVIOUS
<1>5. /\ Forest(links', N, live)
      /\ \A e \in Entity : links'[e].parent = IF e = c THEN p ELSE links[e].parent
  BY <1>1, <1>2, <1>4, MovedShape
<1>6. PICK u \in Frame : u = world[p]
  BY <1>1
<1>7. PICK v \in Frame : v = world[c]
  BY <1>1
<1>8. WorldFromLocals(p) = u /\ WorldFromLocals(c) = v
  BY <1>1, <1>3, <1>6, <1>7, WorldFromLocalsIs
<1>9. ~Singular(u)
  BY <1>8 DEF setParentKeepingWorld
<1>10. PICK i \in Frame : i = Inverted(u) /\ Compose(u, i) = Identity
  BY <1>9, InvertedTyped
<1>11. PICK f \in Frame : f = Compose(i, v)
  BY ComposeTyped
<1>12. Compose(u, f) = v
  <2>1. Compose(Compose(u, i), v) = Compose(u, Compose(i, v))
    BY ComposeAssociates
  <2>2. Compose(Identity, v) = v
    BY IdentityIs
  <2> QED  BY <1>10, <1>11, <2>1, <2>2
<1>13. Placed(c, f, Propagated(links', local, world, c))
  <2>1. Relative(p, WorldFromLocals(c)) = f
    BY <1>8, <1>10, <1>11 DEF Relative
  <2> QED  BY <2>1 DEF setParentKeepingWorld
<1>14. world[c] = IF links'[c].parent = Null THEN f ELSE Compose(world[links'[c].parent], f)
  <2>1. links'[c].parent = p /\ p # Null
    BY <1>5, EntityAssumption
  <2> QED  BY <1>6, <1>7, <1>12, <2>1
<1>15. \A x \in Entity : x # c => links'[x].parent = links[x].parent
  BY <1>5
<1> QED  BY <1>1, <1>3, <1>5, <1>13, <1>14, <1>15, WorldStays

LEMMA unparentPreserves ==
  ASSUME HierarchyInv, ~reading, NEW c \in Entity, unparentKeepingWorld(c)
  PROVE  world' = world
<1>1. Shape /\ (\A x \in live : FreshAt(links, local, world, x)) /\ world \in [Entity -> Frame]
  BY DEF HierarchyInv, WorldFresh, FreshAt, Shape
<1>2. CanUnparent(c) /\ links' = Freed(links, c) /\ c \in live
  BY DEF unparentKeepingWorld, CanUnparent, HasParent
<1>3. PICK N : N = Without(Kids(links), c)
  OBVIOUS
<1>4. /\ Forest(links', N, live)
      /\ \A e \in Entity : links'[e].parent = IF e = c THEN Null ELSE links[e].parent
  BY <1>1, <1>2, <1>3, FreedShape
<1>5. PICK f \in Frame : f = world[c]
  BY <1>1
<1>6. DetachedLocal(c) = f
  BY <1>1, <1>2, <1>5, WorldFromLocalsIs DEF DetachedLocal
<1>7. Placed(c, f, Propagated(links', local, world, c))
  BY <1>6 DEF unparentKeepingWorld
<1>8. links'[c].parent = Null /\ \A x \in Entity : x # c => links'[x].parent = links[x].parent
  BY <1>4
<1> QED  BY <1>1, <1>2, <1>4, <1>5, <1>7, <1>8, WorldStays

-----------------------------------------------------------------------------
(* The theorems.                                                           *)

LEMMA StepIs ==
  ASSUME HierarchyInv, [Next]_vars
  PROVE  HierarchyInv' /\ [Tree!Next]_(Tree!vars)
<1>1. CASE ~reading /\ Operation
  <2>1. ASSUME NEW e \in Entity, createEntity(e) \/ destroyEntity(e) \/ unparent(e)
        PROVE  HierarchyInv' /\ Tree!Next
    BY <1>1, <2>1, createEntityIs, destroyEntityIs, unparentIs DEF Tree!Next
  <2>2. ASSUME clear, UNCHANGED reading PROVE HierarchyInv' /\ Tree!Next
    <3>1. reading' \in BOOLEAN
      BY <2>2 DEF HierarchyInv, Shape
    <3> QED  BY <2>2, <3>1, clearIs DEF Tree!Next
  <2>3. ASSUME NEW c \in Entity, NEW p \in Entity, NEW pos \in Count,
               setParent(c, p, pos) \/ setParentKeepingWorld(c, p, pos)
        PROVE  HierarchyInv' /\ Tree!Next
    <3>1. pos \in Nat /\ pos \in 0 .. Tree!Cardinality(Entity)
      BY DepthIs DEF Count, Tree!Cardinality, Cardinality
    <3>2. HierarchyInv' /\ Tree!Attach(c, p, pos)
      BY <1>1, <2>3, <3>1, setParentIs, setParentKeepingWorldIs
    <3> QED  BY <3>1, <3>2 DEF Tree!Next
  <2>4. ASSUME NEW c \in Entity, unparentKeepingWorld(c) PROVE HierarchyInv' /\ Tree!Next
    BY <1>1, <2>4, unparentIs DEF Tree!Next
  <2>5. ASSUME NEW e \in Entity, NEW f \in Input, setLocal(e, f) \/ setWorld(e, f) \/ assign(e, f)
        PROVE  HierarchyInv' /\ UNCHANGED Tree!vars
    <3>1. f \in Frame
      BY InputTyped
    <3>2. CASE setLocal(e, f)
      BY <1>1, <3>1, <3>2, setLocalIs DEF setLocal
    <3>3. CASE setWorld(e, f)
      BY <1>1, <3>1, <3>3, setWorldIs
    <3>4. CASE assign(e, f)
      <4>1. UNCHANGED <<live, spent, links, reading>>
        BY <3>4 DEF assign
      <4> QED  BY <1>1, <3>1, <3>4, <4>1, setLocalIs
    <3> QED  BY <2>5, <3>2, <3>3, <3>4
  <2> QED  BY <1>1, <2>1, <2>2, <2>3, <2>4, <2>5 DEF Operation
<1>2. CASE BeginRead
  BY <1>2, BeginReadIs
<1>3. CASE \E e \in Entity, p \in Entity \cup {Null}, f \in Input : ReadRow(e, p, f)
  <2>1. PICK e \in Entity, p \in Entity \cup {Null}, f \in Input : ReadRow(e, p, f)
    BY <1>3
  <2>2. HierarchyInv' /\ (Tree!Create(e) \/ (p \in Entity /\ Tree!CreateUnder(e, p)))
    BY <2>1, InputTyped, ReadRowIs
  <2> QED  BY <2>2 DEF Tree!Next
<1>4. CASE EndRead
  BY <1>4, EndReadIs
<1>5. CASE FailRead
  <2>1. clear /\ reading' \in BOOLEAN
    BY <1>5 DEF FailRead
  <2> QED  BY <2>1, clearIs DEF Tree!Next
<1>6. CASE UNCHANGED vars
  <2>1. /\ UNCHANGED <<live, spent, links>> /\ UNCHANGED <<local, world, reading>>
    BY <1>6 DEF vars
  <2>2. /\ local' \in [Entity -> Frame] /\ world' \in [Entity -> Frame] /\ reading' \in BOOLEAN
        /\ ~reading' => \A x \in live : FreshAt(links, local', world', x)
    BY <2>1 DEF HierarchyInv, Shape, WorldFresh, FreshAt
  <2> QED  BY <2>1, <2>2, LinksStay
<1> QED  BY <1>1, <1>2, <1>3, <1>4, <1>5, <1>6 DEF Next

\* The invariant the theorems rest on: the links of the live entities are
\* the ordered lists of a forest, and outside read every world is fresh.
THEOREM HierarchyInvariant == Spec => []HierarchyInv
<1>1. Init => HierarchyInv
  BY InitIs
<1>2. HierarchyInv /\ [Next]_vars => HierarchyInv'
  BY StepIs
<1> QED  BY <1>1, <1>2, PTL DEF Spec

\* Scene's sibling lists always agree in both directions, no chain of
\* parents closes, and setParent refuses a move exactly when the tree does:
\* its checks of the links never refuse a legal one.
THEOREM HierarchyIsSound == Spec => []HierarchySound
<1>1. HierarchyInv => HierarchySound
  BY ShapeSound DEF HierarchyInv
<1> QED  BY <1>1, HierarchyInvariant, PTL

\* Whatever is moved, set, assigned or read, propagateTransformSubtree
\* reaches every entity whose cached world went stale, outside read.
THEOREM WorldIsFresh == Spec => []WorldFresh
<1>1. HierarchyInv => WorldFresh
  BY DEF HierarchyInv
<1> QED  BY <1>1, HierarchyInvariant, PTL

\* The operations on links do to the ordered tree what HierarchyTree says:
\* whole subtrees move and die, to and from the place that was asked for.
THEOREM ImplementsTreeCorrect == Spec => ImplementsTree
<1>1. Init => Tree!Init
  BY InitIs
<1>2. HierarchyInv /\ [Next]_vars => [Tree!Next]_(Tree!vars)
  BY StepIs
<1> QED  BY <1>1, <1>2, HierarchyInvariant, PTL DEF Spec, ImplementsTree, Tree!Spec

\* What setParent and unparent promise with PreserveWorld: the new local
\* transform cancels the new parent's, and the two propagations give back
\* the world of every entity below.
THEOREM WorldPreservedCorrect == Spec => WorldPreserved
<1> DEFINE Kept == \/ world' = world
                   \/ \A c \in Entity :
                        /\ ~unparentKeepingWorld(c)
                        /\ \A p \in Entity, pos \in Count : ~setParentKeepingWorld(c, p, pos)
<1>1. ASSUME HierarchyInv, [Next]_vars, UNCHANGED <<live, reading>>, world' # world PROVE ~reading
  <2>1. CASE UNCHANGED vars
    BY <1>1, <2>1 DEF vars
  <2>2. CASE BeginRead
    BY <2>2 DEF BeginRead
  <2>3. CASE \E e \in Entity, p \in Entity \cup {Null}, f \in Input : ReadRow(e, p, f)
    <3>1. PICK e \in Entity : e \notin live /\ live' = live \cup {e}
      BY <2>3 DEF ReadRow, Fresh
    <3> QED  BY <1>1, <3>1
  <2>4. CASE EndRead \/ FailRead
    BY <1>1, <2>4 DEF EndRead, FailRead
  <2> QED  BY <1>1, <2>1, <2>2, <2>3, <2>4 DEF Next
<1>2. ASSUME HierarchyInv, [Next]_vars, world' # world PROVE Kept
  <2>1. SUFFICES ASSUME NEW c \in Entity
                 PROVE  /\ ~unparentKeepingWorld(c)
                        /\ \A p \in Entity, pos \in Count : ~setParentKeepingWorld(c, p, pos)
    OBVIOUS
  <2>2. ~unparentKeepingWorld(c)
    <3>1. SUFFICES ASSUME unparentKeepingWorld(c) PROVE FALSE
      OBVIOUS
    <3>2. UNCHANGED <<live, reading>>
      BY <3>1 DEF unparentKeepingWorld
    <3> QED  BY <1>1, <1>2, <3>1, <3>2, unparentPreserves
  <2>3. ASSUME NEW p \in Entity, NEW pos \in Count PROVE ~setParentKeepingWorld(c, p, pos)
    <3>1. SUFFICES ASSUME setParentKeepingWorld(c, p, pos) PROVE FALSE
      OBVIOUS
    <3>2. UNCHANGED <<live, reading>>
      BY <3>1 DEF setParentKeepingWorld
    <3>3. pos \in Nat
      BY DepthIs DEF Count
    <3> QED  BY <1>1, <1>2, <3>1, <3>2, <3>3, setParentPreserves
  <2> QED  BY <2>2, <2>3
<1>3. HierarchyInv /\ [Next]_vars => [Kept]_vars
  BY <1>2
<1> QED  BY <1>3, HierarchyInvariant, PTL DEF Spec, WorldPreserved
=============================================================================
