---------------------------- MODULE CacheProofs ----------------------------
(***************************************************************************)
(* The resource cache and the loads of scenes on it, for every set of ids, *)
(* every catalog, every scene and any number of entries, holds and         *)
(* dependencies.                                                           *)
(***************************************************************************)
EXTENDS SceneLoading, FiniteSetTheorems, SequenceTheorems, NumberInduction, TLAPS

-----------------------------------------------------------------------------
(* Graphs of dependencies.  D gives each live entry the sequence of those  *)
(* it depends on.                                                          *)

\* T has what its members depend on.
ClosedIn(D, T) == \A g \in T \cap DOMAIN D : ToSet(D[g]) \subseteq T

\* No entry is reached from its own dependencies.
AcyclicIn(D) ==
    \A h \in DOMAIN D : \E T : ClosedIn(D, T) /\ ToSet(D[h]) \subseteq T /\ h \notin T

\* The places where D names d.
Places(D, d) == {e \in UNION {{h} \X DOMAIN D[h] : h \in DOMAIN D} : D[e[1]][e[2]] = d}

\* The places in one sequence.
Named(q, d) == {k \in DOMAIN q : q[k] = d}

\* D2 is D with x appended to what h depends on.
Extended(D, h, x, D2) ==
    /\ DOMAIN D2 = DOMAIN D /\ h \in DOMAIN D
    /\ D2[h] = Append(D[h], x)
    /\ \A g \in DOMAIN D \ {h} : D2[g] = D[g]

\* D2 is D and a new entry n that depends on nothing.
Grown(D, n, D2) ==
    /\ n \notin DOMAIN D /\ DOMAIN D2 = DOMAIN D \cup {n}
    /\ D2[n] = <<>>
    /\ \A g \in DOMAIN D : D2[g] = D[g]

\* D2 is D without the entry h.
Shrunk(D, h, D2) ==
    /\ h \in DOMAIN D /\ DOMAIN D2 = DOMAIN D \ {h}
    /\ \A g \in DOMAIN D2 : D2[g] = D[g]

\* What one more dependency leaves of a sequence.
LEMMA AppendedSet ==
  ASSUME NEW H, NEW q \in Seq(H), NEW x
  PROVE  /\ ToSet(Append(q, x)) = ToSet(q) \cup {x}
         /\ DOMAIN Append(q, x) = DOMAIN q \cup {Len(q) + 1}
         /\ Len(q) + 1 \notin DOMAIN q
         /\ Append(q, x)[Len(q) + 1] = x
         /\ \A k \in DOMAIN q : Append(q, x)[k] = q[k]
<1>1. /\ DOMAIN q = 1 .. Len(q) /\ Len(q) \in Nat
      /\ DOMAIN Append(q, x) = 1 .. Len(q) + 1
      /\ Append(q, x)[Len(q) + 1] = x
      /\ \A k \in 1 .. Len(q) : Append(q, x)[k] = q[k]
  <2>1. q \in Seq(H \cup {x}) /\ x \in H \cup {x}
    BY SeqDef
  <2>2. /\ Append(q, x) \in Seq(H \cup {x})
        /\ Len(Append(q, x)) = Len(q) + 1
        /\ \A i \in 1 .. Len(q) : Append(q, x)[i] = q[i]
        /\ Append(q, x)[Len(q) + 1] = x
    BY <2>1, AppendProperties
  <2> QED  BY <2>1, <2>2, LenProperties
<1>2. 1 .. Len(q) + 1 = 1 .. Len(q) \cup {Len(q) + 1} /\ Len(q) + 1 \notin 1 .. Len(q)
  BY <1>1
<1> QED  BY <1>1, <1>2 DEF ToSet

LEMMA EmptySet == ToSet(<<>>) = {} /\ DOMAIN <<>> = {}
BY EmptySeq DEF ToSet

\* A new entry without dependencies closes no cycle.
LEMMA GrownAcyclic ==
  ASSUME NEW D, NEW n, NEW D2, Grown(D, n, D2), AcyclicIn(D)
  PROVE  AcyclicIn(D2)
<1> SUFFICES ASSUME NEW h \in DOMAIN D2
             PROVE  \E T : ClosedIn(D2, T) /\ ToSet(D2[h]) \subseteq T /\ h \notin T
  BY DEF AcyclicIn
<1>1. DOMAIN D2 = DOMAIN D \cup {n} /\ ToSet(D2[n]) = {} /\ \A g \in DOMAIN D : D2[g] = D[g]
  BY EmptySet DEF Grown
<1>2. CASE h = n
  BY <1>1, <1>2 DEF ClosedIn
<1>3. CASE h \in DOMAIN D
  <2>1. PICK T : ClosedIn(D, T) /\ ToSet(D[h]) \subseteq T /\ h \notin T
    BY <1>3 DEF AcyclicIn
  <2> QED  BY <1>1, <1>3, <2>1 DEF ClosedIn
<1> QED  BY <1>1, <1>2, <1>3

\* Nor does one that is taken away.
LEMMA ShrunkAcyclic ==
  ASSUME NEW D, NEW h, NEW D2, Shrunk(D, h, D2), AcyclicIn(D)
  PROVE  AcyclicIn(D2)
<1> SUFFICES ASSUME NEW g \in DOMAIN D2
             PROVE  \E T : ClosedIn(D2, T) /\ ToSet(D2[g]) \subseteq T /\ g \notin T
  BY DEF AcyclicIn
<1>1. DOMAIN D2 \subseteq DOMAIN D /\ \A f \in DOMAIN D2 : D2[f] = D[f]
  BY DEF Shrunk
<1>2. PICK T : ClosedIn(D, T) /\ ToSet(D[g]) \subseteq T /\ g \notin T
  BY <1>1 DEF AcyclicIn
<1> QED  BY <1>1, <1>2 DEF ClosedIn

\* Nor a dependency on what does not reach the one that gets it.
LEMMA ExtendedAcyclic ==
  ASSUME NEW H, NEW D, \A g \in DOMAIN D : D[g] \in Seq(H), AcyclicIn(D),
         NEW h, NEW x, NEW D2, Extended(D, h, x, D2),
         NEW T0, ClosedIn(D, T0), x \in T0, h \notin T0
  PROVE  AcyclicIn(D2)
<1> SUFFICES ASSUME NEW g \in DOMAIN D2
             PROVE  \E T : ClosedIn(D2, T) /\ ToSet(D2[g]) \subseteq T /\ g \notin T
  BY DEF AcyclicIn
<1>1. /\ DOMAIN D2 = DOMAIN D /\ h \in DOMAIN D
      /\ ToSet(D2[h]) = ToSet(D[h]) \cup {x}
      /\ \A f \in DOMAIN D : f # h => ToSet(D2[f]) = ToSet(D[f])
  BY AppendedSet DEF Extended
<1>2. PICK T : ClosedIn(D, T) /\ ToSet(D[g]) \subseteq T /\ g \notin T
  BY <1>1 DEF AcyclicIn
<1>3. \A f \in DOMAIN D : /\ f \in T => ToSet(D[f]) \subseteq T
                          /\ f \in T0 => ToSet(D[f]) \subseteq T0
  BY <1>2 DEF ClosedIn
<1>4. CASE g \notin T0
  <2>1. ClosedIn(D2, T \cup T0)
    BY <1>1, <1>3 DEF ClosedIn
  <2>2. ToSet(D2[g]) \subseteq T \cup T0 /\ g \notin T \cup T0
    BY <1>1, <1>2, <1>4
  <2> QED  BY <2>1, <2>2
<1>5. CASE g \in T0
  <2>1. ClosedIn(D2, T \cap T0)
    BY <1>1, <1>3 DEF ClosedIn
  <2>2. ToSet(D2[g]) \subseteq T \cap T0 /\ g \notin T \cap T0
    BY <1>1, <1>2, <1>3, <1>5
  <2> QED  BY <2>1, <2>2
<1> QED  BY <1>4, <1>5

\* The places are those of the entries.
LEMMA PlaceOf ==
  ASSUME NEW D, NEW d
  PROVE  /\ \A h, k : <<h, k>> \in Places(D, d) <=> h \in DOMAIN D /\ k \in Named(D[h], d)
         /\ \A e \in Places(D, d) : e = <<e[1], e[2]>> /\ e[1] \in DOMAIN D /\ e[2] \in Named(D[e[1]], d)
<1>1. \A e \in Places(D, d) : \E h \in DOMAIN D : e \in {h} \X DOMAIN D[h] /\ D[e[1]][e[2]] = d
  BY Zenon DEF Places
<1>2. \A e \in Places(D, d) : e = <<e[1], e[2]>> /\ e[1] \in DOMAIN D /\ e[2] \in Named(D[e[1]], d)
  BY <1>1 DEF Named
<1>3. \A h, k : h \in DOMAIN D /\ k \in Named(D[h], d) => <<h, k>> \in Places(D, d)
  <2>1. SUFFICES ASSUME NEW h \in DOMAIN D, NEW k \in Named(D[h], d) PROVE <<h, k>> \in Places(D, d)
    OBVIOUS
  <2>2. k \in DOMAIN D[h] /\ D[h][k] = d
    BY DEF Named
  <2>3. <<h, k>> \in {h} \X DOMAIN D[h] /\ <<h, k>>[1] = h /\ <<h, k>>[2] = k
    BY <2>2
  <2>4. <<h, k>> \in UNION {{g} \X DOMAIN D[g] : g \in DOMAIN D}
    BY <2>3
  <2> QED  BY <2>2, <2>3, <2>4 DEF Places
<1>4. \A h, k : <<h, k>> \in Places(D, d) => h \in DOMAIN D /\ k \in Named(D[h], d)
  <2>1. \A h, k : <<h, k>>[1] = h /\ <<h, k>>[2] = k
    OBVIOUS
  <2> QED  BY <1>2, <2>1
<1> QED  BY <1>2, <1>3, <1>4

\* Finitely many entries name something in finitely many places.
LEMMA PlacesFinite ==
  ASSUME NEW H, NEW D, IsFiniteSet(DOMAIN D), \A h \in DOMAIN D : D[h] \in Seq(H), NEW d
  PROVE  /\ IsFiniteSet(Places(D, d)) /\ Cardinality(Places(D, d)) \in Nat
         /\ \A h \in DOMAIN D : IsFiniteSet(Named(D[h], d)) /\ Cardinality(Named(D[h], d)) \in Nat
<1>1. \A h \in DOMAIN D : Len(D[h]) \in Nat /\ DOMAIN D[h] = 1 .. Len(D[h])
  BY LenProperties
<1>2. \A h \in DOMAIN D : IsFiniteSet(DOMAIN D[h])
  BY <1>1, FS_Interval
<1> DEFINE f == [h \in DOMAIN D |-> {h} \X DOMAIN D[h]]
           All == {{h} \X DOMAIN D[h] : h \in DOMAIN D}
<1>3. f \in Surjection(DOMAIN D, All)
  <2>1. f \in [DOMAIN D -> All]
    OBVIOUS
  <2>2. \A t \in All : \E h \in DOMAIN D : f[h] = t
    OBVIOUS
  <2> QED  BY <2>1, <2>2 DEF Surjection
<1>4. IsFiniteSet(All)
  <2> HIDE DEF f, All
  <2> QED  BY <1>3, FS_Surjection
<1>5. \A t \in All : IsFiniteSet(t)
  <2>1. \A h \in DOMAIN D : IsFiniteSet({h}) /\ IsFiniteSet(DOMAIN D[h])
    BY <1>2, FS_Singleton
  <2>2. \A h \in DOMAIN D : IsFiniteSet({h} \X DOMAIN D[h])
    BY <2>1, FS_Product
  <2> QED  BY <2>2
<1>6. IsFiniteSet(UNION All)
  <2> HIDE DEF All
  <2> QED  BY <1>4, <1>5, FS_UNION
<1>7. Places(D, d) \subseteq UNION All
  BY DEF Places
<1>8. IsFiniteSet(Places(D, d)) /\ Cardinality(Places(D, d)) \in Nat
  <2> HIDE DEF All
  <2> QED  BY <1>6, <1>7, FS_Subset, FS_CardinalityType
<1>9. \A h \in DOMAIN D : Named(D[h], d) \subseteq DOMAIN D[h]
  BY DEF Named
<1>10. \A h \in DOMAIN D : IsFiniteSet(Named(D[h], d)) /\ Cardinality(Named(D[h], d)) \in Nat
  BY <1>2, <1>9, FS_Subset, FS_CardinalityType
<1> QED  BY <1>8, <1>10

\* What nobody names is named in no place.
LEMMA PlacesNone ==
  ASSUME NEW H, NEW D, IsFiniteSet(DOMAIN D), \A h \in DOMAIN D : D[h] \in Seq(H), NEW d
  PROVE  /\ Cardinality(Places(D, d)) = 0 <=> \A h \in DOMAIN D : d \notin ToSet(D[h])
         /\ \A h \in DOMAIN D : Cardinality(Named(D[h], d)) = 0 <=> d \notin ToSet(D[h])
<1>1. \A h \in DOMAIN D : Named(D[h], d) = {} <=> d \notin ToSet(D[h])
  BY DEF Named, ToSet
<1>2. Places(D, d) = {} <=> \A h \in DOMAIN D : Named(D[h], d) = {}
  BY PlaceOf
<1> QED  BY <1>1, <1>2, PlacesFinite, FS_EmptySet

\* One more place.
LEMMA PlacesExtended ==
  ASSUME NEW H, NEW D, IsFiniteSet(DOMAIN D), \A g \in DOMAIN D : D[g] \in Seq(H),
         NEW h, NEW x, NEW D2, Extended(D, h, x, D2)
  PROVE  /\ Cardinality(Places(D2, x)) = Cardinality(Places(D, x)) + 1
         /\ \A d : d # x => Places(D2, d) = Places(D, d)
<1> DEFINE n == Len(D[h]) + 1
<1>1. /\ DOMAIN D2 = DOMAIN D /\ h \in DOMAIN D
      /\ \A g \in DOMAIN D : g # h => D2[g] = D[g]
      /\ DOMAIN D2[h] = DOMAIN D[h] \cup {n} /\ n \notin DOMAIN D[h] /\ D2[h][n] = x
      /\ \A k \in DOMAIN D[h] : D2[h][k] = D[h][k]
  BY AppendedSet DEF Extended
<1> HIDE DEF n
<1>2. Named(D2[h], x) = Named(D[h], x) \cup {n} /\ n \notin Named(D[h], x)
  BY <1>1 DEF Named
<1>3. \A d : d # x => Named(D2[h], d) = Named(D[h], d)
  BY <1>1 DEF Named
<1>4. Places(D2, x) = Places(D, x) \cup {<<h, n>>}
  <2>1. \A e \in Places(D2, x) : e \in Places(D, x) \cup {<<h, n>>}
    <3>1. SUFFICES ASSUME NEW e \in Places(D2, x), e # <<h, n>> PROVE e \in Places(D, x)
      OBVIOUS
    <3>2. e = <<e[1], e[2]>> /\ e[1] \in DOMAIN D2 /\ e[2] \in Named(D2[e[1]], x)
      BY PlaceOf
    <3>3. e[1] \in DOMAIN D /\ e[2] \in Named(D[e[1]], x)
      BY <1>1, <1>2, <3>1, <3>2
    <3> QED  BY <3>2, <3>3, PlaceOf
  <2>2. \A e \in Places(D, x) : e \in Places(D2, x)
    <3>1. SUFFICES ASSUME NEW e \in Places(D, x) PROVE e \in Places(D2, x)
      OBVIOUS
    <3>2. e = <<e[1], e[2]>> /\ e[1] \in DOMAIN D /\ e[2] \in Named(D[e[1]], x)
      BY PlaceOf
    <3>3. e[1] \in DOMAIN D2 /\ e[2] \in Named(D2[e[1]], x)
      BY <1>1, <1>2, <3>2
    <3> QED  BY <3>2, <3>3, PlaceOf
  <2>3. <<h, n>> \in Places(D2, x)
    BY <1>1, <1>2, PlaceOf
  <2> QED  BY <2>1, <2>2, <2>3
<1>5. <<h, n>> \notin Places(D, x)
  BY <1>2, PlaceOf
<1>6. IsFiniteSet(Places(D, x))
  BY PlacesFinite
<1>7. \A d : d # x => Places(D2, d) = Places(D, d)
  <2>1. SUFFICES ASSUME NEW d, d # x PROVE Places(D2, d) = Places(D, d)
    OBVIOUS
  <2>2. \A g \in DOMAIN D : Named(D2[g], d) = Named(D[g], d)
    BY <1>1, <1>3, <2>1
  <2>3. \A e : e \in Places(D2, d) => e \in Places(D, d)
    BY <1>1, <2>2, PlaceOf
  <2>4. \A e : e \in Places(D, d) => e \in Places(D2, d)
    BY <1>1, <2>2, PlaceOf
  <2> QED  BY <2>3, <2>4
<1> QED  BY <1>4, <1>5, <1>6, <1>7, FS_AddElement

\* A new entry names nothing.
LEMMA PlacesGrown ==
  ASSUME NEW D, NEW n, NEW D2, Grown(D, n, D2), NEW d
  PROVE  Places(D2, d) = Places(D, d)
<1>1. /\ DOMAIN D2 = DOMAIN D \cup {n} /\ n \notin DOMAIN D
      /\ Named(D2[n], d) = {} /\ \A g \in DOMAIN D : D2[g] = D[g]
  BY EmptySet DEF Grown, Named
<1>2. \A e : e \in Places(D2, d) => e \in Places(D, d)
  <2>1. SUFFICES ASSUME NEW e \in Places(D2, d) PROVE e \in Places(D, d)
    OBVIOUS
  <2>2. e = <<e[1], e[2]>> /\ e[1] \in DOMAIN D2 /\ e[2] \in Named(D2[e[1]], d)
    BY PlaceOf
  <2>3. e[1] \in DOMAIN D /\ e[2] \in Named(D[e[1]], d)
    BY <1>1, <2>2
  <2> QED  BY <2>2, <2>3, PlaceOf
<1>3. \A e : e \in Places(D, d) => e \in Places(D2, d)
  <2>1. SUFFICES ASSUME NEW e \in Places(D, d) PROVE e \in Places(D2, d)
    OBVIOUS
  <2>2. e = <<e[1], e[2]>> /\ e[1] \in DOMAIN D /\ e[2] \in Named(D[e[1]], d)
    BY PlaceOf
  <2>3. e[1] \in DOMAIN D2 /\ e[2] \in Named(D2[e[1]], d)
    BY <1>1, <2>2
  <2> QED  BY <2>2, <2>3, PlaceOf
<1> QED  BY <1>2, <1>3

\* The places of an entry go with it.
LEMMA PlacesShrunk ==
  ASSUME NEW H, NEW D, IsFiniteSet(DOMAIN D), \A g \in DOMAIN D : D[g] \in Seq(H),
         NEW h, NEW D2, Shrunk(D, h, D2), NEW d
  PROVE  Cardinality(Places(D, d)) = Cardinality(Places(D2, d)) + Cardinality(Named(D[h], d))
<1> DEFINE N == Named(D[h], d)
           P == Places(D, d)
           P2 == Places(D2, d)
           M == {e \in P : e[1] = h}
<1>1. h \in DOMAIN D /\ DOMAIN D2 = DOMAIN D \ {h} /\ \A g \in DOMAIN D2 : D2[g] = D[g]
  BY DEF Shrunk
<1>2. IsFiniteSet(P) /\ IsFiniteSet(N)
  BY <1>1, PlacesFinite
<1>3. \A e \in P : e = <<e[1], e[2]>> /\ e[1] \in DOMAIN D /\ e[2] \in Named(D[e[1]], d)
  BY PlaceOf
<1>4. \A e \in P2 : e = <<e[1], e[2]>> /\ e[1] \in DOMAIN D2 /\ e[2] \in Named(D2[e[1]], d)
  BY PlaceOf
<1>5. P2 = P \ M
  <2>1. \A e \in P2 : e \in P /\ e[1] # h
    <3>1. SUFFICES ASSUME NEW e \in P2 PROVE e \in P /\ e[1] # h
      OBVIOUS
    <3>2. e[1] \in DOMAIN D /\ e[2] \in Named(D[e[1]], d) /\ e[1] # h
      BY <1>1, <1>4
    <3> QED  BY <1>4, <3>2, PlaceOf
  <2>2. \A e \in P : e[1] # h => e \in P2
    <3>1. SUFFICES ASSUME NEW e \in P, e[1] # h PROVE e \in P2
      OBVIOUS
    <3>2. e[1] \in DOMAIN D2 /\ e[2] \in Named(D2[e[1]], d)
      BY <1>1, <1>3, <3>1
    <3> QED  BY <1>3, <3>2, PlaceOf
  <2> QED  BY <2>1, <2>2
<1>6. Cardinality(M) = Cardinality(N)
  <2> DEFINE f == [k \in N |-> <<h, k>>]
  <2>1. \A k \in N : <<h, k>> \in M
    <3>1. \A k \in N : <<h, k>> \in P
      BY <1>1, PlaceOf
    <3> QED  BY <3>1
  <2>2. \A e \in M : e[2] \in N /\ e = <<h, e[2]>>
    BY <1>3
  <2> HIDE DEF M, N
  <2>3. f \in [N -> M]
    BY <2>1
  <2>4. \A i, j \in N : f[i] = f[j] => i = j
    OBVIOUS
  <2>5. \A e \in M : \E k \in N : f[k] = e
    BY <2>2
  <2>6. f \in Bijection(N, M)
    <3> HIDE DEF f
    <3> QED  BY <2>3, <2>4, <2>5 DEF Bijection, Injection, Surjection, IsInjective
  <2>7. ExistsBijection(N, M)
    BY <2>6 DEF ExistsBijection
  <2> QED  BY <1>2, <2>7, FS_Bijection
<1>7. Cardinality(P) = Cardinality(P \ M) + Cardinality(M)
  <2>1. IsFiniteSet(P \ M) /\ IsFiniteSet(M) /\ P = (P \ M) \cup M /\ (P \ M) \cap M = {}
    BY <1>2, FS_Subset
  <2>2. Cardinality(P) = Cardinality(P \ M) + Cardinality(M) - Cardinality({})
    <3> HIDE DEF P, M
    <3>1. Cardinality((P \ M) \cup M) = Cardinality(P \ M) + Cardinality(M) - Cardinality((P \ M) \cap M)
      BY <2>1, FS_Union
    <3> QED  BY <2>1, <3>1, Zenon
  <2>3. Cardinality({}) = 0 /\ Cardinality(P \ M) \in Nat /\ Cardinality(M) \in Nat
    <3> HIDE DEF P, M
    <3> QED  BY <2>1, FS_EmptySet, FS_CardinalityType
  <2> HIDE DEF P, M
  <2> QED  BY <2>2, <2>3
<1>8. Cardinality(P2) \in Nat /\ Cardinality(N) \in Nat
  <2>1. IsFiniteSet(P2)
    BY <1>2, <1>5, FS_Subset
  <2> HIDE DEF P2, N
  <2> QED  BY <1>2, <2>1, FS_CardinalityType
<1> HIDE DEF P, P2, M, N
<1> QED  BY <1>5, <1>6, <1>7, <1>8 DEF P, P2, N

-----------------------------------------------------------------------------
(* What is reached from a set of entries.                                  *)

LiveIn(es) == {h \in DOMAIN es : es[h].occupied}
Deps(es) == [h \in LiveIn(es) |-> es[h].dependencies]

\* One step of the recursion of Reached.
Spreads(es, S, f) ==
    [n \in 0 .. Cardinality(LiveIn(es)) |->
        IF n = 0 THEN S
        ELSE f[n - 1] \cup UNION {ToSet(es[h].dependencies) : h \in f[n - 1] \cap LiveIn(es)}]

ReachedIn(es, S) == (CHOOSE f : f = Spreads(es, S, f))[Cardinality(LiveIn(es))]

LEMMA ReachedFromHere == \A S : Reached(S) = ReachedIn(entries, S)
BY DEF Reached, ReachedIn, Spreads, LiveIn, Live, Dependencies

LEMMA ReachedFromThere == \A S : Reached(S)' = ReachedIn(entries', S)
BY DEF Reached, ReachedIn, Spreads, LiveIn, Live, Dependencies

\* What the dependencies of X lead to in one step.
After(es, X) == UNION {ToSet(es[h].dependencies) : h \in X \cap LiveIn(es)}

\* f starts with S, and ends with what is reached.
Reaching(es, S, f) ==
    /\ f[0] = S
    /\ \A n \in 1 .. Cardinality(LiveIn(es)) : f[n] = f[n - 1] \cup After(es, f[n - 1])
    /\ ReachedIn(es, S) = f[Cardinality(LiveIn(es))]

\* The recursion has a solution, which ReachedIn takes the last set of.
LEMMA Spreading ==
  ASSUME NEW es, NEW S, IsFiniteSet(LiveIn(es))
  PROVE  \E f : Reaching(es, S, f)
<1> DEFINE N == Cardinality(LiveIn(es))
           All == S \cup UNION {ToSet(es[h].dependencies) : h \in LiveIn(es)}
           Sets == SUBSET All
<1>1. N \in Nat
  BY FS_CardinalityType
<1>2. S \in Sets /\ \A X \in Sets : X \cup After(es, X) \in Sets
  <2>1. S \in Sets
    OBVIOUS
  <2>2. \A X : After(es, X) \in Sets
    BY DEF After
  <2> QED  BY <2>1, <2>2
<1> HIDE DEF N, Sets
<1> DEFINE step == [k \in 1 .. N |-> [X \in Sets |-> X \cup After(es, X)]]
<1>3. step \in [1 .. N -> [Sets -> Sets]]
  BY <1>2
<1>4. PICK g \in [0 .. N -> Sets] : g[0] = S /\ \A k \in 1 .. N : g[k] = step[k][g[k - 1]]
  <2> HIDE DEF step
  <2> QED  BY <1>1, <1>2, <1>3, Iteration
<1>5. \A k \in 1 .. N : g[k] = g[k - 1] \cup After(es, g[k - 1])
  <2>1. \A k \in 1 .. N : k - 1 \in 0 .. N
    BY <1>1
  <2> QED  BY <1>4, <2>1
<1>6. \A n \in 0 .. N : n # 0 => n \in 1 .. N
  BY <1>1
<1>7. g = Spreads(es, S, g)
  <2>1. \A n \in 0 .. N : g[n] = IF n = 0 THEN S ELSE g[n - 1] \cup After(es, g[n - 1])
    BY <1>4, <1>5, <1>6
  <2>2. g = [n \in 0 .. N |-> g[n]]
    BY <1>4
  <2>3. g = [n \in 0 .. N |-> IF n = 0 THEN S ELSE g[n - 1] \cup After(es, g[n - 1])]
    BY <2>1, <2>2
  <2> QED  BY <2>3 DEF Spreads, After, N
<1>8. PICK f : f = Spreads(es, S, f) /\ ReachedIn(es, S) = f[N]
  <2> DEFINE f == CHOOSE f : f = Spreads(es, S, f)
  <2>1. f = Spreads(es, S, f)
    BY <1>7
  <2>2. ReachedIn(es, S) = f[N]
    BY DEF ReachedIn, N
  <2> QED  BY <2>1, <2>2
<1>9. \A n \in 0 .. N : Spreads(es, S, f)[n] = IF n = 0 THEN S ELSE f[n - 1] \cup After(es, f[n - 1])
  BY DEF Spreads, After, N
<1>10. f[0] = S /\ \A n \in 1 .. N : f[n] = f[n - 1] \cup After(es, f[n - 1])
  <2>1. 0 \in 0 .. N /\ \A n \in 1 .. N : n \in 0 .. N /\ n # 0
    BY <1>1
  <2> QED  BY <1>8, <1>9, <2>1
<1>11. Reaching(es, S, f)
  BY <1>8, <1>10 DEF N, Reaching
<1> QED  BY <1>11

\* It is the least set that has S and what its members depend on.
LEMMA ReachedIsLeast ==
  ASSUME NEW es, IsFiniteSet(LiveIn(es)), NEW S
  PROVE  /\ S \subseteq ReachedIn(es, S)
         /\ ClosedIn(Deps(es), ReachedIn(es, S))
         /\ \A T : S \subseteq T /\ ClosedIn(Deps(es), T) => ReachedIn(es, S) \subseteq T
<1>0. PICK f : Reaching(es, S, f)
  BY Spreading
<1> DEFINE N == Cardinality(LiveIn(es))
           L == LiveIn(es)
<1>1. /\ f[0] = S
      /\ \A n \in 1 .. N : f[n] = f[n - 1] \cup After(es, f[n - 1])
      /\ ReachedIn(es, S) = f[N]
  BY <1>0 DEF Reaching
<1>2. N \in Nat /\ IsFiniteSet(L)
  BY FS_CardinalityType
<1>3. \A T : ClosedIn(Deps(es), T) <=> After(es, T) \subseteq T
  <2>1. \A T : ClosedIn(Deps(es), T) <=> \A g \in T \cap L : ToSet(es[g].dependencies) \subseteq T
    BY DEF ClosedIn, Deps
  <2> QED  BY <2>1 DEF After
<1>4. \A X, Y : X \subseteq Y => After(es, X) \subseteq After(es, Y)
  BY DEF After
<1>5. \A X, x : x \in After(es, X) => \E h \in X \cap L : x \in ToSet(es[h].dependencies)
  BY DEF After
<1>6. \A X, h, x : h \in X \cap L /\ x \in ToSet(es[h].dependencies) => x \in After(es, X)
  BY DEF After
<1>7. \A n \in 1 .. N : n - 1 \in 0 .. N /\ n \in 0 .. N
  BY <1>2
<1> HIDE DEF N, L
<1>8. \A n \in 0 .. N : S \subseteq f[n]
  <2> DEFINE T == {n \in 0 .. N : S \subseteq f[n]}
  <2>1. 0 \in T
    BY <1>1, <1>2
  <2>2. \A k \in 1 .. N : k - 1 \in T => k \in T
    BY <1>1, <1>7
  <2>3. \A k \in 0 .. N : k \in T
    <3> HIDE DEF T
    <3> QED  BY <1>2, <2>1, <2>2, EveryNumber
  <2> QED  BY <2>3
<1>9. ASSUME NEW T, S \subseteq T, ClosedIn(Deps(es), T)
      PROVE  f[N] \subseteq T
  <2> DEFINE Q == {n \in 0 .. N : f[n] \subseteq T}
  <2>1. 0 \in Q
    BY <1>1, <1>2, <1>9
  <2>2. ASSUME NEW k \in 1 .. N, k - 1 \in Q PROVE k \in Q
    <3>1. f[k - 1] \subseteq T /\ f[k] = f[k - 1] \cup After(es, f[k - 1])
      BY <1>1, <2>2
    <3>2. After(es, f[k - 1]) \subseteq After(es, T) /\ After(es, T) \subseteq T
      BY <1>3, <1>4, <1>9, <3>1
    <3> QED  BY <1>7, <3>1, <3>2
  <2>3. \A k \in 0 .. N : k \in Q
    <3> HIDE DEF Q
    <3> QED  BY <1>2, <2>1, <2>2, EveryNumber
  <2> QED  BY <1>2, <2>3
<1>10. \A n \in 0 .. N : After(es, f[n]) \subseteq f[n] \/ Cardinality(f[n] \cap L) > n
  <2> DEFINE Q == {n \in 0 .. N : After(es, f[n]) \subseteq f[n] \/ Cardinality(f[n] \cap L) > n}
  <2>0. \A X : IsFiniteSet(X \cap L) /\ Cardinality(X \cap L) \in Nat
    <3>1. \A X : IsFiniteSet(X \cap L)
      BY <1>2, FS_Intersection
    <3> QED  BY <3>1, FS_CardinalityType
  <2>1. 0 \in Q
    <3>1. CASE After(es, f[0]) \subseteq f[0]
      BY <1>2, <3>1
    <3>2. CASE ~(After(es, f[0]) \subseteq f[0])
      <4>1. f[0] \cap L # {}
        BY <1>5, <3>2
      <4>2. Cardinality(f[0] \cap L) # 0
        BY <2>0, <4>1, FS_EmptySet
      <4> QED  BY <1>2, <2>0, <4>2
    <3> QED  BY <3>1, <3>2
  <2>2. ASSUME NEW k \in 1 .. N, k - 1 \in Q PROVE k \in Q
    <3>1. f[k] = f[k - 1] \cup After(es, f[k - 1]) /\ k \in 0 .. N /\ k - 1 \in 0 .. N
      BY <1>1, <1>7
    <3>2. CASE After(es, f[k - 1]) \subseteq f[k - 1]
      <4>1. f[k] = f[k - 1]
        BY <3>1, <3>2
      <4> QED  BY <3>1, <3>2, <4>1
    <3>3. CASE After(es, f[k]) \subseteq f[k]
      BY <3>1, <3>3
    <3>4. CASE ~(After(es, f[k - 1]) \subseteq f[k - 1]) /\ ~(After(es, f[k]) \subseteq f[k])
      <4>1. Cardinality(f[k - 1] \cap L) > k - 1
        BY <2>2, <3>4
      <4>2. PICK x : x \in After(es, f[k]) /\ x \notin f[k]
        BY <3>4
      <4>3. PICK h \in f[k] \cap L : x \in ToSet(es[h].dependencies)
        BY <1>5, <4>2
      <4>4. h \notin f[k - 1]
        BY <1>6, <3>1, <4>2, <4>3
      <4>5. (f[k - 1] \cap L) \cup {h} \subseteq f[k] \cap L /\ h \notin f[k - 1] \cap L
        BY <3>1, <4>3, <4>4
      <4>6. /\ IsFiniteSet((f[k - 1] \cap L) \cup {h})
            /\ Cardinality((f[k - 1] \cap L) \cup {h}) = Cardinality(f[k - 1] \cap L) + 1
        BY <2>0, <4>5, FS_AddElement
      <4>7. Cardinality((f[k - 1] \cap L) \cup {h}) <= Cardinality(f[k] \cap L)
        <5>1. (f[k - 1] \cap L) \cup {h} \in SUBSET (f[k] \cap L)
          BY <4>5
        <5>2. IsFiniteSet(f[k] \cap L)
          BY <2>0
        <5> QED  BY <5>1, <5>2, FS_Subset
      <4>8. Cardinality(f[k] \cap L) > k
        <5>1. k \in Nat /\ Cardinality(f[k - 1] \cap L) \in Nat /\ Cardinality(f[k] \cap L) \in Nat
          <6>1. k \in Nat
            BY <1>2
          <6>2. Cardinality(f[k - 1] \cap L) \in Nat /\ Cardinality(f[k] \cap L) \in Nat
            BY <2>0, Zenon
          <6> QED  BY <6>1, <6>2
        <5> QED  BY <4>1, <4>6, <4>7, <5>1
      <4> QED  BY <3>1, <4>8
    <3> QED  BY <3>2, <3>3, <3>4
  <2>3. \A k \in 0 .. N : k \in Q
    <3> HIDE DEF Q
    <3> QED  BY <1>2, <2>1, <2>2, EveryNumber
  <2> QED  BY <2>3
<1>11. After(es, f[N]) \subseteq f[N]
  <2>1. IsFiniteSet(f[N] \cap L) /\ Cardinality(f[N] \cap L) <= N /\ Cardinality(f[N] \cap L) \in Nat
    <3>1. f[N] \cap L \in SUBSET L
      OBVIOUS
    <3>2. IsFiniteSet(f[N] \cap L) /\ Cardinality(f[N] \cap L) <= Cardinality(L)
      BY <1>2, <3>1, FS_Subset
    <3>3. Cardinality(f[N] \cap L) \in Nat
      BY <3>2, FS_CardinalityType
    <3> QED  BY <3>2, <3>3 DEF N, L
  <2>2. N \in 0 .. N
    BY <1>2
  <2> QED  BY <1>2, <1>10, <2>1, <2>2
<1>12. S \subseteq f[N]
  BY <1>2, <1>8
<1> QED  BY <1>1, <1>3, <1>9, <1>11, <1>12

-----------------------------------------------------------------------------
(* The entries, their index and their holds.                               *)

IndexedIn(es, ids) ==
    /\ \A h \in LiveIn(es) : ids[es[h].id] = h
    /\ \A id \in Ids : ids[id] # NoHandle => ids[id] \in LiveIn(es) /\ es[ids[id]].id = id

CountedIn(es, hs) ==
    /\ \A d \in LiveIn(es) : es[d].acquires = hs[d] + Cardinality(Places(Deps(es), d))
    /\ \A h \in Handle : hs[h] > 0 => h \in LiveIn(es)
    /\ \A h \in LiveIn(es) : ToSet(es[h].dependencies) \subseteq LiveIn(es)

Typed(es, ids, hs) ==
    /\ es \in Seq(Entry) /\ Len(es) <= MaxHandles
    /\ ids \in [Ids -> Handle \cup {NoHandle}]
    /\ hs \in [Handle -> Nat]

\* The part of the invariant that has nothing to do with loads and queues.
Kept(es, ids, hs) ==
    Typed(es, ids, hs) /\ IndexedIn(es, ids) /\ CountedIn(es, hs) /\ AcyclicIn(Deps(es))

LEMMA EntryFields ==
  ASSUME NEW es, NEW ids, NEW hs, Typed(es, ids, hs)
  PROVE  /\ DOMAIN es = 1 .. Len(es) /\ Len(es) \in Nat /\ DOMAIN es \subseteq Handle
         /\ LiveIn(es) \subseteq DOMAIN es /\ IsFiniteSet(LiveIn(es))
         /\ \A h \in DOMAIN es : /\ es[h] \in Entry /\ es[h].id \in Ids
                                 /\ es[h].acquires \in Nat
                                 /\ es[h].dependencies \in Seq(Handle)
         /\ \A h \in Handle : hs[h] \in Nat
         /\ DOMAIN Deps(es) = LiveIn(es)
         /\ \A h \in LiveIn(es) : Deps(es)[h] = es[h].dependencies /\ Deps(es)[h] \in Seq(Handle)
<1>1. DOMAIN es = 1 .. Len(es) /\ Len(es) \in Nat /\ Len(es) <= MaxHandles
  BY LenProperties DEF Typed
<1>2. DOMAIN es \subseteq Handle
  BY <1>1, BoundsAssumption DEF Handle
<1>3. \A h \in DOMAIN es : es[h] \in Entry
  BY <1>1, ElementOfSeq DEF Typed
<1>4. \A h \in DOMAIN es : /\ es[h].id \in Ids /\ es[h].acquires \in Nat
                          /\ es[h].dependencies \in Seq(Handle)
  BY <1>3 DEF Entry
<1>5. LiveIn(es) \subseteq DOMAIN es /\ IsFiniteSet(LiveIn(es))
  <2>1. LiveIn(es) \in SUBSET (1 .. Len(es))
    BY <1>1 DEF LiveIn
  <2>2. IsFiniteSet(1 .. Len(es))
    BY <1>1, FS_Interval
  <2> QED  BY <1>1, <2>1, <2>2, FS_Subset
<1> QED  BY <1>1, <1>2, <1>3, <1>4, <1>5 DEF Deps, Typed

\* The entries depend on one another as before.
SameOutline(es, es2) ==
    /\ DOMAIN es2 = DOMAIN es
    /\ \A h \in DOMAIN es : /\ es2[h].occupied = es[h].occupied
                            /\ es2[h].id = es[h].id
                            /\ es2[h].dependencies = es[h].dependencies

\* The acquires of clients come and go with their holds.
HoldsMoved(es, es2, hs, hs2) ==
    /\ \A h \in LiveIn(es) : es2[h].acquires + hs[h] = es[h].acquires + hs2[h]
    /\ \A h \in Handle : hs2[h] > 0 => h \in LiveIn(es)

\* Acquires and releases by clients, and changes of what is not counted.
LEMMA HoldsKept ==
  ASSUME NEW es, NEW ids, NEW hs, Kept(es, ids, hs),
         NEW es2 \in Seq(Entry), NEW hs2 \in [Handle -> Nat],
         SameOutline(es, es2), HoldsMoved(es, es2, hs, hs2)
  PROVE  Kept(es2, ids, hs2)
<1>0. /\ DOMAIN es2 = DOMAIN es
      /\ \A h \in DOMAIN es : /\ es2[h].occupied = es[h].occupied
                              /\ es2[h].id = es[h].id
                              /\ es2[h].dependencies = es[h].dependencies
      /\ \A h \in LiveIn(es) : es2[h].acquires + hs[h] = es[h].acquires + hs2[h]
      /\ \A h \in Handle : hs2[h] > 0 => h \in LiveIn(es)
  BY DEF SameOutline, HoldsMoved
<1>1. Typed(es, ids, hs) /\ IndexedIn(es, ids) /\ CountedIn(es, hs) /\ AcyclicIn(Deps(es))
  BY DEF Kept
<1>2. Typed(es2, ids, hs2)
  <2>1. DOMAIN es = 1 .. Len(es) /\ DOMAIN es2 = 1 .. Len(es2) /\ Len(es) \in Nat /\ Len(es2) \in Nat
    BY <1>0, <1>1, EntryFields, LenProperties
  <2>2. Len(es2) = Len(es)
    BY <1>0, <2>1
  <2> QED  BY <1>1, <2>2 DEF Typed
<1>3. LiveIn(es2) = LiveIn(es) /\ LiveIn(es) \subseteq DOMAIN es
  BY <1>0 DEF LiveIn
<1>4. Deps(es2) = Deps(es)
  BY <1>0, <1>3 DEF Deps
<1>5. IndexedIn(es2, ids)
  BY <1>0, <1>1, <1>3, EntryFields DEF IndexedIn
<1>6. CountedIn(es2, hs2)
  <2>1. ASSUME NEW d \in LiveIn(es)
        PROVE  es2[d].acquires = hs2[d] + Cardinality(Places(Deps(es), d))
    <3>1. es[d].acquires = hs[d] + Cardinality(Places(Deps(es), d))
      BY <1>1, <2>1 DEF CountedIn
    <3>2. Cardinality(Places(Deps(es), d)) \in Nat
      BY <1>1, EntryFields, PlacesFinite
    <3>3. hs[d] \in Nat /\ hs2[d] \in Nat /\ es[d].acquires \in Nat /\ es2[d].acquires \in Nat
      BY <1>1, <1>2, <1>3, EntryFields
    <3>4. es2[d].acquires + hs[d] = es[d].acquires + hs2[d]
      BY <1>0, <2>1
    <3>5. PICK p, q, t, c : p = es2[d].acquires /\ q = hs[d] /\ t = hs2[d] /\ c = Cardinality(Places(Deps(es), d))
      OBVIOUS
    <3>6. p \in Nat /\ q \in Nat /\ t \in Nat /\ c \in Nat
      BY <3>2, <3>3, <3>5
    <3>7. p + q = (q + c) + t
      BY <3>1, <3>4, <3>5
    <3>8. p = t + c
      BY <3>6, <3>7
    <3> QED  BY <3>5, <3>8
  <2>2. \A h \in LiveIn(es) : ToSet(es2[h].dependencies) \subseteq LiveIn(es)
    BY <1>0, <1>1, <1>3 DEF CountedIn
  <2> QED  BY <1>0, <1>3, <1>4, <2>1, <2>2 DEF CountedIn
<1> QED  BY <1>1, <1>2, <1>4, <1>5, <1>6 DEF Kept

\* The entry h depends on x besides, and has acquired it.
OneLinked(es, h, x, es2) ==
    /\ DOMAIN es2 = DOMAIN es
    /\ \A g \in DOMAIN es :
        /\ es2[g].occupied = es[g].occupied
        /\ es2[g].id = es[g].id
        /\ es2[g].dependencies = IF g = h THEN Append(es[g].dependencies, x) ELSE es[g].dependencies
        /\ es2[g].acquires = IF g = x THEN es[g].acquires + 1 ELSE es[g].acquires

\* A dependency on a live entry that does not reach the holder.
LEMMA LinkKept ==
  ASSUME NEW es, NEW ids, NEW hs, Kept(es, ids, hs), NEW h \in LiveIn(es), NEW x \in LiveIn(es),
         NEW T, ClosedIn(Deps(es), T), x \in T, h \notin T,
         NEW es2 \in Seq(Entry), OneLinked(es, h, x, es2)
  PROVE  Kept(es2, ids, hs)
<1>0. /\ DOMAIN es2 = DOMAIN es
      /\ \A g \in DOMAIN es :
            /\ es2[g].occupied = es[g].occupied
            /\ es2[g].id = es[g].id
            /\ es2[g].dependencies = IF g = h THEN Append(es[g].dependencies, x) ELSE es[g].dependencies
            /\ es2[g].acquires = IF g = x THEN es[g].acquires + 1 ELSE es[g].acquires
  BY DEF OneLinked
<1>1. Typed(es, ids, hs) /\ IndexedIn(es, ids) /\ CountedIn(es, hs) /\ AcyclicIn(Deps(es))
  BY DEF Kept
<1>2. Typed(es2, ids, hs)
  <2>1. DOMAIN es = 1 .. Len(es) /\ DOMAIN es2 = 1 .. Len(es2) /\ Len(es) \in Nat /\ Len(es2) \in Nat
    BY <1>0, <1>1, EntryFields, LenProperties
  <2>2. Len(es2) = Len(es)
    BY <1>0, <2>1
  <2> QED  BY <1>1, <2>2 DEF Typed
<1>3. LiveIn(es2) = LiveIn(es) /\ LiveIn(es) \subseteq DOMAIN es
  BY <1>0 DEF LiveIn
<1>4. /\ DOMAIN Deps(es) = LiveIn(es) /\ DOMAIN Deps(es2) = LiveIn(es)
      /\ \A g \in LiveIn(es) : Deps(es)[g] = es[g].dependencies /\ Deps(es2)[g] = es2[g].dependencies
      /\ \A g \in DOMAIN Deps(es) : Deps(es)[g] \in Seq(Handle)
      /\ IsFiniteSet(DOMAIN Deps(es))
  BY <1>1, <1>3, EntryFields DEF Deps
<1>5. Extended(Deps(es), h, x, Deps(es2))
  BY <1>0, <1>3, <1>4 DEF Extended
<1>6. IndexedIn(es2, ids)
  BY <1>0, <1>1, <1>3, EntryFields DEF IndexedIn
<1>7. /\ Cardinality(Places(Deps(es2), x)) = Cardinality(Places(Deps(es), x)) + 1
      /\ \A d : d # x => Places(Deps(es2), d) = Places(Deps(es), d)
  BY <1>4, <1>5, PlacesExtended
<1>8. CountedIn(es2, hs)
  <2>1. ASSUME NEW d \in LiveIn(es)
        PROVE  es2[d].acquires = hs[d] + Cardinality(Places(Deps(es2), d))
    <3>1. es[d].acquires = hs[d] + Cardinality(Places(Deps(es), d))
      BY <1>1, <2>1 DEF CountedIn
    <3>2. Cardinality(Places(Deps(es), d)) \in Nat
      BY <1>4, PlacesFinite
    <3>3. hs[d] \in Nat /\ es[d].acquires \in Nat
      BY <1>1, <1>3, EntryFields
    <3>4. es2[d].acquires = IF d = x THEN es[d].acquires + 1 ELSE es[d].acquires
      BY <1>0, <1>3
    <3>5. CASE d = x
      <4>1. PICK p, c, a : p = hs[x] /\ c = Cardinality(Places(Deps(es), x)) /\ a = es[x].acquires
        OBVIOUS
      <4>2. p \in Nat /\ c \in Nat /\ a = p + c
        BY <3>1, <3>2, <3>3, <3>5, <4>1
      <4>3. a + 1 = p + (c + 1)
        BY <4>2
      <4> QED  BY <1>7, <3>4, <3>5, <4>1, <4>3
    <3>6. CASE d # x
      <4>1. Places(Deps(es2), d) = Places(Deps(es), d)
        BY <1>7, <3>6
      <4> QED  BY <3>1, <3>4, <3>6, <4>1
    <3> QED  BY <3>5, <3>6
  <2>2. ASSUME NEW g \in LiveIn(es)
        PROVE  ToSet(es2[g].dependencies) \subseteq LiveIn(es)
    <3>1. ToSet(es[g].dependencies) \subseteq LiveIn(es) /\ es[g].dependencies \in Seq(Handle)
      BY <1>1, <1>3, EntryFields DEF CountedIn
    <3>2. ToSet(Append(es[g].dependencies, x)) = ToSet(es[g].dependencies) \cup {x}
      BY <3>1, AppendedSet
    <3> QED  BY <1>0, <1>3, <3>1, <3>2
  <2>3. \A g \in Handle : hs[g] > 0 => g \in LiveIn(es)
    BY <1>1 DEF CountedIn
  <2> QED  BY <1>3, <2>1, <2>2, <2>3 DEF CountedIn
<1>9. AcyclicIn(Deps(es2))
  BY <1>1, <1>4, <1>5, ExtendedAcyclic
<1> QED  BY <1>2, <1>6, <1>8, <1>9 DEF Kept

\* es2 is es and a new entry, of an id that ids2 gives it to.
Joined(es, ids, n, es2, ids2) ==
    /\ n = Len(es) + 1 /\ n <= MaxHandles
    /\ DOMAIN es2 = DOMAIN es \cup {n}
    /\ \A g \in DOMAIN es : es2[g] = es[g]
    /\ es2[n].occupied /\ es2[n].acquires = 0 /\ es2[n].dependencies = <<>>
    /\ ids[es2[n].id] = NoHandle
    /\ \A id \in Ids : ids2[id] = IF id = es2[n].id THEN n ELSE ids[id]

\* A new entry that nobody has acquired yet.
LEMMA NewKept ==
  ASSUME NEW es, NEW ids, NEW hs, Kept(es, ids, hs),
         NEW n, NEW es2 \in Seq(Entry), NEW ids2 \in [Ids -> Handle \cup {NoHandle}],
         Joined(es, ids, n, es2, ids2)
  PROVE  /\ Kept(es2, ids2, hs)
         /\ LiveIn(es2) = LiveIn(es) \cup {n} /\ n \notin LiveIn(es) /\ n \in Handle
         /\ ClosedIn(Deps(es2), {n}) /\ hs[n] = 0
<1>0. /\ n = Len(es) + 1 /\ n <= MaxHandles
      /\ DOMAIN es2 = DOMAIN es \cup {n}
      /\ \A g \in DOMAIN es : es2[g] = es[g]
      /\ es2[n].occupied /\ es2[n].acquires = 0 /\ es2[n].dependencies = <<>>
      /\ ids[es2[n].id] = NoHandle
      /\ \A id \in Ids : ids2[id] = IF id = es2[n].id THEN n ELSE ids[id]
  BY DEF Joined
<1>1. Typed(es, ids, hs) /\ IndexedIn(es, ids) /\ CountedIn(es, hs) /\ AcyclicIn(Deps(es))
  BY <1>0 DEF Kept
<1>2. DOMAIN es = 1 .. Len(es) /\ Len(es) \in Nat /\ n \notin DOMAIN es /\ n \in Handle
  <2>1. DOMAIN es = 1 .. Len(es) /\ Len(es) \in Nat
    BY <1>0, <1>1, EntryFields
  <2> QED  BY <1>0, <2>1, BoundsAssumption DEF Handle
<1>3. Typed(es2, ids2, hs)
  <2>1. DOMAIN es2 = 1 .. Len(es2) /\ Len(es2) \in Nat
    BY <1>0, LenProperties
  <2>2. Len(es2) = n
    <3>1. 1 .. Len(es2) = 1 .. n /\ n \in Nat
      BY <1>0, <1>2, <2>1
    <3> QED  BY <1>0, <2>1, <3>1
  <2> QED  BY <1>0, <1>1, <2>2 DEF Typed
<1>4. LiveIn(es2) = LiveIn(es) \cup {n} /\ n \notin LiveIn(es) /\ LiveIn(es) \subseteq DOMAIN es
  BY <1>0, <1>2 DEF LiveIn
<1>5. /\ DOMAIN Deps(es) = LiveIn(es) /\ DOMAIN Deps(es2) = LiveIn(es2)
      /\ \A g \in LiveIn(es) : Deps(es)[g] = es[g].dependencies /\ Deps(es)[g] \in Seq(Handle)
      /\ \A g \in LiveIn(es2) : Deps(es2)[g] = es2[g].dependencies
      /\ IsFiniteSet(LiveIn(es)) /\ IsFiniteSet(LiveIn(es2))
  BY <1>0, <1>1, <1>3, EntryFields DEF Deps
<1>6. Grown(Deps(es), n, Deps(es2))
  BY <1>0, <1>4, <1>5 DEF Grown
<1>7. es2[n].id \in Ids /\ \A g \in LiveIn(es) : es2[g].id = es[g].id /\ es[g].id \in Ids
  BY <1>0, <1>1, <1>3, <1>4, EntryFields
<1>8. IndexedIn(es2, ids2)
  <2>1. ASSUME NEW h \in LiveIn(es2) PROVE ids2[es2[h].id] = h
    <3>1. CASE h = n
      BY <1>0, <1>7, <3>1
    <3>2. CASE h \in LiveIn(es)
      <4>1. ids[es[h].id] = h /\ h \in Handle
        BY <1>0, <1>1, <1>4, <3>2, EntryFields DEF IndexedIn
      <4>2. es[h].id # es2[n].id
        BY <1>0, <4>1, NoHandleAssumption, BoundsAssumption DEF Handle
      <4> QED  BY <1>0, <1>7, <3>2, <4>1, <4>2
    <3> QED  BY <1>0, <1>4, <3>1, <3>2
  <2>2. ASSUME NEW id \in Ids, ids2[id] # NoHandle
        PROVE  ids2[id] \in LiveIn(es2) /\ es2[ids2[id]].id = id
    <3>1. CASE id = es2[n].id
      BY <1>0, <1>4, <3>1
    <3>2. CASE id # es2[n].id
      <4>1. ids2[id] = ids[id]
        BY <1>0, <3>2
      <4>2. ids[id] \in LiveIn(es) /\ es[ids[id]].id = id
        BY <1>0, <1>1, <2>2, <4>1 DEF IndexedIn
      <4> QED  BY <1>0, <1>4, <1>7, <4>1, <4>2
    <3> QED  BY <1>0, <3>1, <3>2
  <2> QED  BY <1>0, <2>1, <2>2 DEF IndexedIn
<1>9. \A d : Places(Deps(es2), d) = Places(Deps(es), d)
  BY <1>0, <1>6, PlacesGrown
<1>10. hs[n] = 0 /\ Cardinality(Places(Deps(es), n)) = 0
  <2>1. \A g \in DOMAIN Deps(es) : n \notin ToSet(Deps(es)[g])
    BY <1>0, <1>1, <1>4, <1>5 DEF CountedIn
  <2>2. Cardinality(Places(Deps(es), n)) = 0
    BY <1>0, <1>5, <2>1, PlacesNone
  <2>3. hs[n] \in Nat /\ ~(hs[n] > 0)
    BY <1>0, <1>1, <1>2, <1>4 DEF CountedIn, Typed
  <2> QED  BY <1>0, <2>2, <2>3
<1>11. CountedIn(es2, hs)
  <2>1. ASSUME NEW d \in LiveIn(es2)
        PROVE  es2[d].acquires = hs[d] + Cardinality(Places(Deps(es2), d))
    <3>1. CASE d = n
      BY <1>0, <1>9, <1>10, <3>1
    <3>2. CASE d \in LiveIn(es)
      BY <1>0, <1>1, <1>4, <1>9, <3>2 DEF CountedIn
    <3> QED  BY <1>0, <1>4, <3>1, <3>2
  <2>2. ASSUME NEW g \in LiveIn(es2) PROVE ToSet(es2[g].dependencies) \subseteq LiveIn(es2)
    <3>1. CASE g = n
      BY <1>0, <3>1, EmptySet
    <3>2. CASE g \in LiveIn(es)
      BY <1>0, <1>1, <1>4, <3>2 DEF CountedIn
    <3> QED  BY <1>0, <1>4, <3>1, <3>2
  <2>3. \A h \in Handle : hs[h] > 0 => h \in LiveIn(es2)
    BY <1>0, <1>1, <1>4 DEF CountedIn
  <2> QED  BY <1>0, <2>1, <2>2, <2>3 DEF CountedIn
<1>12. AcyclicIn(Deps(es2))
  BY <1>0, <1>1, <1>6, GrownAcyclic
<1>13. ClosedIn(Deps(es2), {n})
  BY <1>0, <1>4, <1>5, EmptySet DEF ClosedIn
<1> QED  BY <1>0, <1>2, <1>3, <1>4, <1>8, <1>10, <1>11, <1>12, <1>13 DEF Kept

\* es2 is es where h is no entry any more and its dependencies are released.
Freeing(es, ids, h, es2, ids2) ==
    /\ es2 = [g \in DOMAIN es |-> es2[g]]
    /\ ~es2[h].occupied /\ es2[h].acquires = 0
    /\ \A g \in DOMAIN es \ {h} :
        /\ es2[g].occupied = es[g].occupied
        /\ es2[g].id = es[g].id
        /\ es2[g].dependencies = es[g].dependencies
        /\ es2[g].acquires = es[g].acquires - Cardinality(Named(es[h].dependencies, g))
    /\ \A g \in DOMAIN es : es2[g].acquires \in Nat => es2[g] \in Entry
    /\ \A id \in Ids : ids2[id] = IF id = es[h].id THEN NoHandle ELSE ids[id]

\* An entry that nobody has acquired is freed and releases its dependencies.
LEMMA FreeKept ==
  ASSUME NEW es, NEW ids, NEW hs, Kept(es, ids, hs),
         NEW h \in LiveIn(es), es[h].acquires = 0,
         NEW es2, NEW ids2 \in [Ids -> Handle \cup {NoHandle}], Freeing(es, ids, h, es2, ids2)
  PROVE  /\ Kept(es2, ids2, hs)
         /\ LiveIn(es2) = LiveIn(es) \ {h}
         /\ \A g \in LiveIn(es) : Cardinality(Named(es[h].dependencies, g)) <= es[g].acquires
<1>0. /\ es2 = [g \in DOMAIN es |-> es2[g]]
      /\ ~es2[h].occupied /\ es2[h].acquires = 0
      /\ \A g \in DOMAIN es \ {h} :
          /\ es2[g].occupied = es[g].occupied
          /\ es2[g].id = es[g].id
          /\ es2[g].dependencies = es[g].dependencies
          /\ es2[g].acquires = es[g].acquires - Cardinality(Named(es[h].dependencies, g))
      /\ \A g \in DOMAIN es : es2[g].acquires \in Nat => es2[g] \in Entry
      /\ \A id \in Ids : ids2[id] = IF id = es[h].id THEN NoHandle ELSE ids[id]
      /\ DOMAIN es2 = DOMAIN es
  BY DEF Freeing
<1>1. Typed(es, ids, hs) /\ IndexedIn(es, ids) /\ CountedIn(es, hs) /\ AcyclicIn(Deps(es))
  BY <1>0 DEF Kept
<1>2. /\ DOMAIN es = 1 .. Len(es) /\ Len(es) \in Nat
      /\ LiveIn(es) \subseteq DOMAIN es /\ DOMAIN es \subseteq Handle
      /\ DOMAIN Deps(es) = LiveIn(es)
      /\ \A g \in LiveIn(es) : Deps(es)[g] = es[g].dependencies /\ Deps(es)[g] \in Seq(Handle)
      /\ IsFiniteSet(DOMAIN Deps(es))
      /\ \A g \in DOMAIN es : es[g].acquires \in Nat /\ es[g].id \in Ids
  BY <1>0, <1>1, EntryFields
<1>3. LiveIn(es2) = LiveIn(es) \ {h}
  BY <1>0, <1>2 DEF LiveIn
<1>4. /\ DOMAIN Deps(es2) = LiveIn(es2)
      /\ \A g \in LiveIn(es2) : Deps(es2)[g] = es[g].dependencies
  BY <1>0, <1>2, <1>3 DEF Deps
<1>5. Shrunk(Deps(es), h, Deps(es2))
  BY <1>0, <1>2, <1>3, <1>4 DEF Shrunk
<1>6. \A d : /\ Cardinality(Places(Deps(es), d)) =
                   Cardinality(Places(Deps(es2), d)) + Cardinality(Named(es[h].dependencies, d))
            /\ Cardinality(Named(es[h].dependencies, d)) \in Nat
            /\ Cardinality(Places(Deps(es2), d)) \in Nat
  <2>1. SUFFICES ASSUME NEW d
        PROVE  /\ Cardinality(Places(Deps(es), d)) =
                   Cardinality(Places(Deps(es2), d)) + Cardinality(Named(es[h].dependencies, d))
               /\ Cardinality(Named(es[h].dependencies, d)) \in Nat
               /\ Cardinality(Places(Deps(es2), d)) \in Nat
    OBVIOUS
  <2>2. Cardinality(Places(Deps(es), d)) =
                   Cardinality(Places(Deps(es2), d)) + Cardinality(Named(Deps(es)[h], d))
    BY <1>0, <1>2, <1>5, PlacesShrunk, SMTT(30)
  <2>3. Cardinality(Named(Deps(es)[h], d)) \in Nat
    BY <1>0, <1>2, PlacesFinite
  <2>4. Cardinality(Places(Deps(es2), d)) \in Nat
    <3>1. IsFiniteSet(DOMAIN Deps(es2)) /\ \A g \in DOMAIN Deps(es2) : Deps(es2)[g] \in Seq(Handle)
      <4>1. IsFiniteSet(LiveIn(es) \ {h})
        BY <1>0, <1>2, FS_RemoveElement
      <4> QED  BY <1>0, <1>2, <1>3, <1>4, <4>1
    <3> QED  BY <1>0, <3>1, PlacesFinite
  <2> QED  BY <1>0, <1>2, <2>2, <2>3, <2>4
<1>7. \A d \in LiveIn(es) : /\ hs[d] \in Nat
                            /\ es[d].acquires = hs[d] + Cardinality(Places(Deps(es), d))
  BY <1>0, <1>1, <1>2 DEF CountedIn, Typed
<1>8. \A g \in LiveIn(es) : Cardinality(Named(es[h].dependencies, g)) <= es[g].acquires
  <2>1. SUFFICES ASSUME NEW g \in LiveIn(es)
        PROVE  Cardinality(Named(es[h].dependencies, g)) <= es[g].acquires
    OBVIOUS
  <2>2. PICK p, q, r, t : p = hs[g] /\ q = Cardinality(Places(Deps(es2), g)) /\ r = Cardinality(Named(es[h].dependencies, g)) /\ t = es[g].acquires
    OBVIOUS
  <2>3. p \in Nat /\ q \in Nat /\ r \in Nat
    BY <1>0, <1>6, <1>7, <2>2
  <2>4. t = p + (q + r)
    BY <1>0, <1>6, <1>7, <2>2
  <2>5. r <= t
    BY <1>0, <2>3, <2>4
  <2> QED  BY <1>0, <2>2, <2>5
<1>9. hs[h] = 0 /\ Cardinality(Places(Deps(es), h)) = 0
  <2>1. PICK p, q : p = hs[h] /\ q = Cardinality(Places(Deps(es), h))
    OBVIOUS
  <2>2. p \in Nat /\ q \in Nat
    BY <1>0, <1>2, <1>7, <2>1, PlacesFinite
  <2>3. p + q = 0
    BY <1>0, <1>7, <2>1
  <2>4. p = 0 /\ q = 0
    BY <1>0, <2>2, <2>3
  <2> QED  BY <1>0, <2>1, <2>4
<1>10. \A g \in LiveIn(es) : h \notin ToSet(es[g].dependencies)
  BY <1>0, <1>2, <1>9, PlacesNone, SMTT(30)
<1>11. \A g \in DOMAIN es : es2[g].acquires \in Nat
  <2>1. SUFFICES ASSUME NEW g \in DOMAIN es, g # h PROVE es2[g].acquires \in Nat
    BY <1>0, <1>2
  <2>2. es2[g].acquires = es[g].acquires - Cardinality(Named(es[h].dependencies, g))
    BY <1>0, <2>1
  <2>3. Cardinality(Named(es[h].dependencies, g)) <= es[g].acquires
    <3>1. CASE g \in LiveIn(es)
      BY <1>0, <1>8, <3>1
    <3>2. CASE g \notin LiveIn(es)
      <4>1. g \notin ToSet(Deps(es)[h])
        BY <1>0, <1>1, <1>2, <3>2 DEF CountedIn
      <4>2. Cardinality(Named(Deps(es)[h], g)) = 0
        <5>1. \A f \in DOMAIN Deps(es) : Deps(es)[f] \in Seq(Handle)
          BY <1>0, <1>2
        <5>2. \A f \in DOMAIN Deps(es) : Cardinality(Named(Deps(es)[f], g)) = 0 <=> g \notin ToSet(Deps(es)[f])
          BY <1>0, <1>2, <5>1, PlacesNone
        <5> QED  BY <1>0, <1>2, <4>1, <5>2
      <4>3. Cardinality(Named(es[h].dependencies, g)) = 0
        BY <1>0, <1>2, <4>2
      <4>4. es[g].acquires \in Nat
        BY <1>0, <1>2
      <4> QED  BY <1>0, <4>3, <4>4
    <3> QED  BY <1>0, <3>1, <3>2
  <2>4. PICK p, r : p = es[g].acquires /\ r = Cardinality(Named(es[h].dependencies, g))
    OBVIOUS
  <2>5. p \in Nat /\ r \in Nat /\ r <= p
    BY <1>0, <1>2, <1>6, <2>3, <2>4
  <2>6. p - r \in Nat
    BY <1>0, <2>5
  <2> QED  BY <1>0, <2>2, <2>4, <2>6
<1>12. Typed(es2, ids2, hs)
  <2>1. \A g \in 1 .. Len(es) : es2[g] \in Entry
    BY <1>0, <1>2, <1>11
  <2>2. es2 \in [1 .. Len(es) -> Entry]
    BY <1>0, <1>2, <2>1
  <2>3. es2 \in Seq(Entry)
    BY <1>0, <1>2, <2>2, SeqDef
  <2>4. Len(es2) = Len(es)
    BY <1>0, <1>2, <2>2, <2>3, LenProperties
  <2> QED  BY <1>0, <1>1, <2>3, <2>4 DEF Typed
<1>13. IndexedIn(es2, ids2)
  <2>1. ASSUME NEW g \in LiveIn(es2) PROVE ids2[es2[g].id] = g
    <3>1. g \in LiveIn(es) /\ g # h /\ es2[g].id = es[g].id /\ es[g].id \in Ids
      BY <1>0, <1>2, <1>3
    <3>2. ids[es[g].id] = g /\ ids[es[h].id] = h
      BY <1>0, <1>1, <3>1 DEF IndexedIn
    <3> QED  BY <1>0, <3>1, <3>2
  <2>2. ASSUME NEW id \in Ids, ids2[id] # NoHandle
        PROVE  ids2[id] \in LiveIn(es2) /\ es2[ids2[id]].id = id
    <3>1. id # es[h].id /\ ids2[id] = ids[id]
      BY <1>0, <2>2
    <3>2. ids[id] \in LiveIn(es) /\ es[ids[id]].id = id
      BY <1>0, <1>1, <2>2, <3>1 DEF IndexedIn
    <3>3. ids[id] # h
      BY <1>0, <3>1, <3>2
    <3> QED  BY <1>0, <1>2, <1>3, <3>1, <3>2, <3>3
  <2> QED  BY <1>0, <2>1, <2>2 DEF IndexedIn
<1>14. CountedIn(es2, hs)
  <2>1. ASSUME NEW d \in LiveIn(es2)
        PROVE  es2[d].acquires = hs[d] + Cardinality(Places(Deps(es2), d))
    <3>1. d \in LiveIn(es) /\ d # h /\ d \in DOMAIN es
      BY <1>0, <1>2, <1>3
    <3>2. PICK p, q, r, t : p = hs[d] /\ q = Cardinality(Places(Deps(es2), d)) /\ r = Cardinality(Named(es[h].dependencies, d)) /\ t = es[d].acquires
      OBVIOUS
    <3>3. p \in Nat /\ q \in Nat /\ r \in Nat /\ t = p + (q + r)
      BY <1>0, <1>6, <1>7, <3>1, <3>2
    <3>4. t - r = p + q
      BY <1>0, <3>3
    <3>5. es2[d].acquires = t - r
      BY <1>0, <3>1, <3>2
    <3> QED  BY <1>0, <3>2, <3>4, <3>5
  <2>2. \A g \in Handle : hs[g] > 0 => g \in LiveIn(es2)
    <3>1. ~(hs[h] > 0)
      BY <1>0, <1>9
    <3> QED  BY <1>0, <1>1, <1>3, <3>1 DEF CountedIn
  <2>3. ASSUME NEW g \in LiveIn(es2) PROVE ToSet(es2[g].dependencies) \subseteq LiveIn(es2)
    <3>1. g \in LiveIn(es) /\ g \in DOMAIN es \ {h} /\ es2[g].dependencies = es[g].dependencies
      BY <1>0, <1>2, <1>3
    <3>2. ToSet(es[g].dependencies) \subseteq LiveIn(es)
      BY <1>0, <1>1, <3>1 DEF CountedIn
    <3> QED  BY <1>0, <1>3, <1>10, <3>1, <3>2
  <2> QED  BY <1>0, <2>1, <2>2, <2>3 DEF CountedIn
<1>15. AcyclicIn(Deps(es2))
  BY <1>0, <1>1, <1>5, ShrunkAcyclic
<1> QED  BY <1>0, <1>3, <1>8, <1>12, <1>13, <1>14, <1>15 DEF Kept

-----------------------------------------------------------------------------
(* What a call does to the entries and the queues.                         *)

\* W are the loads under way: their entries wait for them.  Every entry that
\* nobody uses, or that is not loaded yet, is where it will be seen to.
Minded(es, loads, frees, drained, put, W) ==
    /\ \A h \in W : h \in LiveIn(es) /\ es[h].loading
    /\ \A h \in LiveIn(es) :
         /\ es[h].acquires = 0 => h \in frees \cup drained \cup put
         /\ es[h].state = "Pending" => h \in loads \/ es[h].loading
         /\ es[h].state = "Pending" => es[h].dependencies = <<>>
         /\ es[h].loading => h \in W /\ es[h].state = "Pending"
         /\ h \in put /\ es[h].acquires = 0 => es[h].loading \/ h \in frees \cup drained

Updated(es, h, e) == [es EXCEPT ![h] = e]

\* What the calls do to the entries and the holds.
MoreAcquired(es, h, es2) == es2 = [es EXCEPT ![h].acquires = @ + 1]
LessAcquired(es, h, es2) == es2 = [es EXCEPT ![h].acquires = @ - 1]
MoreHeld(hs, h, hs2) == hs2 = [hs EXCEPT ![h] = @ + 1]
LessHeld(hs, h, hs2) == hs2 = [hs EXCEPT ![h] = @ - 1]
MoreNamed(es, h, x, es2) == es2 = [es EXCEPT ![x].acquires = @ + 1, ![h].dependencies = Append(@, x)]

LEMMA OneUpdated ==
  ASSUME NEW es \in Seq(Entry), NEW h \in DOMAIN es, NEW e \in Entry, NEW es2,
         es2 = Updated(es, h, e)
  PROVE  /\ es2 \in Seq(Entry) /\ DOMAIN es2 = DOMAIN es /\ es2[h] = e
         /\ \A g \in DOMAIN es : g # h => es2[g] = es[g]
<1>1. es \in [1 .. Len(es) -> Entry] /\ Len(es) \in Nat /\ DOMAIN es = 1 .. Len(es)
  BY LenProperties, ElementOfSeq
<1>2. es2 \in [1 .. Len(es) -> Entry]
  BY <1>1 DEF Updated
<1> QED  BY <1>1, <1>2, SeqDef DEF Updated

LEMMA EntryUpdates ==
  ASSUME NEW e \in Entry
  PROVE  /\ \A n \in Nat : [e EXCEPT !.acquires = n] \in Entry
         /\ \A q \in Seq(Handle) : [e EXCEPT !.dependencies = q] \in Entry
         /\ \A b \in BOOLEAN : [e EXCEPT !.loading = b] \in Entry
         /\ \A b \in BOOLEAN, s \in ResourceStates : [e EXCEPT !.loading = b, !.state = s] \in Entry
         /\ \A b \in BOOLEAN, s \in ResourceStates : [e EXCEPT !.state = s, !.error = b] \in Entry
         /\ \A b \in BOOLEAN : [e EXCEPT !.error = b] \in Entry
         /\ \A b \in BOOLEAN : [e EXCEPT !.error = b, !.payload = "Fresh"] \in Entry
         /\ [e EXCEPT !.payload = "Taken"] \in Entry
BY DEF Entry

\* One more acquire of a live entry, held by a client.
LEMMA ShareKept ==
  ASSUME NEW es, NEW ids, NEW hs, Kept(es, ids, hs), NEW h \in LiveIn(es),
         NEW es2, MoreAcquired(es, h, es2), NEW hs2, MoreHeld(hs, h, hs2),
         NEW loads, NEW frees, NEW drained, NEW put, NEW W, Minded(es, loads, frees, drained, put, W)
  PROVE  Kept(es2, ids, hs2) /\ Minded(es2, loads, frees, drained, put, W)
<1>1. Typed(es, ids, hs) /\ CountedIn(es, hs)
  BY DEF Kept
<1>2. /\ h \in DOMAIN es /\ es \in Seq(Entry) /\ es[h] \in Entry /\ es[h].acquires \in Nat
      /\ DOMAIN es \subseteq Handle /\ LiveIn(es) \subseteq DOMAIN es /\ hs \in [Handle -> Nat]
  BY <1>1, EntryFields DEF Typed
<1> DEFINE e == [es[h] EXCEPT !.acquires = es[h].acquires + 1]
<1>3. e \in Entry
  <2>1. es[h] \in Entry /\ es[h].acquires + 1 \in Nat
    BY <1>2
  <2> QED  BY <2>1, EntryUpdates, Zenon
<1>4. es2 = Updated(es, h, e)
  BY <1>2 DEF Updated, MoreAcquired
<1>5. /\ e.acquires = es[h].acquires + 1 /\ e.occupied = es[h].occupied /\ e.id = es[h].id
      /\ e.dependencies = es[h].dependencies /\ e.state = es[h].state /\ e.loading = es[h].loading
  BY <1>2 DEF Entry
<1> HIDE DEF e
<1>6. es2 \in Seq(Entry) /\ DOMAIN es2 = DOMAIN es /\ es2[h] = e
      /\ \A g \in DOMAIN es : g # h => es2[g] = es[g]
  BY <1>2, <1>3, <1>4, OneUpdated
<1>7. hs2 \in [Handle -> Nat] /\ hs2[h] = hs[h] + 1 /\ \A g \in Handle : g # h => hs2[g] = hs[g]
  BY <1>2 DEF MoreHeld
<1>8. Kept(es2, ids, hs2)
  <2>1. SameOutline(es, es2)
    BY <1>5, <1>6 DEF SameOutline
  <2>2. \A g \in LiveIn(es) : es2[g].acquires + hs[g] = es[g].acquires + hs2[g]
    <3>1. es2[h].acquires + hs[h] = es[h].acquires + hs2[h]
      <4>1. PICK p, q : p = hs[h] /\ q = es[h].acquires
        OBVIOUS
      <4>2. p \in Nat /\ q \in Nat
        BY <1>2, <4>1
      <4>3. (q + 1) + p = q + (p + 1)
        BY <4>2
      <4> QED  BY <1>5, <1>6, <1>7, <4>1, <4>3
    <3> QED  BY <1>2, <1>6, <1>7, <3>1
  <2>3. \A g \in Handle : hs2[g] > 0 => g \in LiveIn(es)
    BY <1>1, <1>7 DEF CountedIn
  <2>4. HoldsMoved(es, es2, hs, hs2)
    BY <2>2, <2>3 DEF HoldsMoved
  <2> QED  BY <1>6, <1>7, <2>1, <2>4, HoldsKept
<1>9. Minded(es2, loads, frees, drained, put, W)
  <2>1. LiveIn(es2) = LiveIn(es)
    BY <1>5, <1>6 DEF LiveIn
  <2>2. es2[h].acquires # 0
    <3>1. \A n \in Nat : n + 1 # 0
      OBVIOUS
    <3> QED  BY <1>2, <1>5, <1>6, <3>1
  <2>3. \A g \in LiveIn(es) : /\ es2[g].acquires = 0 => es[g].acquires = 0
                              /\ es2[g].state = es[g].state
                              /\ es2[g].loading = es[g].loading
                              /\ es2[g].dependencies = es[g].dependencies
    BY <1>2, <1>5, <1>6, <2>2
  <2> QED  BY <2>1, <2>3 DEF Minded
<1> QED  BY <1>8, <1>9

\* One acquire less, by a client.
LEMMA ReleaseKept ==
  ASSUME NEW es, NEW ids, NEW hs, Kept(es, ids, hs), NEW h \in LiveIn(es), hs[h] > 0,
         NEW es2, LessAcquired(es, h, es2), NEW hs2, LessHeld(hs, h, hs2),
         NEW loads, NEW frees, NEW drained, NEW put, NEW W, Minded(es, loads, frees, drained, put, W),
         NEW frees2, frees2 = frees \cup ({h} \cap {g \in LiveIn(es) : es[g].acquires = 1})
  PROVE  Kept(es2, ids, hs2) /\ Minded(es2, loads, frees2, drained, put, W)
<1>1. Typed(es, ids, hs) /\ CountedIn(es, hs)
  BY DEF Kept
<1>2. /\ h \in DOMAIN es /\ es \in Seq(Entry) /\ es[h] \in Entry /\ es[h].acquires \in Nat
      /\ DOMAIN es \subseteq Handle /\ LiveIn(es) \subseteq DOMAIN es /\ hs \in [Handle -> Nat]
  BY <1>1, EntryFields DEF Typed
<1> DEFINE e == [es[h] EXCEPT !.acquires = es[h].acquires - 1]
<1>3. hs[h] \in Nat \ {0} /\ es[h].acquires \in Nat \ {0}
  <2>1. PICK p, c, a : p = hs[h] /\ c = Cardinality(Places(Deps(es), h)) /\ a = es[h].acquires
    OBVIOUS
  <2>2. p \in Nat /\ p > 0
    BY <1>2, <2>1
  <2>3. c \in Nat
    BY <1>1, <2>1, EntryFields, PlacesFinite
  <2>4. a = p + c
    BY <1>1, <2>1 DEF CountedIn
  <2>5. p # 0 /\ a # 0
    BY <2>2, <2>3, <2>4
  <2> QED  BY <1>2, <2>1, <2>2, <2>5
<1>4. e \in Entry
  <2>1. \A n \in Nat \ {0} : n - 1 \in Nat
    OBVIOUS
  <2>2. es[h] \in Entry /\ es[h].acquires - 1 \in Nat
    BY <1>2, <1>3, <2>1
  <2> QED  BY <2>2, EntryUpdates, Zenon
<1>5. es2 = Updated(es, h, e)
  BY <1>2 DEF Updated, LessAcquired
<1>6. /\ e.acquires = es[h].acquires - 1 /\ e.occupied = es[h].occupied /\ e.id = es[h].id
      /\ e.dependencies = es[h].dependencies /\ e.state = es[h].state /\ e.loading = es[h].loading
  BY <1>2 DEF Entry
<1> HIDE DEF e
<1>7. es2 \in Seq(Entry) /\ DOMAIN es2 = DOMAIN es /\ es2[h] = e
      /\ \A g \in DOMAIN es : g # h => es2[g] = es[g]
  BY <1>2, <1>4, <1>5, OneUpdated
<1>8. hs2 \in [Handle -> Nat] /\ hs2[h] = hs[h] - 1 /\ \A g \in Handle : g # h => hs2[g] = hs[g]
  <2>1. \A n \in Nat \ {0} : n - 1 \in Nat
    OBVIOUS
  <2>2. hs[h] - 1 \in Nat /\ h \in Handle
    BY <1>2, <1>3, <2>1
  <2> QED  BY <1>2, <2>2 DEF LessHeld
<1>9. Kept(es2, ids, hs2)
  <2>1. SameOutline(es, es2)
    BY <1>6, <1>7 DEF SameOutline
  <2>2. \A g \in LiveIn(es) : es2[g].acquires + hs[g] = es[g].acquires + hs2[g]
    <3>1. es2[h].acquires + hs[h] = es[h].acquires + hs2[h]
      <4>1. PICK p, q : p = hs[h] /\ q = es[h].acquires
        OBVIOUS
      <4>2. p \in Nat /\ q \in Nat
        BY <1>3, <4>1
      <4>3. (q - 1) + p = q + (p - 1)
        BY <4>2
      <4> QED  BY <1>6, <1>7, <1>8, <4>1, <4>3
    <3> QED  BY <1>2, <1>7, <1>8, <3>1
  <2>3. \A g \in Handle : hs2[g] > 0 => g \in LiveIn(es)
    BY <1>1, <1>8 DEF CountedIn
  <2>4. HoldsMoved(es, es2, hs, hs2)
    BY <2>2, <2>3 DEF HoldsMoved
  <2> QED  BY <1>7, <1>8, <2>1, <2>4, HoldsKept
<1>10. Minded(es2, loads, frees2, drained, put, W)
  <2>1. LiveIn(es2) = LiveIn(es)
    BY <1>6, <1>7 DEF LiveIn
  <2>2. es2[h].acquires = 0 => h \in frees2
    <3>1. \A n \in Nat : n - 1 = 0 => n = 1
      OBVIOUS
    <3>2. es2[h].acquires = 0 => es[h].acquires = 1
      BY <1>2, <1>6, <1>7, <3>1
    <3> QED  BY <3>2
  <2>3. \A g \in LiveIn(es) : /\ g # h => es2[g].acquires = es[g].acquires
                              /\ es2[g].state = es[g].state
                              /\ es2[g].loading = es[g].loading
                              /\ es2[g].dependencies = es[g].dependencies
    BY <1>2, <1>6, <1>7, <2>2
  <2>4. frees \subseteq frees2
    OBVIOUS
  <2>5. ASSUME NEW g \in LiveIn(es)
        PROVE  /\ es2[g].acquires = 0 => g \in frees2 \cup drained \cup put
               /\ g \in put /\ es2[g].acquires = 0 => es2[g].loading \/ g \in frees2 \cup drained
    <3>1. CASE g = h
      BY <2>2, <3>1
    <3>2. CASE g # h
      <4>1. /\ es[g].acquires = 0 => g \in frees \cup drained \cup put
            /\ g \in put /\ es[g].acquires = 0 => es[g].loading \/ g \in frees \cup drained
        BY DEF Minded
      <4> QED  BY <2>3, <2>4, <3>2, <4>1
    <3> QED  BY <3>1, <3>2
  <2>6. ASSUME NEW g \in LiveIn(es)
        PROVE  /\ es2[g].state = "Pending" => g \in loads \/ es2[g].loading
               /\ es2[g].state = "Pending" => es2[g].dependencies = <<>>
               /\ es2[g].loading => g \in W /\ es2[g].state = "Pending"
    BY <2>3 DEF Minded
  <2>7. \A g \in W : g \in LiveIn(es) /\ es2[g].loading
    BY <2>3 DEF Minded
  <2> QED  BY <2>1, <2>5, <2>6, <2>7 DEF Minded
<1> QED  BY <1>9, <1>10

\* What is used stays used, and what is not loaded stays as it is.
MoreUsed(es, es2) ==
    \A g \in LiveIn(es) :
        /\ es2[g].acquires = 0 => es[g].acquires = 0
        /\ es2[g].state = es[g].state
        /\ es2[g].loading = es[g].loading
        /\ es[g].state = "Pending" => es2[g].dependencies = es[g].dependencies

LEMMA MoreMinded ==
  ASSUME NEW es, NEW loads, NEW frees, NEW drained, NEW put, NEW W,
         Minded(es, loads, frees, drained, put, W),
         NEW es2, LiveIn(es2) = LiveIn(es), MoreUsed(es, es2)
  PROVE  Minded(es2, loads, frees, drained, put, W)
<1>1. ASSUME NEW g \in LiveIn(es)
      PROVE  /\ es2[g].acquires = 0 => g \in frees \cup drained \cup put
             /\ es2[g].state = "Pending" => g \in loads \/ es2[g].loading
             /\ es2[g].state = "Pending" => es2[g].dependencies = <<>>
             /\ es2[g].loading => g \in W /\ es2[g].state = "Pending"
             /\ g \in put /\ es2[g].acquires = 0 => es2[g].loading \/ g \in frees \cup drained
  <2>1. /\ es[g].acquires = 0 => g \in frees \cup drained \cup put
        /\ es[g].state = "Pending" => g \in loads \/ es[g].loading
        /\ es[g].state = "Pending" => es[g].dependencies = <<>>
        /\ es[g].loading => g \in W /\ es[g].state = "Pending"
        /\ g \in put /\ es[g].acquires = 0 => es[g].loading \/ g \in frees \cup drained
    BY DEF Minded
  <2>2. /\ es2[g].acquires = 0 => es[g].acquires = 0
        /\ es2[g].state = es[g].state
        /\ es2[g].loading = es[g].loading
        /\ es[g].state = "Pending" => es2[g].dependencies = es[g].dependencies
    BY DEF MoreUsed
  <2> QED  BY <2>1, <2>2
<1>2. \A g \in W : g \in LiveIn(es) /\ es2[g].loading
  BY DEF Minded, MoreUsed
<1> QED  BY <1>1, <1>2, Zenon DEF Minded

\* A live entry becomes a dependency of another.
LEMMA LinkedKept ==
  ASSUME NEW es, NEW ids, NEW hs, Kept(es, ids, hs), NEW h \in LiveIn(es), NEW x \in LiveIn(es),
         NEW T, ClosedIn(Deps(es), T), x \in T, h \notin T,
         NEW es2, MoreNamed(es, h, x, es2),
         NEW loads, NEW frees, NEW drained, NEW put, NEW W, Minded(es, loads, frees, drained, put, W),
         es[h].state # "Pending"
  PROVE  /\ Kept(es2, ids, hs) /\ Minded(es2, loads, frees, drained, put, W)
         /\ h \in LiveIn(es2) /\ es2[h].state = es[h].state
<1>1. Typed(es, ids, hs)
  BY DEF Kept
<1>2. /\ h \in DOMAIN es /\ x \in DOMAIN es /\ es \in Seq(Entry) /\ h # x /\ x \in Handle
      /\ LiveIn(es) \subseteq DOMAIN es
  BY <1>1, EntryFields DEF Typed
<1>3. \A g \in DOMAIN es : /\ es[g] \in Entry /\ es[g].acquires \in Nat
                          /\ es[g].dependencies \in Seq(Handle)
  BY <1>1, EntryFields
<1> DEFINE e == [es[x] EXCEPT !.acquires = es[x].acquires + 1]
           f == [es[h] EXCEPT !.dependencies = Append(es[h].dependencies, x)]
           mid == Updated(es, x, e)
<1>4. e \in Entry
  <2>1. es[x] \in Entry /\ es[x].acquires + 1 \in Nat
    BY <1>2, <1>3
  <2> QED  BY <2>1, EntryUpdates, Zenon
<1>5. f \in Entry
  <2>1. es[h] \in Entry /\ Append(es[h].dependencies, x) \in Seq(Handle)
    BY <1>2, <1>3, AppendProperties
  <2> QED  BY <2>1, EntryUpdates, Zenon
<1>6. es2 = Updated(mid, h, f)
  BY <1>2 DEF Updated, MoreNamed
<1>7. /\ e.acquires = es[x].acquires + 1 /\ e.occupied = es[x].occupied /\ e.id = es[x].id
      /\ e.dependencies = es[x].dependencies /\ e.state = es[x].state /\ e.loading = es[x].loading
  BY <1>2, <1>3 DEF Entry
<1>8. /\ f.acquires = es[h].acquires /\ f.occupied = es[h].occupied /\ f.id = es[h].id
      /\ f.dependencies = Append(es[h].dependencies, x) /\ f.state = es[h].state
      /\ f.loading = es[h].loading
  BY <1>2, <1>3 DEF Entry
<1> HIDE DEF e, f
<1>9. mid \in Seq(Entry) /\ DOMAIN mid = DOMAIN es /\ mid[x] = e
      /\ \A g \in DOMAIN es : g # x => mid[g] = es[g]
  BY <1>2, <1>4, OneUpdated
<1> HIDE DEF mid
<1>10. es2 \in Seq(Entry) /\ DOMAIN es2 = DOMAIN mid /\ es2[h] = f
       /\ \A g \in DOMAIN mid : g # h => es2[g] = mid[g]
  <2>1. mid \in Seq(Entry) /\ h \in DOMAIN mid /\ f \in Entry
    BY <1>2, <1>5, <1>9
  <2> QED  BY <1>6, <2>1, OneUpdated
<1>11. /\ DOMAIN es2 = DOMAIN es /\ es2[h] = f /\ es2[x] = e
       /\ \A g \in DOMAIN es : g # h /\ g # x => es2[g] = es[g]
  BY <1>2, <1>9, <1>10
<1>12. OneLinked(es, h, x, es2)
  BY <1>2, <1>7, <1>8, <1>11 DEF OneLinked
<1>13. Kept(es2, ids, hs)
  BY <1>10, <1>12, LinkKept
<1>14. LiveIn(es2) = LiveIn(es)
  BY <1>12 DEF LiveIn, OneLinked
<1>15. MoreUsed(es, es2)
  <2>1. \A n \in Nat : n + 1 # 0
    OBVIOUS
  <2>2. es2[x].acquires # 0
    BY <1>2, <1>3, <1>7, <1>11, <2>1
  <2> QED  BY <1>2, <1>7, <1>8, <1>11, <2>2 DEF MoreUsed
<1>16. Minded(es2, loads, frees, drained, put, W)
  BY <1>14, <1>15, MoreMinded
<1>17. h \in LiveIn(es2) /\ es2[h].state = es[h].state
  BY <1>8, <1>11, <1>14
<1> QED  BY <1>13, <1>16, <1>17

LEMMA OneAppended ==
  ASSUME NEW es \in Seq(Entry), NEW e \in Entry, NEW es2, es2 = Append(es, e)
  PROVE  /\ es2 \in Seq(Entry) /\ DOMAIN es2 = DOMAIN es \cup {Len(es) + 1}
         /\ es2[Len(es) + 1] = e /\ Len(es) + 1 \notin DOMAIN es
         /\ \A g \in DOMAIN es : es2[g] = es[g]
<1>1. es2 \in Seq(Entry)
  BY AppendProperties
<1>2. /\ DOMAIN es2 = DOMAIN es \cup {Len(es) + 1} /\ Len(es) + 1 \notin DOMAIN es
      /\ es2[Len(es) + 1] = e /\ \A g \in DOMAIN es : es2[g] = es[g]
  BY AppendedSet
<1> QED  BY <1>1, <1>2

\* The entry of a new handle, acquired n times.
Made(id, there, n) ==
    [Blank(id) EXCEPT !.occupied = TRUE, !.acquires = n,
                      !.state = IF there = "Present" THEN "Pending" ELSE there]

Obtainable == {"Present", "AbsentForRole"}

LEMMA MadeEntry ==
  ASSUME NEW id \in Ids, NEW there \in Obtainable, NEW n \in Nat
  PROVE  /\ Made(id, there, n) \in Entry /\ Made(id, there, n).occupied
         /\ Made(id, there, n).id = id /\ Made(id, there, n).acquires = n
         /\ Made(id, there, n).dependencies = <<>> /\ ~Made(id, there, n).loading
         /\ Made(id, there, n).state = "Pending" <=> there = "Present"
<1>1. <<>> \in Seq(Handle)
  BY EmptySeq
<1>2. (IF there = "Present" THEN "Pending" ELSE there) \in ResourceStates
  BY DEF Obtainable, ResourceStates
<1> QED  BY <1>1, <1>2 DEF Made, Blank, Entry, Obtainable

\* What a request for a new id makes of the entries and the index.
Appended(es, id, there, n, es2) == es2 = Append(es, Made(id, there, n))
Entered(es, ids, id, ids2) == ids2 = [ids EXCEPT ![id] = Len(es) + 1]

\* The entries in between, with the new one, e, that nobody has acquired.
Between(es, hs, n, e, es2, ids2) ==
    /\ Kept(es2, ids2, hs) /\ DOMAIN es2 = DOMAIN es \cup {n}
    /\ LiveIn(es2) = LiveIn(es) \cup {n} /\ n \notin DOMAIN es
    /\ ClosedIn(Deps(es2), {n}) /\ hs[n] = 0
    /\ es2[n] = e
    /\ \A g \in DOMAIN es : es2[g] = es[g]

LEMMA JoinedKept ==
  ASSUME NEW es, NEW ids, NEW hs, Kept(es, ids, hs), Len(es) + 1 \in Handle,
         NEW id \in Ids, ids[id] = NoHandle, NEW there \in Obtainable,
         NEW es2, Appended(es, id, there, 0, es2), NEW ids2, Entered(es, ids, id, ids2)
  PROVE  Between(es, hs, Len(es) + 1, Made(id, there, 0), es2, ids2)
<1> DEFINE n == Len(es) + 1
           e == Made(id, there, 0)
<1>1. Typed(es, ids, hs)
  BY DEF Kept
<1>2. es \in Seq(Entry) /\ ids \in [Ids -> Handle \cup {NoHandle}] /\ n \in Handle /\ Len(es) \in Nat
  BY <1>1, EntryFields DEF Typed
<1>3. e \in Entry /\ e.occupied /\ e.acquires = 0 /\ e.dependencies = <<>> /\ e.id = id
  BY MadeEntry
<1>4. es2 = Append(es, e)
  BY DEF Appended
<1> HIDE DEF e
<1>5. /\ es2 \in Seq(Entry) /\ DOMAIN es2 = DOMAIN es \cup {n}
      /\ es2[n] = e /\ n \notin DOMAIN es
      /\ \A g \in DOMAIN es : es2[g] = es[g]
  BY <1>2, <1>3, <1>4, OneAppended
<1>6. ids2 \in [Ids -> Handle \cup {NoHandle}] /\ \A i \in Ids : ids2[i] = IF i = id THEN n ELSE ids[i]
  BY <1>2 DEF Entered
<1>7. n <= MaxHandles
  BY <1>2, BoundsAssumption DEF Handle
<1> HIDE DEF n
<1>8. Joined(es, ids, n, es2, ids2)
  BY <1>3, <1>5, <1>6, <1>7 DEF Joined, n
<1>9. Kept(es2, ids2, hs) /\ LiveIn(es2) = LiveIn(es) \cup {n} /\ ClosedIn(Deps(es2), {n}) /\ hs[n] = 0
  <2>1. es2 \in Seq(Entry)
    BY <1>5
  <2>2. ids2 \in [Ids -> Handle \cup {NoHandle}]
    BY <1>6
  <2>3. Kept(es, ids, hs)
    OBVIOUS
  <2> QED  BY <1>8, <2>1, <2>2, <2>3, NewKept, ZenonT(30)
<1> QED  BY <1>5, <1>9 DEF n, e, Between

\* What becomes of an entry that is queued for its load, or needs none.
LEMMA NewMinded ==
  ASSUME NEW es, NEW loads, NEW frees, NEW drained, NEW put, NEW W,
         Minded(es, loads, frees, drained, put, W),
         NEW n, NEW es2, LiveIn(es2) = LiveIn(es) \cup {n}, n \notin LiveIn(es), MoreUsed(es, es2),
         NEW id \in Ids, NEW there \in Obtainable, es2[n] = Made(id, there, 1),
         NEW loads2, loads2 = IF there = "Present" THEN loads \cup {n} ELSE loads
  PROVE  Minded(es2, loads2, frees, drained, put, W)
<1>1. /\ es2[n].acquires = 1 /\ es2[n].dependencies = <<>> /\ ~es2[n].loading
      /\ es2[n].state = "Pending" <=> there = "Present"
  BY MadeEntry
<1>2. ASSUME NEW g \in LiveIn(es)
      PROVE  /\ es2[g].acquires = 0 => g \in frees \cup drained \cup put
             /\ es2[g].state = "Pending" => g \in loads \/ es2[g].loading
             /\ es2[g].state = "Pending" => es2[g].dependencies = <<>>
             /\ es2[g].loading => g \in W /\ es2[g].state = "Pending"
             /\ g \in put /\ es2[g].acquires = 0 => es2[g].loading \/ g \in frees \cup drained
  <2>1. /\ es[g].acquires = 0 => g \in frees \cup drained \cup put
        /\ es[g].state = "Pending" => g \in loads \/ es[g].loading
        /\ es[g].state = "Pending" => es[g].dependencies = <<>>
        /\ es[g].loading => g \in W /\ es[g].state = "Pending"
        /\ g \in put /\ es[g].acquires = 0 => es[g].loading \/ g \in frees \cup drained
    BY DEF Minded
  <2>2. /\ es2[g].acquires = 0 => es[g].acquires = 0
        /\ es2[g].state = es[g].state
        /\ es2[g].loading = es[g].loading
        /\ es[g].state = "Pending" => es2[g].dependencies = es[g].dependencies
    BY DEF MoreUsed
  <2> QED  BY <2>1, <2>2
<1>3. \A g \in W : g \in LiveIn(es) /\ es2[g].loading
  BY DEF Minded, MoreUsed
<1>4. loads \subseteq loads2 /\ (there = "Present" => n \in loads2)
  OBVIOUS
<1>5. ASSUME NEW g \in LiveIn(es2)
      PROVE  /\ es2[g].acquires = 0 => g \in frees \cup drained \cup put
             /\ es2[g].state = "Pending" => g \in loads2 \/ es2[g].loading
             /\ es2[g].state = "Pending" => es2[g].dependencies = <<>>
             /\ es2[g].loading => g \in W /\ es2[g].state = "Pending"
             /\ g \in put /\ es2[g].acquires = 0 => es2[g].loading \/ g \in frees \cup drained
  <2>1. CASE g = n
    BY <1>1, <1>4, <2>1
  <2>2. CASE g \in LiveIn(es)
    BY <1>2, <1>4, <2>2
  <2> QED  BY <2>1, <2>2
<1> QED  BY <1>3, <1>5 DEF Minded

\* A new entry, of a client.
MadeHeld(es, id, there, es2) == es2 = Append(es, Made(id, there, 1))
NewHeld(es, hs, hs2) == hs2 = [hs EXCEPT ![Len(es) + 1] = @ + 1]

\* A client's request for an id the cache has no entry of.
LEMMA NewRequestKept ==
  ASSUME NEW es, NEW ids, NEW hs, Kept(es, ids, hs), Len(es) + 1 \in Handle,
         NEW id \in Ids, ids[id] = NoHandle, NEW there \in Obtainable,
         NEW es2, MadeHeld(es, id, there, es2), NEW ids2, Entered(es, ids, id, ids2),
         NEW hs2, NewHeld(es, hs, hs2),
         NEW loads, NEW frees, NEW drained, NEW put, NEW W, Minded(es, loads, frees, drained, put, W),
         NEW loads2, loads2 = IF there = "Present" THEN loads \cup {Len(es) + 1} ELSE loads
  PROVE  Kept(es2, ids2, hs2) /\ Minded(es2, loads2, frees, drained, put, W)
<1> DEFINE n == Len(es) + 1
           e == Made(id, there, 1)
           e0 == Made(id, there, 0)
<1>1. PICK mid : Appended(es, id, there, 0, mid)
  BY DEF Appended
<1>2. /\ Kept(mid, ids2, hs) /\ DOMAIN mid = DOMAIN es \cup {n}
      /\ LiveIn(mid) = LiveIn(es) \cup {n} /\ n \notin DOMAIN es /\ hs[n] = 0
      /\ mid[n] = e0 /\ \A g \in DOMAIN es : mid[g] = es[g]
  <2>1. Between(es, hs, n, e0, mid, ids2)
    BY <1>1, JoinedKept
  <2> QED  BY <2>1 DEF Between
<1>3. Typed(es, ids, hs) /\ Typed(mid, ids2, hs) /\ CountedIn(mid, hs)
  BY <1>2 DEF Kept
<1>4. es \in Seq(Entry) /\ hs \in [Handle -> Nat] /\ LiveIn(es) \subseteq DOMAIN es
      /\ \A g \in LiveIn(es) : es[g].acquires \in Nat
  BY <1>3, EntryFields DEF Typed
<1>5. /\ e \in Entry /\ e.occupied /\ e.id = id /\ e.dependencies = <<>> /\ e.acquires = 1
      /\ e0.occupied /\ e0.id = id /\ e0.dependencies = <<>> /\ e0.acquires = 0
  BY MadeEntry
<1>0. e.occupied = e0.occupied
  BY DEF Made, Blank
<1> HIDE DEF e0
<1>6. es2 = Append(es, e)
  BY DEF MadeHeld
<1>7. es2[n] = e
  BY <1>4, <1>5, <1>6, OneAppended
<1> HIDE DEF e
<1>8. /\ es2 \in Seq(Entry) /\ DOMAIN es2 = DOMAIN es \cup {n}
      /\ \A g \in DOMAIN es : es2[g] = es[g]
  BY <1>4, <1>5, <1>6, OneAppended
<1>9. hs2 \in [Handle -> Nat] /\ hs2[n] = hs[n] + 1 /\ \A g \in Handle : g # n => hs2[g] = hs[g]
  BY <1>4 DEF NewHeld
<1> HIDE DEF n
<1>10. Kept(es2, ids2, hs2)
  <2>1. SameOutline(mid, es2)
    BY <1>0, <1>2, <1>5, <1>7, <1>8 DEF SameOutline
  <2>2. es2[n].acquires + hs[n] = mid[n].acquires + hs2[n]
    <3>1. es2[n].acquires = 1 /\ mid[n].acquires = 0 /\ hs[n] = 0 /\ hs2[n] = 0 + 1
      BY <1>2, <1>5, <1>7, <1>9
    <3> QED  BY <3>1
  <2>3. \A g \in LiveIn(es) : es2[g].acquires + hs[g] = mid[g].acquires + hs2[g]
    <3>1. \A g \in LiveIn(es) : es2[g] = es[g] /\ mid[g] = es[g] /\ g # n
      BY <1>2, <1>4, <1>8
    <3>2. \A g \in LiveIn(es) : hs2[g] = hs[g]
      BY <1>3, <1>4, <1>9, <3>1, EntryFields
    <3> QED  BY <3>1, <3>2
  <2>4. \A g \in Handle : hs2[g] > 0 => g \in LiveIn(mid)
    BY <1>2, <1>3, <1>9 DEF CountedIn
  <2>5. HoldsMoved(mid, es2, hs, hs2)
    BY <1>2, <2>2, <2>3, <2>4 DEF HoldsMoved
  <2>6. es2 \in Seq(Entry) /\ hs2 \in [Handle -> Nat] /\ Kept(mid, ids2, hs)
    BY <1>2, <1>8, <1>9
  <2> QED  BY <2>1, <2>5, <2>6, HoldsKept
<1>11. Minded(es2, loads2, frees, drained, put, W)
  <2>1. LiveIn(es2) = LiveIn(es) \cup {n} /\ n \notin LiveIn(es)
    BY <1>2, <1>4, <1>5, <1>7, <1>8 DEF LiveIn
  <2>2. MoreUsed(es, es2)
    BY <1>4, <1>8 DEF MoreUsed
  <2>3. es2[n] = Made(id, there, 1)
    BY <1>7 DEF e
  <2>4. loads2 = IF there = "Present" THEN loads \cup {n} ELSE loads
    BY DEF n
  <2> QED  BY <2>1, <2>2, <2>3, <2>4, NewMinded
<1> QED  BY <1>10, <1>11

\* A new entry that is a dependency of h.
MadeFor(es, h, id, there, es2) ==
    es2 = Append([es EXCEPT ![h].dependencies = Append(@, Len(es) + 1)], Made(id, there, 1))

\* A dependency on an id the cache has no entry of.
LEMMA NewLinkKept ==
  ASSUME NEW es, NEW ids, NEW hs, Kept(es, ids, hs), Len(es) + 1 \in Handle,
         NEW id \in Ids, ids[id] = NoHandle, NEW there \in Obtainable,
         NEW h \in LiveIn(es), es[h].state # "Pending",
         NEW es2, MadeFor(es, h, id, there, es2), NEW ids2, Entered(es, ids, id, ids2),
         NEW loads, NEW frees, NEW drained, NEW put, NEW W, Minded(es, loads, frees, drained, put, W),
         NEW loads2, loads2 = IF there = "Present" THEN loads \cup {Len(es) + 1} ELSE loads
  PROVE  /\ Kept(es2, ids2, hs) /\ Minded(es2, loads2, frees, drained, put, W)
         /\ h \in LiveIn(es2) /\ es2[h].state = es[h].state
<1> DEFINE n == Len(es) + 1
           e == Made(id, there, 1)
           e0 == Made(id, there, 0)
           f == [es[h] EXCEPT !.dependencies = Append(es[h].dependencies, n)]
           es1 == Updated(es, h, f)
<1>1. PICK mid : Appended(es, id, there, 0, mid)
  BY DEF Appended
<1>2. /\ Kept(mid, ids2, hs) /\ DOMAIN mid = DOMAIN es \cup {n}
      /\ LiveIn(mid) = LiveIn(es) \cup {n} /\ n \notin DOMAIN es
      /\ ClosedIn(Deps(mid), {n})
      /\ mid[n] = e0 /\ \A g \in DOMAIN es : mid[g] = es[g]
  <2>1. Between(es, hs, n, e0, mid, ids2)
    BY <1>1, JoinedKept
  <2> QED  BY <2>1 DEF Between
<1>3. Typed(es, ids, hs)
  BY DEF Kept
<1>4. /\ es \in Seq(Entry) /\ LiveIn(es) \subseteq DOMAIN es /\ h \in DOMAIN es
      /\ es[h] \in Entry /\ es[h].dependencies \in Seq(Handle)
      /\ \A g \in DOMAIN es : es[g].acquires \in Nat
  BY <1>3, EntryFields DEF Typed
<1>5. /\ e \in Entry /\ e.occupied /\ e.id = id /\ e.dependencies = <<>> /\ e.acquires = 1
      /\ e0.occupied /\ e0.id = id /\ e0.dependencies = <<>> /\ e0.acquires = 0
  BY MadeEntry
<1>0. e.occupied = e0.occupied
  BY DEF Made, Blank
<1>6. f \in Entry
  <2>1. es[h] \in Entry /\ Append(es[h].dependencies, n) \in Seq(Handle)
    BY <1>4, AppendProperties
  <2> QED  BY <2>1, EntryUpdates, Zenon
<1>7. /\ f.acquires = es[h].acquires /\ f.occupied = es[h].occupied /\ f.id = es[h].id
      /\ f.dependencies = Append(es[h].dependencies, n) /\ f.state = es[h].state
      /\ f.loading = es[h].loading
  BY <1>4 DEF Entry
<1>8. es2 = Append(es1, e)
  BY DEF MadeFor, Updated
<1> HIDE DEF e, e0, f
<1>9. es1 \in Seq(Entry) /\ DOMAIN es1 = DOMAIN es /\ es1[h] = f
      /\ \A g \in DOMAIN es : g # h => es1[g] = es[g]
  BY <1>4, <1>6, OneUpdated
<1> HIDE DEF es1
<1>10. Len(es1) = Len(es)
  <2>1. DOMAIN es = 1 .. Len(es) /\ DOMAIN es1 = 1 .. Len(es1) /\ Len(es) \in Nat /\ Len(es1) \in Nat
    BY <1>4, <1>9, LenProperties
  <2> QED  BY <1>9, <2>1
<1>11. /\ es2 \in Seq(Entry) /\ DOMAIN es2 = DOMAIN es1 \cup {Len(es1) + 1}
       /\ es2[Len(es1) + 1] = e
       /\ \A g \in DOMAIN es1 : es2[g] = es1[g]
  BY <1>5, <1>8, <1>9, OneAppended
<1>12. /\ es2 \in Seq(Entry) /\ DOMAIN es2 = DOMAIN mid /\ es2[n] = e /\ es2[h] = f
       /\ \A g \in DOMAIN es : g # h => es2[g] = es[g]
  BY <1>2, <1>4, <1>9, <1>10, <1>11
<1> HIDE DEF n
<1>13. OneLinked(mid, h, n, es2)
  <2>1. h # n
    BY <1>2, <1>4
  <2>2. /\ es2[n].occupied = mid[n].occupied /\ es2[n].id = mid[n].id
        /\ es2[n].dependencies = mid[n].dependencies /\ es2[n].acquires = mid[n].acquires + 1
    <3>1. 0 + 1 = 1
      OBVIOUS
    <3> QED  BY <1>0, <1>2, <1>5, <1>12, <3>1
  <2>3. /\ es2[h].occupied = mid[h].occupied /\ es2[h].id = mid[h].id
        /\ es2[h].dependencies = Append(mid[h].dependencies, n) /\ es2[h].acquires = mid[h].acquires
    BY <1>2, <1>4, <1>7, <1>12
  <2>4. \A g \in DOMAIN es : g # h => g # n /\ es2[g] = mid[g]
    BY <1>2, <1>12
  <2> QED  BY <1>2, <1>12, <2>1, <2>2, <2>3, <2>4 DEF OneLinked
<1>14. Kept(es2, ids2, hs)
  <2>1. h \in LiveIn(mid) /\ n \in LiveIn(mid) /\ n \in {n} /\ h \notin {n} /\ es2 \in Seq(Entry)
    BY <1>2, <1>4, <1>12
  <2> QED  BY <1>2, <1>13, <2>1, LinkKept
<1>15. Minded(es2, loads2, frees, drained, put, W)
  <2>1. LiveIn(es2) = LiveIn(es) \cup {n} /\ n \notin LiveIn(es)
    <3>1. LiveIn(es2) = LiveIn(mid)
      BY <1>13 DEF LiveIn, OneLinked
    <3> QED  BY <1>2, <1>4, <3>1
  <2>2. MoreUsed(es, es2)
    BY <1>4, <1>7, <1>12 DEF MoreUsed
  <2>3. es2[n] = Made(id, there, 1)
    BY <1>12 DEF e
  <2>4. loads2 = IF there = "Present" THEN loads \cup {n} ELSE loads
    BY DEF n
  <2> QED  BY <2>1, <2>2, <2>3, <2>4, NewMinded
<1>16. h \in LiveIn(es2) /\ es2[h].state = es[h].state
  <2>1. LiveIn(es2) = LiveIn(mid)
    BY <1>13 DEF LiveIn, OneLinked
  <2> QED  BY <1>2, <1>7, <1>12, <2>1
<1> QED  BY <1>14, <1>15, <1>16

\* What freeEntry() makes of the entries and the index.
FreedIn(es, h, es2) ==
    es2 = [g \in DOMAIN es |->
             IF g = h THEN Blank(es[h].id)
             ELSE [es[g] EXCEPT !.acquires = @ - Cardinality(Named(es[h].dependencies, g))]]
LeftIn(es, ids, h, ids2) == ids2 = [ids EXCEPT ![es[h].id] = NoHandle]
GivenUp(es, h) ==
    {g \in LiveIn(es) : /\ Cardinality(Named(es[h].dependencies, g)) > 0
                        /\ es[g].acquires = Cardinality(Named(es[h].dependencies, g))}

\* An entry that nobody uses is freed; those it used alone are queued.
LEMMA FreedKept ==
  ASSUME NEW es, NEW ids, NEW hs, Kept(es, ids, hs),
         NEW h \in LiveIn(es), es[h].acquires = 0, ~es[h].loading,
         NEW es2, FreedIn(es, h, es2), NEW ids2, LeftIn(es, ids, h, ids2),
         NEW loads, NEW frees, NEW drained, NEW put, NEW W, Minded(es, loads, frees, drained, put, W),
         NEW frees2, frees2 = frees \cup GivenUp(es, h)
  PROVE  Kept(es2, ids2, hs) /\ Minded(es2, loads, frees2, drained \ {h}, put, W)
<1>1. Typed(es, ids, hs)
  BY DEF Kept
<1>2. /\ es \in Seq(Entry) /\ LiveIn(es) \subseteq DOMAIN es /\ h \in DOMAIN es
      /\ ids \in [Ids -> Handle \cup {NoHandle}]
      /\ \A g \in DOMAIN es : es[g] \in Entry /\ es[g].acquires \in Nat /\ es[g].id \in Ids
  BY <1>1, EntryFields DEF Typed
<1> DEFINE uses(g) == Cardinality(Named(es[h].dependencies, g))
           kept(g) == [es[g] EXCEPT !.acquires = es[g].acquires - uses(g)]
<1>3. /\ es2 = [g \in DOMAIN es |-> es2[g]] /\ es2[h] = Blank(es[h].id)
      /\ \A g \in DOMAIN es : g # h => es2[g] = kept(g)
  BY <1>2 DEF FreedIn
<1> HIDE DEF uses
<1>4. ASSUME NEW g \in DOMAIN es
      PROVE  /\ kept(g).occupied = es[g].occupied /\ kept(g).id = es[g].id
             /\ kept(g).dependencies = es[g].dependencies /\ kept(g).state = es[g].state
             /\ kept(g).loading = es[g].loading /\ kept(g).acquires = es[g].acquires - uses(g)
             /\ kept(g).acquires \in Nat => kept(g) \in Entry
  <2>1. es[g] \in Entry
    BY <1>2
  <2>2. /\ kept(g).occupied = es[g].occupied /\ kept(g).id = es[g].id
        /\ kept(g).dependencies = es[g].dependencies /\ kept(g).state = es[g].state
        /\ kept(g).loading = es[g].loading /\ kept(g).acquires = es[g].acquires - uses(g)
    BY <2>1 DEF Entry
  <2>3. es[g].acquires - uses(g) \in Nat => kept(g) \in Entry
    <3> DEFINE m == es[g].acquires - uses(g)
    <3>1. m \in Nat => [es[g] EXCEPT !.acquires = m] \in Entry
      <4> HIDE DEF m
      <4> QED  BY <2>1, EntryUpdates, Zenon
    <3> QED  BY <3>1
  <2> QED  BY <2>2, <2>3
<1>5. Blank(es[h].id) \in Entry /\ ~Blank(es[h].id).occupied /\ Blank(es[h].id).acquires = 0
  <2>1. <<>> \in Seq(Handle)
    BY EmptySeq
  <2> QED  BY <1>2, <2>1 DEF Blank, Entry, ResourceStates
<1> HIDE DEF kept
<1>6. ids2 \in [Ids -> Handle \cup {NoHandle}]
      /\ \A id \in Ids : ids2[id] = IF id = es[h].id THEN NoHandle ELSE ids[id]
  BY <1>2 DEF LeftIn
<1>7. Freeing(es, ids, h, es2, ids2)
  <2>1. ~es2[h].occupied /\ es2[h].acquires = 0 /\ es2[h] \in Entry
    BY <1>3, <1>5
  <2>2. \A g \in DOMAIN es \ {h} :
           /\ es2[g].occupied = es[g].occupied
           /\ es2[g].id = es[g].id
           /\ es2[g].dependencies = es[g].dependencies
           /\ es2[g].acquires = es[g].acquires - uses(g)
           /\ es2[g].acquires \in Nat => es2[g] \in Entry
    BY <1>3, <1>4
  <2>3. es2 = [g \in DOMAIN es |-> es2[g]]
    BY <1>3
  <2>4. \A g \in DOMAIN es : es2[g].acquires \in Nat => es2[g] \in Entry
    BY <2>1, <2>2
  <2>5. \A id \in Ids : ids2[id] = IF id = es[h].id THEN NoHandle ELSE ids[id]
    BY <1>6
  <2> QED  BY <2>1, <2>2, <2>3, <2>4, <2>5, Zenon DEF Freeing, uses
<1>8. /\ Kept(es2, ids2, hs) /\ LiveIn(es2) = LiveIn(es) \ {h}
      /\ \A g \in LiveIn(es) : uses(g) <= es[g].acquires
  <2>1. /\ Kept(es2, ids2, hs) /\ LiveIn(es2) = LiveIn(es) \ {h}
        /\ \A g \in LiveIn(es) : Cardinality(Named(es[h].dependencies, g)) <= es[g].acquires
    <3>1. ids2 \in [Ids -> Handle \cup {NoHandle}]
      BY <1>6
    <3> QED  BY <1>7, <3>1, FreeKept
  <2> QED  BY <2>1 DEF uses
<1>9. \A g \in LiveIn(es) : uses(g) \in Nat
  <2>1. \A g : Cardinality(Named(Deps(es)[h], g)) \in Nat /\ Deps(es)[h] = es[h].dependencies
    BY <1>1, EntryFields, PlacesFinite
  <2> QED  BY <2>1 DEF uses
<1>10. Minded(es2, loads, frees2, drained \ {h}, put, W)
  <2>1. ASSUME NEW g \in LiveIn(es2)
        PROVE  /\ g \in LiveIn(es) /\ g # h
               /\ es2[g].state = es[g].state /\ es2[g].loading = es[g].loading
               /\ es2[g].dependencies = es[g].dependencies
               /\ es2[g].acquires = 0 => es[g].acquires = 0 \/ g \in frees2
    <3>1. g \in LiveIn(es) /\ g # h /\ g \in DOMAIN es /\ es2[g] = kept(g)
      BY <1>2, <1>3, <1>8
    <3>2. es2[g].acquires = es[g].acquires - uses(g)
      BY <1>4, <3>1
    <3>3. es2[g].acquires = 0 => es[g].acquires = 0 \/ (uses(g) > 0 /\ es[g].acquires = uses(g))
      <4>1. PICK p, q : p = es[g].acquires /\ q = uses(g)
        OBVIOUS
      <4>2. p \in Nat /\ q \in Nat
        BY <1>2, <1>9, <3>1, <4>1
      <4>3. p - q = 0 => p = 0 \/ (q > 0 /\ p = q)
        BY <4>2
      <4> QED  BY <3>2, <4>1, <4>3
    <3>4. uses(g) > 0 /\ es[g].acquires = uses(g) => g \in frees2
      BY <3>1 DEF GivenUp, uses
    <3> QED  BY <1>4, <3>1, <3>3, <3>4
  <2>2. frees \subseteq frees2
    OBVIOUS
  <2>3. ASSUME NEW g \in LiveIn(es2)
        PROVE  /\ es2[g].acquires = 0 => g \in frees2 \cup (drained \ {h}) \cup put
               /\ es2[g].state = "Pending" => g \in loads \/ es2[g].loading
               /\ es2[g].state = "Pending" => es2[g].dependencies = <<>>
               /\ es2[g].loading => g \in W /\ es2[g].state = "Pending"
               /\ g \in put /\ es2[g].acquires = 0 => es2[g].loading \/ g \in frees2 \cup (drained \ {h})
    <3>1. /\ es[g].acquires = 0 => g \in frees \cup drained \cup put
          /\ es[g].state = "Pending" => g \in loads \/ es[g].loading
          /\ es[g].state = "Pending" => es[g].dependencies = <<>>
          /\ es[g].loading => g \in W /\ es[g].state = "Pending"
          /\ g \in put /\ es[g].acquires = 0 => es[g].loading \/ g \in frees \cup drained
      BY <2>1 DEF Minded
    <3> QED  BY <2>1, <2>2, <3>1
  <2>4. ASSUME NEW g \in W PROVE g \in LiveIn(es2) /\ es2[g].loading
    <3>1. g \in LiveIn(es) /\ es[g].loading
      BY DEF Minded
    <3>2. g \in LiveIn(es2)
      BY <1>8, <3>1
    <3> QED  BY <2>1, <3>1, <3>2
  <2> QED  BY <2>3, <2>4 DEF Minded
<1> QED  BY <1>8, <1>10

-----------------------------------------------------------------------------
(* The owner's stack of steps, and queues of loads.                        *)

Top(q) == IF q = <<>> THEN "None" ELSE Head(q)

\* A loop of a step is on top, with the step that it returns to below it.
Shaped(q) ==
    \A k \in 1 .. Len(q) :
        /\ q[k] \in {"Link", "Free"} => k = 1
        /\ q[k] \in {"Remove", "Link"} => k < Len(q) /\ q[k + 1] = "Publish"
        /\ q[k] = "Free" => k < Len(q) /\ q[k + 1] = "Drain"

\* A load is queued once.
Once(q) == \A i, j \in DOMAIN q : q[i] = q[j] => i = j

LEMMA TailOf ==
  ASSUME NEW H, NEW q \in Seq(H), q # <<>>
  PROVE  /\ Tail(q) \in Seq(H) /\ Head(q) \in H /\ Head(q) = q[1]
         /\ Len(q) \in Nat /\ Len(q) >= 1 /\ Len(Tail(q)) = Len(q) - 1
         /\ DOMAIN q = 1 .. Len(q) /\ DOMAIN Tail(q) = 1 .. Len(q) - 1
         /\ \A k \in 1 .. Len(q) - 1 : k + 1 \in 1 .. Len(q) /\ Tail(q)[k] = q[k + 1]
         /\ ToSet(q) = {Head(q)} \cup ToSet(Tail(q))
<1>1. /\ Tail(q) \in Seq(H) /\ Head(q) \in H /\ Len(Tail(q)) = Len(q) - 1
      /\ \A i \in 1 .. Len(Tail(q)) : Tail(q)[i] = q[i + 1]
  BY HeadTailProperties
<1>2. Len(q) \in Nat \ {0} /\ DOMAIN q = 1 .. Len(q) /\ DOMAIN Tail(q) = 1 .. Len(Tail(q))
  BY <1>1, EmptySeq, LenProperties
<1>3. Len(q) \in Nat /\ Len(q) >= 1
  BY <1>2
<1>4. \A k \in 1 .. Len(q) - 1 : k + 1 \in 1 .. Len(q)
  BY <1>3
<1>5. Head(q) = q[1]
  OBVIOUS
<1>6. \A k \in 1 .. Len(q) : k = 1 \/ k - 1 \in 1 .. Len(q) - 1
  BY <1>3
<1>7. \A k \in 1 .. Len(q) - 1 : Tail(q)[k] = q[k + 1]
  BY <1>1
<1>8. ToSet(q) = {Head(q)} \cup ToSet(Tail(q))
  <2>1. \A x \in ToSet(q) : x = q[1] \/ x \in ToSet(Tail(q))
    <3>1. SUFFICES ASSUME NEW k \in 1 .. Len(q), k # 1 PROVE q[k] \in ToSet(Tail(q))
      BY <1>2 DEF ToSet
    <3>2. k - 1 \in 1 .. Len(q) - 1 /\ Tail(q)[k - 1] = q[(k - 1) + 1] /\ (k - 1) + 1 = k
      BY <1>3, <1>6, <1>7, <3>1
    <3>3. k - 1 \in DOMAIN Tail(q) /\ Tail(q)[k - 1] = q[k]
      BY <1>1, <1>2, <3>2
    <3> QED  BY <3>3 DEF ToSet
  <2>2. \A x \in ToSet(Tail(q)) : x \in ToSet(q)
    BY <1>1, <1>2, <1>4, <1>7 DEF ToSet
  <2>3. q[1] \in ToSet(q)
    BY <1>2, <1>3 DEF ToSet
  <2> QED  BY <1>5, <2>1, <2>2, <2>3
<1> QED  BY <1>1, <1>2, <1>3, <1>4, <1>5, <1>7, <1>8

LEMMA OnceTail ==
  ASSUME NEW H, NEW q \in Seq(H), q # <<>>, Once(q)
  PROVE  Once(Tail(q)) /\ Head(q) \notin ToSet(Tail(q))
<1>1. /\ Head(q) = q[1] /\ Len(q) \in Nat /\ Len(q) >= 1
      /\ DOMAIN q = 1 .. Len(q) /\ DOMAIN Tail(q) = 1 .. Len(q) - 1
      /\ \A k \in 1 .. Len(q) - 1 : k + 1 \in 1 .. Len(q) /\ Tail(q)[k] = q[k + 1]
  BY TailOf
<1>2. Once(Tail(q))
  <2>1. SUFFICES ASSUME NEW i \in 1 .. Len(q) - 1, NEW j \in 1 .. Len(q) - 1, Tail(q)[i] = Tail(q)[j]
                 PROVE  i = j
    BY <1>1 DEF Once
  <2>2. i + 1 = j + 1
    BY <1>1, <2>1 DEF Once
  <2> QED  BY <2>2
<1>3. Head(q) \notin ToSet(Tail(q))
  <2>1. SUFFICES ASSUME NEW i \in 1 .. Len(q) - 1, q[1] = Tail(q)[i] PROVE FALSE
    BY <1>1 DEF ToSet
  <2>2. 1 \in DOMAIN q /\ i + 1 \in DOMAIN q /\ q[1] = q[i + 1]
    BY <1>1, <2>1
  <2>3. 1 = i + 1
    BY <2>2 DEF Once
  <2> QED  BY <2>3
<1> QED  BY <1>2, <1>3

LEMMA OnceAppended ==
  ASSUME NEW H, NEW q \in Seq(H), Once(q), NEW x, x \notin ToSet(q)
  PROVE  Once(Append(q, x))
<1>1. /\ DOMAIN Append(q, x) = DOMAIN q \cup {Len(q) + 1} /\ Len(q) + 1 \notin DOMAIN q
      /\ Append(q, x)[Len(q) + 1] = x
      /\ \A k \in DOMAIN q : Append(q, x)[k] = q[k]
  BY AppendedSet
<1>2. \A k \in DOMAIN q : q[k] # x
  BY DEF ToSet
<1> QED  BY <1>1, <1>2 DEF Once

LEMMA OnceNone == Once(<<>>)
BY EmptySet DEF Once

\* A step that returns.
LEMMA ShapedTail ==
  ASSUME NEW H, NEW q \in Seq(H), q # <<>>, Shaped(q)
  PROVE  /\ Tail(q) \in Seq(H) /\ Shaped(Tail(q))
         /\ Top(Tail(q)) \notin {"Link", "Free"}
         /\ Head(q) \in {"Remove", "Link"} => Top(Tail(q)) = "Publish"
         /\ Head(q) = "Free" => Top(Tail(q)) = "Drain"
<1>1. /\ Tail(q) \in Seq(H) /\ Head(q) = q[1] /\ Len(q) \in Nat /\ Len(q) >= 1
      /\ Len(Tail(q)) = Len(q) - 1
      /\ \A k \in 1 .. Len(q) - 1 : k + 1 \in 1 .. Len(q) /\ Tail(q)[k] = q[k + 1]
  BY TailOf
<1>2. Shaped(Tail(q))
  <2>1. SUFFICES ASSUME NEW k \in 1 .. Len(q) - 1
                 PROVE  /\ Tail(q)[k] \in {"Link", "Free"} => k = 1
                        /\ Tail(q)[k] \in {"Remove", "Link"} =>
                               k < Len(q) - 1 /\ Tail(q)[k + 1] = "Publish"
                        /\ Tail(q)[k] = "Free" => k < Len(q) - 1 /\ Tail(q)[k + 1] = "Drain"
    BY <1>1 DEF Shaped
  <2>2. k + 1 \in 1 .. Len(q) /\ Tail(q)[k] = q[k + 1] /\ k + 1 # 1
    BY <1>1
  <2>3. Tail(q)[k] \notin {"Link", "Free"}
    BY <2>2 DEF Shaped
  <2>4. Tail(q)[k] = "Remove" => k + 1 < Len(q) /\ q[(k + 1) + 1] = "Publish"
    BY <2>2 DEF Shaped
  <2>5. k + 1 < Len(q) => k < Len(q) - 1 /\ k + 1 \in 1 .. Len(q) - 1
    BY <1>1
  <2>6. k + 1 < Len(q) => Tail(q)[k + 1] = q[(k + 1) + 1]
    BY <1>1, <2>5
  <2> QED  BY <2>3, <2>4, <2>5, <2>6
<1>3. CASE Tail(q) = <<>>
  <2>1. Len(q) = 1
    <3>1. Len(<<>>) = 0
      BY EmptySeq
    <3>2. Len(Tail(q)) = 0
      BY <1>3, <3>1, Zenon
    <3>3. PICK m : m = Len(q)
      OBVIOUS
    <3>4. m \in Nat /\ m - 1 = 0
      BY <1>1, <3>2, <3>3, Zenon
    <3>5. m = 1
      BY <3>4
    <3> QED  BY <3>3, <3>5, Zenon
  <2>2. 1 \in 1 .. Len(q) /\ ~(1 < Len(q))
    BY <2>1
  <2>3. q[1] \notin {"Remove", "Link", "Free"}
    BY <2>2 DEF Shaped
  <2> QED  BY <1>1, <1>2, <1>3, <2>3 DEF Top
<1>4. CASE Tail(q) # <<>>
  <2>1. Len(q) - 1 >= 1 /\ Head(Tail(q)) = Tail(q)[1]
    <3>1. Head(Tail(q)) = Tail(q)[1] /\ Len(Tail(q)) >= 1
      BY <1>1, <1>4, TailOf
    <3> QED  BY <1>1, <3>1
  <2>2. Top(Tail(q)) = q[2] /\ 2 \in 1 .. Len(q) /\ 1 \in 1 .. Len(q) /\ 1 + 1 = 2
    BY <1>1, <1>4, <2>1 DEF Top
  <2>3. q[2] \notin {"Link", "Free"}
    BY <2>2 DEF Shaped
  <2>4. /\ q[1] \in {"Remove", "Link"} => q[1 + 1] = "Publish"
        /\ q[1] = "Free" => q[1 + 1] = "Drain"
    BY <2>2 DEF Shaped
  <2> QED  BY <1>1, <1>2, <2>2, <2>3, <2>4
<1> QED  BY <1>3, <1>4

\* A loop that is entered.
LEMMA ShapedPush ==
  ASSUME NEW H, NEW q \in Seq(H), Shaped(q), Top(q) \notin {"Link", "Free"}, NEW step \in H,
         \/ step = "Link" /\ Top(q) = "Publish"
         \/ step = "Free" /\ Top(q) = "Drain"
  PROVE  /\ <<step>> \o q \in Seq(H) /\ Shaped(<<step>> \o q)
         /\ Top(<<step>> \o q) = step
<1> DEFINE r == <<step>> \o q
<1>1. q # <<>> /\ Top(q) = Head(q)
  BY DEF Top
<1>2. Head(q) = q[1] /\ Len(q) \in Nat /\ Len(q) >= 1
  BY <1>1, TailOf
<1>3. <<step>> \in Seq(H) /\ Len(<<step>>) = 1 /\ <<step>>[1] = step
  OBVIOUS
<1>4. /\ r \in Seq(H) /\ Len(r) = 1 + Len(q)
      /\ \A i \in 1 .. 1 + Len(q) : r[i] = IF i <= 1 THEN step ELSE q[i - 1]
  <2>1. /\ r \in Seq(H) /\ Len(r) = Len(<<step>>) + Len(q)
        /\ \A i \in 1 .. Len(<<step>>) + Len(q) :
              r[i] = IF i <= Len(<<step>>) THEN <<step>>[i] ELSE q[i - Len(<<step>>)]
    BY <1>3, ConcatProperties
  <2> HIDE DEF r
  <2>2. \A i \in 1 .. 1 + Len(q) : i <= 1 => i = 1
    BY <1>2
  <2> QED  BY <1>3, <2>1, <2>2
<1> HIDE DEF r
<1>5. r[1] = step /\ \A k \in 1 .. Len(q) : k + 1 \in 1 .. Len(r) /\ r[k + 1] = q[k]
  <2>1. 1 \in 1 .. 1 + Len(q) /\ 1 <= 1
    BY <1>2
  <2>2. \A k \in 1 .. Len(q) : k + 1 \in 1 .. 1 + Len(q) /\ ~(k + 1 <= 1) /\ (k + 1) - 1 = k
    BY <1>2
  <2> QED  BY <1>4, <2>1, <2>2
<1>6. Shaped(r)
  <2>1. SUFFICES ASSUME NEW k \in 1 .. Len(r)
                 PROVE  /\ r[k] \in {"Link", "Free"} => k = 1
                        /\ r[k] \in {"Remove", "Link"} => k < Len(r) /\ r[k + 1] = "Publish"
                        /\ r[k] = "Free" => k < Len(r) /\ r[k + 1] = "Drain"
    BY DEF Shaped
  <2>2. CASE k = 1
    <3>1. 1 \in 1 .. Len(q) /\ 1 < Len(r) /\ r[1 + 1] = q[1]
      BY <1>2, <1>4, <1>5
    <3> QED  BY <1>1, <1>2, <1>5, <2>2, <3>1
  <2>3. CASE k # 1
    <3>1. PICK j \in 1 .. Len(q) : k = j + 1
      <4>1. k - 1 \in 1 .. Len(q) /\ k = (k - 1) + 1
        BY <1>2, <1>4, <2>3
      <4> QED  BY <4>1
    <3>2. r[k] = q[j]
      BY <1>5, <3>1
    <3>3. q[j] \notin {"Link", "Free"}
      BY <1>1, <1>2 DEF Shaped
    <3>4. q[j] = "Remove" => j < Len(q) /\ q[j + 1] = "Publish"
      BY DEF Shaped
    <3>5. j < Len(q) => k < Len(r) /\ j + 1 \in 1 .. Len(q)
      BY <1>2, <1>4, <3>1
    <3>6. j < Len(q) => r[k + 1] = q[j + 1]
      BY <1>5, <3>1, <3>5
    <3> QED  BY <3>2, <3>3, <3>4, <3>5, <3>6
  <2> QED  BY <2>2, <2>3
<1>7. Top(r) = step
  <2>1. r # <<>>
    BY <1>2, <1>4, EmptySeq
  <2> QED  BY <1>5, <2>1 DEF Top
<1> QED  BY <1>4, <1>6, <1>7 DEF r

\* Steps that are put before others.
LEMMA ShapedConcat ==
  ASSUME NEW H, NEW p \in Seq(H), NEW q \in Seq(H), Shaped(p), p # <<>>, Shaped(q),
         Top(q) \notin {"Link", "Free"}
  PROVE  p \o q \in Seq(H) /\ Shaped(p \o q) /\ Top(p \o q) = Top(p)
<1> DEFINE r == p \o q
<1>1. /\ r \in Seq(H) /\ Len(r) = Len(p) + Len(q)
      /\ \A i \in 1 .. Len(p) + Len(q) : r[i] = IF i <= Len(p) THEN p[i] ELSE q[i - Len(p)]
  BY ConcatProperties
<1>2. Len(p) \in Nat /\ Len(p) >= 1 /\ Len(q) \in Nat /\ Head(p) = p[1]
  BY TailOf, LenProperties
<1> HIDE DEF r
<1>3. \A k \in 1 .. Len(p) : r[k] = p[k] /\ k \in 1 .. Len(r)
  BY <1>1, <1>2
<1>4. \A k \in 1 .. Len(q) : r[Len(p) + k] = q[k]
  <2>1. \A k \in 1 .. Len(q) : /\ Len(p) + k \in 1 .. Len(p) + Len(q)
                               /\ ~(Len(p) + k <= Len(p)) /\ (Len(p) + k) - Len(p) = k
    BY <1>2
  <2> QED  BY <1>1, <2>1
<1>5. Shaped(r)
  <2>1. SUFFICES ASSUME NEW k \in 1 .. Len(r)
                 PROVE  /\ r[k] \in {"Link", "Free"} => k = 1
                        /\ r[k] \in {"Remove", "Link"} => k < Len(r) /\ r[k + 1] = "Publish"
                        /\ r[k] = "Free" => k < Len(r) /\ r[k + 1] = "Drain"
    BY DEF Shaped
  <2>2. CASE k \in 1 .. Len(p)
    <3>1. /\ p[k] \in {"Link", "Free"} => k = 1
          /\ p[k] \in {"Remove", "Link"} => k < Len(p) /\ p[k + 1] = "Publish"
          /\ p[k] = "Free" => k < Len(p) /\ p[k + 1] = "Drain"
      BY <2>2 DEF Shaped
    <3>2. k < Len(p) => k < Len(r) /\ k + 1 \in 1 .. Len(p)
      BY <1>1, <1>2
    <3>3. k < Len(p) => r[k + 1] = p[k + 1]
      BY <1>3, <3>2
    <3> QED  BY <1>3, <2>2, <3>1, <3>2, <3>3
  <2>3. CASE k \notin 1 .. Len(p)
    <3>1. PICK j \in 1 .. Len(q) : k = Len(p) + j
      <4>1. k - Len(p) \in 1 .. Len(q) /\ k = Len(p) + (k - Len(p))
        BY <1>1, <1>2, <2>3
      <4> QED  BY <4>1
    <3>2. r[k] = q[j]
      BY <1>4, <3>1
    <3>3. q[j] \notin {"Link", "Free"}
      <4>1. q # <<>>
        <5>1. Len(q) # 0
          BY <1>2, <3>1
        <5> QED  BY <5>1, EmptySeq
      <4>2. q[1] \notin {"Link", "Free"}
        BY <4>1, TailOf DEF Top
      <4> QED  BY <4>2 DEF Shaped
    <3>4. q[j] = "Remove" => j < Len(q) /\ q[j + 1] = "Publish"
      BY DEF Shaped
    <3>5. j < Len(q) => k < Len(r) /\ j + 1 \in 1 .. Len(q) /\ k + 1 = Len(p) + (j + 1)
      BY <1>1, <1>2, <3>1
    <3>6. j < Len(q) => r[k + 1] = q[j + 1]
      BY <1>4, <3>1, <3>5
    <3> QED  BY <3>2, <3>3, <3>4, <3>5, <3>6
  <2> QED  BY <2>2, <2>3
<1>6. Top(r) = Top(p)
  <2>1. r # <<>>
    <3>1. Len(r) # 0
      BY <1>1, <1>2
    <3> QED  BY <3>1, EmptySeq
  <2>2. Head(r) = r[1] /\ r[1] = p[1]
    BY <1>1, <1>2, <1>3, <2>1, TailOf
  <2> QED  BY <1>2, <2>1, <2>2 DEF Top
<1> QED  BY <1>1, <1>5, <1>6 DEF r

LEMMA ShapedCalls ==
  \A q \in {<<"Submit">>, <<"Remove", "Publish">>, loadingPhase, <<"Drain">>, <<"Wait">>,
            <<"Drain", "SceneRequest">>, loadingPhase \o <<"SceneTake">>,
            loadingPhase \o <<"SceneDone">>} :
      q \in Seq(Steps) /\ q # <<>> /\ Shaped(q) /\ Top(q) \notin {"Link", "Free", "Publish"}
PROOF
<1>1. ASSUME NEW x \in {"Submit", "Drain", "Wait", "SceneTake", "SceneDone"}
      PROVE  <<x>> \in Seq(Steps) /\ <<x>> # <<>> /\ Shaped(<<x>>) /\ Top(<<x>>) = x
  <2>1. <<x>> \in Seq(Steps) /\ Len(<<x>>) = 1 /\ <<x>>[1] = x /\ Head(<<x>>) = x
    BY DEF Steps, CacheSteps, SceneSteps
  <2>2. \A k \in 1 .. 1 : k = 1
    OBVIOUS
  <2> QED  BY <2>1, <2>2, EmptySeq DEF Shaped, Top
<1>2. /\ <<"Remove", "Publish">> \in Seq(Steps) /\ <<"Remove", "Publish">> # <<>>
      /\ Shaped(<<"Remove", "Publish">>) /\ Top(<<"Remove", "Publish">>) = "Remove"
  BY DEF Steps, CacheSteps, SceneSteps, Shaped, Top
<1>3. /\ loadingPhase \in Seq(Steps) /\ loadingPhase # <<>>
      /\ Shaped(loadingPhase) /\ Top(loadingPhase) = "Submit"
  BY DEF Steps, CacheSteps, SceneSteps, Shaped, Top, loadingPhase
<1>4. /\ <<"Drain", "SceneRequest">> \in Seq(Steps) /\ <<"Drain", "SceneRequest">> # <<>>
      /\ Shaped(<<"Drain", "SceneRequest">>) /\ Top(<<"Drain", "SceneRequest">>) = "Drain"
  BY DEF Steps, CacheSteps, SceneSteps, Shaped, Top
<1>5. ASSUME NEW x \in {"SceneTake", "SceneDone"}
      PROVE  /\ loadingPhase \o <<x>> \in Seq(Steps) /\ loadingPhase \o <<x>> # <<>>
             /\ Shaped(loadingPhase \o <<x>>) /\ Top(loadingPhase \o <<x>>) = "Submit"
  <2>1. x \notin {"Link", "Free"} /\ "Submit" # "None"
    OBVIOUS
  <2>2. /\ loadingPhase \o <<x>> \in Seq(Steps) /\ Shaped(loadingPhase \o <<x>>)
        /\ Top(loadingPhase \o <<x>>) = "Submit"
    BY <1>1, <1>3, <2>1, ShapedConcat
  <2> QED  BY <2>1, <2>2 DEF Top
<1> QED  BY <1>1, <1>2, <1>3, <1>4, <1>5

-----------------------------------------------------------------------------
(* The inductive invariant.                                                *)

CacheTypes ==
    /\ catalog \in Catalogs
    /\ pendingLoads \subseteq Handle /\ pendingFrees \subseteq Handle
    /\ tasks \subseteq Handle /\ draining \subseteq Handle /\ deferred \subseteq Handle
    /\ completions \in Seq(Handle) /\ publishing \in Seq(Handle)
    /\ linking \in Seq(Ids)
    /\ todo \in Seq(Steps)
    /\ phaseError \in BOOLEAN

\* The loads between their submission and their publication.
UnderWay == tasks \cup Unpublished

\* The local vectors are empty but in the steps that use them; the entry whose
\* dependencies are added is live and no longer Pending.
Staged ==
    /\ Shaped(todo)
    /\ publishing # <<>> => Top(todo) \in {"Publish", "Link"}
    /\ draining # {} => Top(todo) = "Free"
    /\ deferred # {} => Top(todo) \in {"Drain", "Free"}
    /\ Top(todo) = "Link" => /\ publishing # <<>>
                             /\ Head(publishing) \in LiveIn(entries)
                             /\ entries[Head(publishing)].state # "Pending"

\* A load is in one place.
Queued ==
    /\ Once(completions) /\ Once(publishing)
    /\ tasks \cap ToSet(completions) = {}
    /\ tasks \cap ToSet(publishing) = {}
    /\ ToSet(completions) \cap ToSet(publishing) = {}

MindedNow(W) == Minded(entries, pendingLoads, pendingFrees, draining, deferred, W)

CacheInv ==
    /\ CacheTypes
    /\ Kept(entries, byId, held)
    /\ MindedNow(UnderWay)
    /\ Staged
    /\ Queued

LEMMA AtTop ==
    /\ \A step \in Steps : At(step) <=> Top(todo) = step
    /\ \A step \in Steps : At(step)' <=> Top(todo') = step
    /\ UnderWay = tasks \cup ToSet(completions) \cup
                  ToSet(IF Top(todo) = "Link" THEN Tail(publishing) ELSE publishing)
    /\ UnderWay' = tasks' \cup ToSet(completions') \cup
                   ToSet(IF Top(todo') = "Link" THEN Tail(publishing') ELSE publishing')
<1>1. /\ \A step \in Steps : At(step) <=> Top(todo) = step
      /\ \A step \in Steps : At(step)' <=> Top(todo') = step
  BY DEF At, Top, Steps, CacheSteps, SceneSteps
<1>2. (At("Link") <=> Top(todo) = "Link") /\ (At("Link")' <=> Top(todo') = "Link")
  BY <1>1 DEF Steps, CacheSteps, SceneSteps
<1>3. UnderWay = tasks \cup ToSet(completions) \cup
                 ToSet(IF Top(todo) = "Link" THEN Tail(publishing) ELSE publishing)
  BY <1>2 DEF UnderWay, Unpublished
<1>4. UnderWay' = tasks' \cup ToSet(completions') \cup
                  ToSet(IF Top(todo') = "Link" THEN Tail(publishing') ELSE publishing')
  BY <1>2 DEF UnderWay, Unpublished
<1> QED  BY <1>1, <1>3, <1>4

\* What requests, releases and links do to the entries and the queues, while
\* the drain and the loads stay as they are.
Effect ==
    /\ Kept(entries', byId', held')
    /\ Minded(entries', pendingLoads', pendingFrees', draining, deferred, UnderWay)
    /\ pendingLoads' \subseteq Handle /\ pendingFrees' \subseteq Handle

LEMMA RequestedEffect ==
  ASSUME CacheInv, NEW id \in Ids, NEW h \in Handle, Requested(id, h),
         MoreHeld(held, h, held')
  PROVE  Effect
<1>1. Kept(entries, byId, held) /\ MindedNow(UnderWay) /\ CacheTypes
  BY DEF CacheInv
<1>2. Typed(entries, byId, held) /\ IndexedIn(entries, byId)
  BY <1>1 DEF Kept
<1>3. CASE h = byId[id] /\ Share(id)
  <2>1. h \in LiveIn(entries) /\ byId' = byId /\ pendingLoads' = pendingLoads /\ pendingFrees' = pendingFrees
    BY <1>2, <1>3 DEF IndexedIn, Share, queues
  <2>2. MoreAcquired(entries, h, entries')
    BY <1>3 DEF Share, MoreAcquired
  <2>4. Kept(entries', byId, held') /\ Minded(entries', pendingLoads, pendingFrees, draining, deferred, UnderWay)
    BY <1>1, <2>1, <2>2, ShareKept DEF MindedNow
  <2> QED  BY <1>1, <2>1, <2>4 DEF Effect, CacheTypes
<1>4. CASE h = NewHandle /\ NewEntry(id, NoHandle)
  <2> DEFINE there == catalog[id].there
  <2>1. /\ byId[id] = NoHandle /\ there # "Unknown" /\ Len(entries) + 1 \in Handle
        /\ pendingFrees' = pendingFrees
        /\ pendingLoads' = IF there = "Present" THEN pendingLoads \cup {Len(entries) + 1} ELSE pendingLoads
    BY <1>4 DEF NewEntry, NewHandle
  <2>2. there \in Obtainable
    <3>1. catalog \in [Ids -> Asset]
      BY <1>1, CatalogsAssumption DEF CacheTypes
    <3> QED  BY <2>1, <3>1 DEF Asset, Obtainable
  <2>3. MadeHeld(entries, id, there, entries')
    BY <1>4 DEF NewEntry, MadeHeld, Made
  <2>4. Entered(entries, byId, id, byId') /\ NewHeld(entries, held, held')
    BY <1>4 DEF NewEntry, NewHandle, Entered, NewHeld, MoreHeld
  <2> HIDE DEF there
  <2>5. Kept(entries', byId', held') /\ Minded(entries', pendingLoads', pendingFrees, draining, deferred, UnderWay)
    <3>1. Minded(entries, pendingLoads, pendingFrees, draining, deferred, UnderWay)
      BY <1>1 DEF MindedNow
    <3> QED  BY <1>1, <2>1, <2>2, <2>3, <2>4, <3>1, NewRequestKept
  <2> QED  BY <1>1, <2>1, <2>5 DEF Effect, CacheTypes
<1> QED  BY <1>3, <1>4 DEF Requested

LEMMA ReleasedEffect ==
  ASSUME CacheInv, NEW h \in Handle, held[h] > 0, Released(h),
         LessHeld(held, h, held')
  PROVE  Effect
<1>1. Kept(entries, byId, held) /\ MindedNow(UnderWay) /\ CacheTypes
  BY DEF CacheInv
<1>2. h \in LiveIn(entries) /\ LiveIn(entries) = Live /\ Live \subseteq Handle
  <2>1. Typed(entries, byId, held) /\ CountedIn(entries, held)
    BY <1>1 DEF Kept
  <2> QED  BY <2>1, EntryFields DEF CountedIn, LiveIn, Live
<1>3. /\ byId' = byId /\ pendingLoads' = pendingLoads
      /\ pendingFrees' = pendingFrees \cup ({h} \cap {g \in LiveIn(entries) : entries[g].acquires = 1})
  BY <1>2 DEF Released, Unused, Acquires
<1>4. LessAcquired(entries, h, entries')
  BY <1>2 DEF Released, LessAcquired
<1>5. Kept(entries', byId, held') /\ Minded(entries', pendingLoads, pendingFrees', draining, deferred, UnderWay)
  BY <1>1, <1>2, <1>3, <1>4, ReleaseKept DEF MindedNow
<1>6. pendingFrees' \subseteq Handle /\ pendingLoads' \subseteq Handle
  BY <1>1, <1>2, <1>3 DEF CacheTypes
<1> QED  BY <1>3, <1>5, <1>6 DEF Effect

LEMMA LinkedEffect ==
  ASSUME CacheInv, NEW holder \in LiveIn(entries), entries[holder].state # "Pending",
         NEW id \in Ids, Linked(holder, id), held' = held
  PROVE  Effect /\ holder \in LiveIn(entries') /\ entries'[holder].state # "Pending"
<1>1. Kept(entries, byId, held) /\ MindedNow(UnderWay) /\ CacheTypes
  BY DEF CacheInv
<1>2. Typed(entries, byId, held) /\ IndexedIn(entries, byId)
  BY <1>1 DEF Kept
<1>3. holder \in Handle /\ holder # NoHandle
  BY <1>2, EntryFields, NoHandleAssumption, BoundsAssumption DEF Handle
<1>4. CASE /\ byId[id] # NoHandle
           /\ ~reaches(byId[id], holder)
           /\ entries' = [entries EXCEPT ![byId[id]].acquires = @ + 1,
                                         ![holder].dependencies = Append(@, byId[id])]
           /\ UNCHANGED <<byId, queues>>
  <2> DEFINE x == byId[id]
             T == ReachedIn(entries, {x})
  <2>1. x \in LiveIn(entries) /\ byId' = byId /\ pendingLoads' = pendingLoads /\ pendingFrees' = pendingFrees
    BY <1>2, <1>4 DEF IndexedIn, queues
  <2>2. MoreNamed(entries, holder, x, entries')
    BY <1>4 DEF MoreNamed
  <2>3. holder \notin T
    BY <1>4, ReachedFromHere DEF reaches
  <2>4. ClosedIn(Deps(entries), T) /\ x \in T
    <3>1. IsFiniteSet(LiveIn(entries))
      BY <1>2, EntryFields
    <3>2. {x} \subseteq T /\ ClosedIn(Deps(entries), T)
      BY <3>1, ReachedIsLeast
    <3> QED  BY <3>2
  <2> HIDE DEF x, T
  <2>5. /\ Kept(entries', byId, held) /\ Minded(entries', pendingLoads, pendingFrees, draining, deferred, UnderWay)
        /\ holder \in LiveIn(entries') /\ entries'[holder].state = entries[holder].state
    BY <1>1, <2>1, <2>2, <2>3, <2>4, LinkedKept DEF MindedNow
  <2> QED  BY <1>1, <2>1, <2>5 DEF Effect, CacheTypes
<1>5. CASE NewEntry(id, holder)
  <2> DEFINE there == catalog[id].there
  <2>1. /\ byId[id] = NoHandle /\ there # "Unknown" /\ Len(entries) + 1 \in Handle
        /\ pendingFrees' = pendingFrees
        /\ pendingLoads' = IF there = "Present" THEN pendingLoads \cup {Len(entries) + 1} ELSE pendingLoads
    BY <1>5 DEF NewEntry, NewHandle
  <2>2. there \in Obtainable
    <3>1. catalog \in [Ids -> Asset]
      BY <1>1, CatalogsAssumption DEF CacheTypes
    <3> QED  BY <2>1, <3>1 DEF Asset, Obtainable
  <2>3. MadeFor(entries, holder, id, there, entries')
    BY <1>3, <1>5 DEF NewEntry, NewHandle, MadeFor, Made
  <2>4. Entered(entries, byId, id, byId')
    BY <1>5 DEF NewEntry, NewHandle, Entered
  <2> HIDE DEF there
  <2>5. /\ Kept(entries', byId', held) /\ Minded(entries', pendingLoads', pendingFrees, draining, deferred, UnderWay)
        /\ holder \in LiveIn(entries') /\ entries'[holder].state = entries[holder].state
    BY <1>1, <2>1, <2>2, <2>3, <2>4, NewLinkKept DEF MindedNow
  <2> QED  BY <1>1, <2>1, <2>5 DEF Effect, CacheTypes
<1> QED  BY <1>4, <1>5 DEF Linked

\* More entries are queued for a drain.
LEMMA MoreQueued ==
  ASSUME NEW es, NEW loads, NEW frees, NEW drained, NEW put, NEW W,
         Minded(es, loads, frees, drained, put, W), NEW frees2, frees \subseteq frees2
  PROVE  Minded(es, loads, frees2, drained, put, W)
BY DEF Minded

LEMMA RefusedFreesMore ==
  ASSUME CacheInv, NEW id
  PROVE  pendingFrees \subseteq RefusedFrees(id) /\ RefusedFrees(id) \subseteq Handle
<1>1. Typed(entries, byId, held) /\ pendingFrees \subseteq Handle
  BY DEF CacheInv, Kept, CacheTypes
<1>2. Live \subseteq Handle
  BY <1>1, EntryFields DEF Live
<1> QED  BY <1>1, <1>2 DEF RefusedFrees, Unused

\* A call of a client that has no steps of its own.
LEMMA EffectKept ==
  ASSUME CacheInv, Effect, Top(todo) # "Link", UNCHANGED <<catalog, work, todo, locals>>
  PROVE  CacheInv'
<1>1. UnderWay' = UnderWay
  BY AtTop DEF work, locals
<1>2. MindedNow(UnderWay)' /\ Kept(entries, byId, held)'
  BY <1>1 DEF Effect, MindedNow, locals
<1>3. CacheTypes'
  BY DEF CacheInv, CacheTypes, Effect, work, locals
<1>4. Staged' /\ Queued'
  BY DEF CacheInv, Staged, Queued, work, locals
<1> QED  BY <1>2, <1>3, <1>4 DEF CacheInv

-----------------------------------------------------------------------------
(* The calls of clients.                                                   *)

LEMMA IdleTop == ASSUME Idle PROVE Top(todo) = "None"
BY DEF Idle, Top

LEMMA RequestStep ==
  ASSUME CacheInv, NEW id \in Ids, Request(id)
  PROVE  CacheInv'
<1>1. Idle /\ UNCHANGED <<catalog, work, todo, locals>>
  BY DEF Request
<1>2. PICK h \in Handle : Requested(id, h) /\ MoreHeld(held, h, held')
  BY DEF Request, MoreHeld
<1>3. Effect
  BY <1>2, RequestedEffect
<1> QED  BY <1>1, <1>3, IdleTop, EffectKept

LEMMA ReleaseStep ==
  ASSUME CacheInv, NEW h \in Handle, Release(h)
  PROVE  CacheInv'
<1>1. Idle /\ UNCHANGED <<catalog, work, todo, locals>>
  BY DEF Release
<1>2. held[h] > 0 /\ Released(h) /\ LessHeld(held, h, held')
  BY DEF Release, LessHeld
<1>3. Effect
  BY <1>2, ReleasedEffect
<1> QED  BY <1>1, <1>3, IdleTop, EffectKept

\* An addition that is refused.
LEMMA RefusedEffect ==
  ASSUME CacheInv, NEW id, pendingFrees' = RefusedFrees(id),
         UNCHANGED <<entries, byId, pendingLoads, held>>
  PROVE  Effect
<1>1. Kept(entries, byId, held) /\ MindedNow(UnderWay) /\ pendingLoads \subseteq Handle
  BY DEF CacheInv, CacheTypes
<1>2. Minded(entries, pendingLoads, pendingFrees', draining, deferred, UnderWay)
  BY <1>1, MoreQueued, RefusedFreesMore DEF MindedNow
<1> QED  BY <1>1, <1>2, RefusedFreesMore DEF Effect

LEMMA AddDependencyStep ==
  ASSUME CacheInv, NEW holder \in Live, NEW id \in Ids, AddDependency(holder, id)
  PROVE  CacheInv'
<1>1. Idle /\ UNCHANGED <<catalog, work, todo, locals>> /\ held' = held
  BY DEF AddDependency
<1>2. CASE Linked(holder, id)
  <2>1. holder \in LiveIn(entries) /\ entries[holder].state # "Pending"
    BY DEF AddDependency, Live, LiveIn, State
  <2>2. Effect
    BY <1>1, <1>2, <2>1, LinkedEffect
  <2> QED  BY <1>1, <2>2, IdleTop, EffectKept
<1>3. CASE pendingFrees' = RefusedFrees(id) /\ UNCHANGED <<entries, byId, pendingLoads>>
  <2>1. Effect
    BY <1>1, <1>3, RefusedEffect
  <2> QED  BY <1>1, <2>1, IdleTop, EffectKept
<1> QED  BY <1>2, <1>3 DEF AddDependency

\* The steps of a call, instead of none or of the one that ends.
LEMMA CallStep ==
  ASSUME CacheInv, NEW q \in Seq(Steps), Shaped(q), todo' = q,
         Top(todo) \notin {"Link", "Free", "Publish", "Drain"}, Top(q) # "Link",
         phaseError' \in BOOLEAN,
         UNCHANGED <<catalog, entries, byId, queues, work, publishing, linking,
                     draining, deferred, held>>
  PROVE  CacheInv'
<1>1. publishing = <<>> /\ draining = {} /\ deferred = {}
  BY DEF CacheInv, Staged
<1>2. UnderWay' = UnderWay
  BY AtTop DEF work
<1>3. MindedNow(UnderWay)' /\ Kept(entries, byId, held)'
  BY <1>2 DEF CacheInv, MindedNow, queues
<1>4. CacheTypes'
  BY DEF CacheInv, CacheTypes, work, queues
<1>5. Staged' /\ Queued'
  BY <1>1 DEF CacheInv, Staged, Queued, work
<1> QED  BY <1>3, <1>4, <1>5 DEF CacheInv

LEMMA ClientCallStep ==
  ASSUME CacheInv, ClientCall
  PROVE  CacheInv'
<1>1. ASSUME NEW q, Call(q),
             q \in {<<"Submit">>, <<"Remove", "Publish">>, loadingPhase, <<"Drain">>, <<"Wait">>}
      PROVE  CacheInv'
  <2>1. q \in Seq(Steps) /\ Shaped(q) /\ Top(q) # "Link"
    BY <1>1, ShapedCalls
  <2>2. /\ Idle /\ todo' = q /\ phaseError' = FALSE
        /\ UNCHANGED <<catalog, entries, byId, queues, work, publishing, linking,
                       draining, deferred, held>>
    BY <1>1 DEF Call
  <2>3. Top(todo) = "None"
    BY <2>2, IdleTop
  <2> QED  BY <2>1, <2>2, <2>3, CallStep
<1>2. CASE \E id \in Ids : Request(id)
  BY <1>2, RequestStep
<1>3. CASE \E h \in Handle : Release(h)
  BY <1>3, ReleaseStep
<1>4. CASE \E h \in Live, id \in Ids : AddDependency(h, id)
  BY <1>4, AddDependencyStep
<1>5. CASE submitLoads \/ removeCompletions \/ runLoadingPhase \/ drainFrees \/ shutdown
  BY <1>1, <1>5 DEF submitLoads, removeCompletions, runLoadingPhase, drainFrees, shutdown
<1> QED  BY <1>2, <1>3, <1>4, <1>5 DEF ClientCall

-----------------------------------------------------------------------------
(* The owner's steps and the workers'.                                     *)

\* A change of what the entries are, not of who uses them.
LEMMA OutlineKept ==
  ASSUME NEW es, NEW ids, NEW hs, Kept(es, ids, hs), NEW es2 \in Seq(Entry), SameOutline(es, es2),
         \A h \in DOMAIN es : es2[h].acquires = es[h].acquires
  PROVE  Kept(es2, ids, hs) /\ LiveIn(es2) = LiveIn(es) /\ LiveIn(es) \subseteq DOMAIN es
<1>1. Typed(es, ids, hs) /\ CountedIn(es, hs)
  BY DEF Kept
<1>2. LiveIn(es) \subseteq DOMAIN es /\ hs \in [Handle -> Nat]
  BY <1>1, EntryFields DEF Typed
<1>3. HoldsMoved(es, es2, hs, hs)
  BY <1>1, <1>2 DEF HoldsMoved, CountedIn
<1>4. Kept(es2, ids, hs)
  BY <1>2, <1>3, HoldsKept
<1>5. LiveIn(es2) = LiveIn(es)
  BY DEF LiveIn, SameOutline
<1> QED  BY <1>2, <1>4, <1>5

\* The loads of the entries S start.
LoadsStarted(es, S, es2) == es2 = [h \in DOMAIN es |-> [es[h] EXCEPT !.loading = @ \/ h \in S]]

LEMMA StartedKept ==
  ASSUME NEW es, NEW ids, NEW hs, Kept(es, ids, hs),
         NEW loads, NEW frees, NEW drained, NEW put, NEW W, Minded(es, loads, frees, drained, put, W),
         NEW S, S = {h \in loads \cap LiveIn(es) : es[h].state = "Pending" /\ ~es[h].loading},
         NEW es2, LoadsStarted(es, S, es2)
  PROVE  Kept(es2, ids, hs) /\ Minded(es2, {}, frees, drained, put, W \cup S)
<1>1. Typed(es, ids, hs)
  BY DEF Kept
<1>2. /\ es \in Seq(Entry) /\ LiveIn(es) \subseteq DOMAIN es
      /\ DOMAIN es = 1 .. Len(es) /\ Len(es) \in Nat
      /\ \A h \in DOMAIN es : es[h] \in Entry
  BY <1>1, EntryFields DEF Typed
<1> DEFINE e(h) == [es[h] EXCEPT !.loading = es[h].loading \/ h \in S]
<1>3. DOMAIN es2 = DOMAIN es /\ \A h \in DOMAIN es : es2[h] = e(h)
  BY DEF LoadsStarted
<1>4. ASSUME NEW h \in DOMAIN es
      PROVE  /\ e(h) \in Entry /\ e(h).acquires = es[h].acquires /\ e(h).occupied = es[h].occupied
             /\ e(h).id = es[h].id /\ e(h).dependencies = es[h].dependencies
             /\ e(h).state = es[h].state
             /\ e(h).loading <=> es[h].loading \/ h \in S
  <2>1. es[h] \in Entry
    BY <1>2
  <2>2. (es[h].loading \/ h \in S) \in BOOLEAN
    OBVIOUS
  <2>3. e(h) \in Entry
    BY <2>1, <2>2, EntryUpdates, Zenon
  <2>4. /\ e(h).acquires = es[h].acquires /\ e(h).occupied = es[h].occupied
        /\ e(h).id = es[h].id /\ e(h).dependencies = es[h].dependencies
        /\ e(h).state = es[h].state
        /\ e(h).loading <=> es[h].loading \/ h \in S
    BY <2>1 DEF Entry
  <2> QED  BY <2>3, <2>4
<1>5. es2 \in Seq(Entry)
  <2>1. es2 \in [1 .. Len(es) -> Entry]
    <3>1. es2 = [h \in DOMAIN es |-> e(h)]
      BY DEF LoadsStarted
    <3>2. \A h \in DOMAIN es : e(h) \in Entry
      BY <1>4
    <3> HIDE DEF e
    <3> QED  BY <1>2, <3>1, <3>2
  <2> QED  BY <1>2, <2>1, SeqDef
<1> HIDE DEF e
<1>6. SameOutline(es, es2)
  BY <1>3, <1>4 DEF SameOutline
<1>7. \A h \in DOMAIN es : es2[h].acquires = es[h].acquires
  BY <1>3, <1>4
<1>8. Kept(es2, ids, hs) /\ LiveIn(es2) = LiveIn(es)
  BY <1>5, <1>6, <1>7, OutlineKept
<1>9. ASSUME NEW g \in LiveIn(es)
      PROVE  /\ es2[g].acquires = 0 => g \in frees \cup drained \cup put
             /\ es2[g].state = "Pending" => es2[g].loading
             /\ es2[g].state = "Pending" => es2[g].dependencies = <<>>
             /\ es2[g].loading => g \in W \cup S /\ es2[g].state = "Pending"
             /\ g \in put /\ es2[g].acquires = 0 => es2[g].loading \/ g \in frees \cup drained
  <2>1. /\ es[g].acquires = 0 => g \in frees \cup drained \cup put
        /\ es[g].state = "Pending" => g \in loads \/ es[g].loading
        /\ es[g].state = "Pending" => es[g].dependencies = <<>>
        /\ es[g].loading => g \in W /\ es[g].state = "Pending"
        /\ g \in put /\ es[g].acquires = 0 => es[g].loading \/ g \in frees \cup drained
    BY DEF Minded
  <2>2. g \in S <=> g \in loads /\ es[g].state = "Pending" /\ ~es[g].loading
    OBVIOUS
  <2>3. g \in DOMAIN es
    BY <1>2
  <2>4. /\ es2[g].acquires = es[g].acquires /\ es2[g].state = es[g].state
        /\ es2[g].dependencies = es[g].dependencies
        /\ es2[g].loading <=> es[g].loading \/ g \in S
    BY <1>3, <1>4, <2>3
  <2> QED  BY <2>1, <2>2, <2>4
<1>10. ASSUME NEW g \in W \cup S PROVE g \in LiveIn(es) /\ es2[g].loading
  <2>1. CASE g \in S
    BY <1>2, <1>3, <1>4, <2>1
  <2>2. CASE g \in W
    <3>1. g \in LiveIn(es) /\ es[g].loading
      BY <2>2 DEF Minded
    <3> QED  BY <1>2, <1>3, <1>4, <3>1
  <2> QED  BY <2>1, <2>2
<1> QED  BY <1>8, <1>9, <1>10 DEF Minded

\* A step that returns.
LEMMA Returned ==
  ASSUME CacheInv, todo # <<>>, Return
  PROVE  /\ todo' \in Seq(Steps) /\ Shaped(todo') /\ Top(todo') \notin {"Link", "Free"}
         /\ Top(todo) \in {"Remove", "Link"} => Top(todo') = "Publish"
         /\ Top(todo) = "Free" => Top(todo') = "Drain"
BY ShapedTail DEF CacheInv, CacheTypes, Staged, Return, Top

LEMMA SubmitStep ==
  ASSUME CacheInv, Submit
  PROVE  CacheInv'
<1> DEFINE S == {h \in pendingLoads \cap LiveIn(entries) :
                   entries[h].state = "Pending" /\ ~entries[h].loading}
<1>1. /\ todo # <<>> /\ Top(todo) = "Submit" /\ Return
      /\ pendingLoads' = {} /\ tasks' = tasks \cup S /\ LoadsStarted(entries, S, entries')
      /\ UNCHANGED <<catalog, byId, pendingFrees, completions, locals, held>>
  BY DEF Submit, At, Top, State, Live, LiveIn, LoadsStarted
<1>2. Kept(entries, byId, held) /\ MindedNow(UnderWay) /\ CacheTypes /\ Queued
  BY DEF CacheInv
<1>3. S \subseteq Handle /\ S \cap UnderWay = {}
  BY <1>2 DEF CacheTypes, MindedNow, Minded
<1>4. Kept(entries', byId, held) /\ Minded(entries', {}, pendingFrees, draining, deferred, UnderWay \cup S)
  <2> HIDE DEF S
  <2>1. S = {h \in pendingLoads \cap LiveIn(entries) :
                   entries[h].state = "Pending" /\ ~entries[h].loading}
    BY DEF S
  <2> QED  BY <1>1, <1>2, <2>1, StartedKept DEF MindedNow
<1> HIDE DEF S
<1>5. /\ todo' \in Seq(Steps) /\ Shaped(todo') /\ Top(todo') # "Link"
      /\ publishing = <<>> /\ draining = {} /\ deferred = {}
  BY <1>1, Returned DEF CacheInv, Staged
<1>6. UnderWay' = UnderWay \cup S
  BY <1>1, <1>5, AtTop DEF locals
<1>7. MindedNow(UnderWay)' /\ Kept(entries, byId, held)'
  BY <1>1, <1>4, <1>6 DEF MindedNow, locals
<1>8. CacheTypes'
  BY <1>1, <1>2, <1>3, <1>5 DEF CacheTypes, locals
<1>9. Staged'
  BY <1>1, <1>5 DEF Staged, locals
<1>10. Queued'
  <2>1. ToSet(completions) \subseteq UnderWay /\ ToSet(publishing) = {}
    BY <1>5, EmptySet DEF UnderWay, Unpublished
  <2> QED  BY <1>1, <1>2, <1>3, <2>1 DEF Queued, locals
<1> QED  BY <1>7, <1>8, <1>9, <1>10 DEF CacheInv

LEMMA WaitStep ==
  ASSUME CacheInv, Wait
  PROVE  CacheInv'
<1>1. /\ todo # <<>> /\ Top(todo) = "Wait" /\ Return
      /\ UNCHANGED <<catalog, entries, byId, queues, work, locals, held>>
  BY DEF Wait, At, Top
<1>2. todo' \in Seq(Steps) /\ Shaped(todo') /\ Top(todo') # "Link"
  BY <1>1, Returned
<1>3. phaseError' \in BOOLEAN
  BY <1>1 DEF CacheInv, CacheTypes, locals
<1> QED  BY <1>1, <1>2, <1>3, CallStep DEF locals

LEMMA TakeCompletionsStep ==
  ASSUME CacheInv, TakeCompletions
  PROVE  CacheInv'
<1>1. /\ todo # <<>> /\ Top(todo) = "Remove" /\ Return
      /\ publishing' = completions /\ completions' = <<>>
      /\ UNCHANGED <<catalog, entries, byId, queues, tasks, linking, draining,
                     deferred, phaseError, held>>
  BY DEF TakeCompletions, At, Top
<1>2. /\ todo' \in Seq(Steps) /\ Shaped(todo') /\ Top(todo') = "Publish"
      /\ publishing = <<>> /\ draining = {} /\ deferred = {}
  BY <1>1, Returned DEF CacheInv, Staged
<1>3. Kept(entries, byId, held) /\ MindedNow(UnderWay) /\ CacheTypes /\ Queued
  BY DEF CacheInv
<1>4. UnderWay' = UnderWay
  <2>1. ToSet(<<>>) = {} /\ ToSet(publishing) = {}
    BY <1>2, EmptySet
  <2> QED  BY <1>1, <1>2, <2>1, AtTop
<1>5. MindedNow(UnderWay)' /\ Kept(entries, byId, held)'
  BY <1>1, <1>3, <1>4 DEF MindedNow, queues
<1>6. CacheTypes'
  BY <1>1, <1>2, <1>3, EmptySeq DEF CacheTypes, queues
<1>7. Staged' /\ Queued'
  BY <1>1, <1>2, <1>3, EmptySet, OnceNone DEF Staged, Queued
<1> QED  BY <1>5, <1>6, <1>7 DEF CacheInv

LEMMA AgainStep ==
  ASSUME CacheInv, Again
  PROVE  CacheInv'
<1>1. /\ todo # <<>> /\ Top(todo) = "Again"
      /\ todo' = (IF MoreToLoad THEN loadingPhase ELSE <<"Drain">>) \o Tail(todo)
      /\ UNCHANGED <<catalog, entries, byId, queues, work, locals, held>>
  BY DEF Again, At, Top
<1>2. Tail(todo) \in Seq(Steps) /\ Shaped(Tail(todo)) /\ Top(Tail(todo)) \notin {"Link", "Free"}
  BY <1>1, ShapedTail DEF CacheInv, CacheTypes, Staged
<1>3. ASSUME NEW p \in {loadingPhase, <<"Drain">>}
      PROVE  /\ p \o Tail(todo) \in Seq(Steps) /\ Shaped(p \o Tail(todo))
             /\ Top(p \o Tail(todo)) # "Link"
  <2>1. p \in Seq(Steps) /\ p # <<>> /\ Shaped(p) /\ Top(p) # "Link"
    BY ShapedCalls
  <2> QED  BY <1>2, <2>1, ShapedConcat
<1>4. todo' \in Seq(Steps) /\ Shaped(todo') /\ Top(todo') # "Link"
  BY <1>1, <1>3
<1>5. phaseError' \in BOOLEAN
  BY <1>1 DEF CacheInv, CacheTypes, locals
<1> QED  BY <1>1, <1>4, <1>5, CallStep DEF locals

\* es2 is es where the load of h has ended with the state st.
LoadEnded(es, h, st, es2) == es2 = [es EXCEPT ![h].loading = FALSE, ![h].state = st]

LEMMA PublishedKept ==
  ASSUME NEW es, NEW ids, NEW hs, Kept(es, ids, hs),
         NEW loads, NEW frees, NEW drained, NEW W, Minded(es, loads, frees, drained, {}, W),
         NEW h \in W, NEW st \in {"Ready", "Failed"}, NEW es2, LoadEnded(es, h, st, es2)
  PROVE  /\ Kept(es2, ids, hs) /\ Minded(es2, loads, frees, drained, {}, W \ {h})
         /\ h \in LiveIn(es2) /\ es2[h].state # "Pending"
<1>1. Typed(es, ids, hs)
  BY DEF Kept
<1>2. h \in LiveIn(es) /\ es[h].loading
  BY DEF Minded
<1>3. /\ es \in Seq(Entry) /\ LiveIn(es) \subseteq DOMAIN es /\ h \in DOMAIN es
      /\ \A g \in DOMAIN es : es[g] \in Entry
  BY <1>1, <1>2, EntryFields DEF Typed
<1> DEFINE e == [es[h] EXCEPT !.loading = FALSE, !.state = st]
<1>4. /\ e \in Entry /\ e.acquires = es[h].acquires /\ e.occupied = es[h].occupied
      /\ e.id = es[h].id /\ e.dependencies = es[h].dependencies
      /\ e.state = st /\ e.loading = FALSE
  <2>1. es[h] \in Entry /\ FALSE \in BOOLEAN /\ st \in ResourceStates
    BY <1>3 DEF ResourceStates
  <2>2. e \in Entry
    BY <2>1, EntryUpdates, Zenon
  <2> QED  BY <2>1, <2>2 DEF Entry
<1>5. es2 = Updated(es, h, e)
  BY <1>3 DEF LoadEnded, Updated
<1> HIDE DEF e
<1>6. /\ es2 \in Seq(Entry) /\ DOMAIN es2 = DOMAIN es /\ es2[h] = e
      /\ \A g \in DOMAIN es : g # h => es2[g] = es[g]
  BY <1>3, <1>4, <1>5, OneUpdated
<1>7. SameOutline(es, es2)
  BY <1>4, <1>6 DEF SameOutline
<1>8. \A g \in DOMAIN es : es2[g].acquires = es[g].acquires
  BY <1>4, <1>6
<1>9. Kept(es2, ids, hs) /\ LiveIn(es2) = LiveIn(es)
  BY <1>6, <1>7, <1>8, OutlineKept
<1>10. ASSUME NEW g \in LiveIn(es)
       PROVE  /\ es2[g].acquires = 0 => g \in frees \cup drained
              /\ es2[g].state = "Pending" => g \in loads \/ es2[g].loading
              /\ es2[g].state = "Pending" => es2[g].dependencies = <<>>
              /\ es2[g].loading => g \in W \ {h} /\ es2[g].state = "Pending"
  <2>1. /\ es[g].acquires = 0 => g \in frees \cup drained
        /\ es[g].state = "Pending" => g \in loads \/ es[g].loading
        /\ es[g].state = "Pending" => es[g].dependencies = <<>>
        /\ es[g].loading => g \in W /\ es[g].state = "Pending"
    BY DEF Minded
  <2>2. CASE g = h
    BY <1>3, <1>4, <1>6, <2>1, <2>2
  <2>3. CASE g # h
    <3>1. es2[g] = es[g]
      BY <1>3, <1>6, <2>3
    <3> QED  BY <2>1, <2>3, <3>1
  <2> QED  BY <2>2, <2>3
<1>11. ASSUME NEW g \in W \ {h} PROVE g \in LiveIn(es) /\ es2[g].loading
  <2>1. g \in LiveIn(es) /\ es[g].loading
    BY DEF Minded
  <2> QED  BY <1>3, <1>6, <2>1
<1>12. Minded(es2, loads, frees, drained, {}, W \ {h})
  BY <1>9, <1>10, <1>11 DEF Minded
<1>13. h \in LiveIn(es2) /\ es2[h].state # "Pending"
  BY <1>2, <1>4, <1>6, <1>9
<1> QED  BY <1>9, <1>12, <1>13

LEMMA PublishStep ==
  ASSUME CacheInv, Publish
  PROVE  CacheInv'
<1>0. Kept(entries, byId, held) /\ MindedNow(UnderWay) /\ CacheTypes /\ Queued /\ Staged
  BY DEF CacheInv
<1>1. /\ todo # <<>> /\ Top(todo) = "Publish"
      /\ UNCHANGED <<catalog, byId, queues, work, draining, deferred, held>>
      /\ draining = {} /\ deferred = {} /\ Top(todo) # "Link"
  BY <1>0 DEF Publish, At, Top, Staged
<1>2. CASE publishing = <<>> /\ Return /\ UNCHANGED <<entries, publishing, linking, phaseError>>
  <2>1. todo' \in Seq(Steps) /\ Shaped(todo') /\ Top(todo') # "Link"
    BY <1>1, <1>2, Returned
  <2>2. UnderWay' = UnderWay
    BY <1>1, <1>2, <2>1, AtTop DEF work
  <2>3. CacheTypes' /\ Queued'
    BY <1>0, <1>1, <1>2, <2>1 DEF CacheTypes, Queued, work, queues
  <2>4. Staged'
    BY <1>0, <1>1, <1>2, <2>1 DEF Staged, work, queues
  <2> QED  BY <1>0, <1>1, <1>2, <2>2, <2>3, <2>4 DEF CacheInv, MindedNow, queues
<1>3. CASE publishing # <<>>
  <2> DEFINE h == Head(publishing)
  <2>1. /\ Tail(publishing) \in Seq(Handle) /\ h \in Handle
        /\ ToSet(publishing) = {h} \cup ToSet(Tail(publishing))
        /\ Once(Tail(publishing)) /\ h \notin ToSet(Tail(publishing))
    BY <1>0, <1>3, TailOf, OnceTail DEF CacheTypes, Queued
  <2>2. UnderWay = tasks \cup ToSet(completions) \cup ToSet(publishing)
    BY <1>1, AtTop
  <2>3. h \in UnderWay /\ UnderWay \ {h} = tasks \cup ToSet(completions) \cup ToSet(Tail(publishing))
    BY <1>0, <2>1, <2>2 DEF Queued
  <2>4. h \in LiveIn(entries)
    BY <1>0, <2>3 DEF MindedNow, Minded
  <2>5. Minded(entries, pendingLoads, pendingFrees, draining, {}, UnderWay)
    BY <1>0, <1>1 DEF MindedNow
  <2> HIDE DEF h
  <2>6. CASE /\ entries' = Published(h, "Failed")
             /\ publishing' = Tail(publishing)
             /\ phaseError' = TRUE
             /\ UNCHANGED <<todo, linking>>
    <3>1. LoadEnded(entries, h, "Failed", entries')
      BY <2>6 DEF Published, LoadEnded
    <3>2. Kept(entries', byId, held) /\ Minded(entries', pendingLoads, pendingFrees, draining, {}, UnderWay \ {h})
      BY <1>0, <2>3, <2>5, <3>1, PublishedKept
    <3>3. UnderWay' = UnderWay \ {h}
      BY <1>1, <2>3, <2>6, AtTop DEF work
    <3>4. Kept(entries, byId, held)' /\ MindedNow(UnderWay)'
      BY <1>1, <3>2, <3>3 DEF MindedNow, queues
    <3>5. CacheTypes'
      BY <1>0, <1>1, <2>1, <2>6 DEF CacheTypes, queues, work
    <3>6. Queued'
      BY <1>0, <1>1, <2>1, <2>6 DEF Queued, work
    <3>7. Staged'
      BY <1>0, <1>1, <2>6 DEF Staged
    <3> QED  BY <3>4, <3>5, <3>6, <3>7 DEF CacheInv
  <2>7. CASE /\ entries' = Published(h, "Ready")
             /\ linking' = catalog[entries[h].id].refs
             /\ todo' = <<"Link">> \o todo
             /\ UNCHANGED <<publishing, phaseError>>
    <3>1. LoadEnded(entries, h, "Ready", entries')
      BY <2>7 DEF Published, LoadEnded
    <3>2. /\ Kept(entries', byId, held) /\ Minded(entries', pendingLoads, pendingFrees, draining, {}, UnderWay \ {h})
          /\ h \in LiveIn(entries') /\ entries'[h].state # "Pending"
      BY <1>0, <2>3, <2>5, <3>1, PublishedKept
    <3>3. todo' \in Seq(Steps) /\ Shaped(todo') /\ Top(todo') = "Link"
      <4>1. todo \in Seq(Steps) /\ Shaped(todo) /\ "Link" \in Steps
        BY <1>0 DEF CacheTypes, Staged, Steps, CacheSteps, SceneSteps
      <4>2. <<"Link">> \o todo \in Seq(Steps) /\ Shaped(<<"Link">> \o todo) /\ Top(<<"Link">> \o todo) = "Link"
        BY <1>1, <4>1, ShapedPush
      <4> QED  BY <2>7, <4>2
    <3>4. UnderWay' = UnderWay \ {h}
      BY <1>1, <2>3, <2>7, <3>3, AtTop DEF work
    <3>5. Kept(entries, byId, held)' /\ MindedNow(UnderWay)'
      BY <1>1, <3>2, <3>4 DEF MindedNow, queues
    <3>6. linking' \in Seq(Ids)
      <4>1. catalog \in [Ids -> Asset] /\ entries[h].id \in Ids
        <5>1. Typed(entries, byId, held)
          BY <1>0 DEF Kept
        <5> QED  BY <1>0, <2>4, <5>1, EntryFields, CatalogsAssumption DEF CacheTypes
      <4> QED  BY <2>7, <4>1 DEF Asset
    <3>7. CacheTypes'
      BY <1>0, <1>1, <2>7, <3>3, <3>6 DEF CacheTypes, queues, work
    <3>8. Queued'
      BY <1>0, <1>1, <2>7 DEF Queued, work
    <3>9. Staged'
      BY <1>1, <1>3, <2>7, <3>2, <3>3 DEF Staged, h
    <3> QED  BY <3>5, <3>7, <3>8, <3>9 DEF CacheInv
  <2>8. h \in Live
    BY <2>4 DEF Live, LiveIn
  <2> QED  BY <1>3, <2>6, <2>7, <2>8, Zenon DEF Publish, h
<1> QED  BY <1>2, <1>3, Zenon DEF Publish

\* es2 is es where h has failed.
LoadFailed(es, h, es2) == es2 = [es EXCEPT ![h].state = "Failed", ![h].error = TRUE]

LEMMA FailedKept ==
  ASSUME NEW es, NEW ids, NEW hs, Kept(es, ids, hs),
         NEW loads, NEW frees, NEW drained, NEW put, NEW W, Minded(es, loads, frees, drained, put, W),
         NEW h \in LiveIn(es), es[h].state # "Pending", NEW es2, LoadFailed(es, h, es2)
  PROVE  Kept(es2, ids, hs) /\ Minded(es2, loads, frees, drained, put, W)
<1>1. Typed(es, ids, hs)
  BY DEF Kept
<1>2. /\ es \in Seq(Entry) /\ LiveIn(es) \subseteq DOMAIN es /\ h \in DOMAIN es
      /\ \A g \in DOMAIN es : es[g] \in Entry
  BY <1>1, EntryFields DEF Typed
<1> DEFINE e == [es[h] EXCEPT !.state = "Failed", !.error = TRUE]
<1>3. /\ e \in Entry /\ e.acquires = es[h].acquires /\ e.occupied = es[h].occupied
      /\ e.id = es[h].id /\ e.dependencies = es[h].dependencies
      /\ e.state = "Failed" /\ e.loading = es[h].loading
  <2>1. es[h] \in Entry /\ TRUE \in BOOLEAN /\ "Failed" \in ResourceStates
    BY <1>2 DEF ResourceStates
  <2>2. e \in Entry
    BY <2>1, EntryUpdates, Zenon
  <2> QED  BY <2>1, <2>2 DEF Entry
<1>4. es2 = Updated(es, h, e)
  BY <1>2 DEF LoadFailed, Updated
<1> HIDE DEF e
<1>5. /\ es2 \in Seq(Entry) /\ DOMAIN es2 = DOMAIN es /\ es2[h] = e
      /\ \A g \in DOMAIN es : g # h => es2[g] = es[g]
  BY <1>2, <1>3, <1>4, OneUpdated
<1>6. SameOutline(es, es2)
  BY <1>3, <1>5 DEF SameOutline
<1>7. \A g \in DOMAIN es : es2[g].acquires = es[g].acquires
  BY <1>3, <1>5
<1>8. Kept(es2, ids, hs) /\ LiveIn(es2) = LiveIn(es)
  BY <1>5, <1>6, <1>7, OutlineKept
<1>9. ASSUME NEW g \in LiveIn(es)
      PROVE  /\ es2[g].acquires = 0 => g \in frees \cup drained \cup put
             /\ es2[g].state = "Pending" => g \in loads \/ es2[g].loading
             /\ es2[g].state = "Pending" => es2[g].dependencies = <<>>
             /\ es2[g].loading => g \in W /\ es2[g].state = "Pending"
             /\ g \in put /\ es2[g].acquires = 0 => es2[g].loading \/ g \in frees \cup drained
  <2>1. /\ es[g].acquires = 0 => g \in frees \cup drained \cup put
        /\ es[g].state = "Pending" => g \in loads \/ es[g].loading
        /\ es[g].state = "Pending" => es[g].dependencies = <<>>
        /\ es[g].loading => g \in W /\ es[g].state = "Pending"
        /\ g \in put /\ es[g].acquires = 0 => es[g].loading \/ g \in frees \cup drained
    BY DEF Minded
  <2>2. CASE g = h
    BY <1>2, <1>3, <1>5, <2>1, <2>2
  <2>3. CASE g # h
    <3>1. es2[g] = es[g]
      BY <1>2, <1>5, <2>3
    <3> QED  BY <2>1, <2>3, <3>1
  <2> QED  BY <2>2, <2>3
<1>10. ASSUME NEW g \in W PROVE g \in LiveIn(es) /\ es2[g].loading
  <2>1. g \in LiveIn(es) /\ es[g].loading
    BY DEF Minded
  <2> QED  BY <1>2, <1>3, <1>5, <2>1
<1> QED  BY <1>8, <1>9, <1>10 DEF Minded

LEMMA LinkStep ==
  ASSUME CacheInv, Link
  PROVE  CacheInv'
<1> DEFINE h == Head(publishing)
<1>0. Kept(entries, byId, held) /\ MindedNow(UnderWay) /\ CacheTypes /\ Queued /\ Staged
  BY DEF CacheInv
<1>1. /\ todo # <<>> /\ Top(todo) = "Link"
      /\ UNCHANGED <<catalog, work, draining, deferred, held>>
  BY DEF Link, At, Top
<1>2. /\ publishing # <<>> /\ h \in LiveIn(entries) /\ entries[h].state # "Pending"
      /\ draining = {} /\ deferred = {}
  BY <1>0, <1>1 DEF Staged
<1>3. /\ Tail(publishing) \in Seq(Handle) /\ Once(Tail(publishing))
      /\ ToSet(Tail(publishing)) \subseteq ToSet(publishing)
  BY <1>0, <1>2, TailOf, OnceTail DEF CacheTypes, Queued
<1>4. UnderWay = tasks \cup ToSet(completions) \cup ToSet(Tail(publishing))
  BY <1>1, AtTop
<1>5. Return => todo' \in Seq(Steps) /\ Shaped(todo') /\ Top(todo') = "Publish"
  BY <1>1, Returned
<1> HIDE DEF h
<1>6. ASSUME Return, publishing' = Tail(publishing)
      PROVE  UnderWay' = UnderWay /\ Queued' /\ Staged'
  <2>1. UnderWay' = UnderWay
    BY <1>1, <1>4, <1>5, <1>6, AtTop DEF work
  <2>2. Queued'
    BY <1>0, <1>1, <1>3, <1>6 DEF Queued, work
  <2>3. Staged'
    BY <1>1, <1>2, <1>5, <1>6 DEF Staged
  <2> QED  BY <2>1, <2>2, <2>3
<1>7. CASE /\ linking = <<>>
           /\ publishing' = Tail(publishing)
           /\ Return
           /\ UNCHANGED <<entries, byId, queues, linking, phaseError>>
  <2>1. CacheTypes'
    BY <1>0, <1>1, <1>3, <1>5, <1>7 DEF CacheTypes, queues, work
  <2> QED  BY <1>0, <1>1, <1>6, <1>7, <2>1 DEF CacheInv, MindedNow, queues
<1>8. CASE /\ linking # <<>>
           /\ Linked(h, Head(linking))
           /\ linking' = Tail(linking)
           /\ UNCHANGED <<todo, publishing, phaseError>>
  <2>1. Head(linking) \in Ids /\ Tail(linking) \in Seq(Ids)
    BY <1>0, <1>8, TailOf DEF CacheTypes
  <2>2. Effect /\ h \in LiveIn(entries') /\ entries'[h].state # "Pending"
    BY <1>1, <1>2, <1>8, <2>1, LinkedEffect
  <2>3. UnderWay' = UnderWay
    BY <1>1, <1>8, AtTop DEF work
  <2>4. Kept(entries, byId, held)' /\ MindedNow(UnderWay)'
    BY <1>1, <2>2, <2>3 DEF Effect, MindedNow
  <2>5. CacheTypes'
    BY <1>0, <1>1, <1>8, <2>1, <2>2 DEF CacheTypes, Effect, work
  <2>6. Queued'
    BY <1>0, <1>1, <1>8 DEF Queued, work
  <2>7. Staged'
    BY <1>0, <1>1, <1>2, <1>8, <2>2 DEF Staged, h
  <2> QED  BY <2>4, <2>5, <2>6, <2>7 DEF CacheInv
<1>9. CASE /\ entries' = [entries EXCEPT ![h].state = "Failed", ![h].error = TRUE]
           /\ pendingFrees' = RefusedFrees(Head(linking))
           /\ linking' = <<>>
           /\ publishing' = Tail(publishing)
           /\ phaseError' = TRUE
           /\ Return
           /\ UNCHANGED <<byId, pendingLoads>>
  <2>1. LoadFailed(entries, h, entries')
    BY <1>9 DEF LoadFailed
  <2>2. Kept(entries', byId, held) /\ Minded(entries', pendingLoads, pendingFrees, draining, deferred, UnderWay)
    BY <1>0, <1>2, <2>1, FailedKept DEF MindedNow
  <2>3. pendingFrees \subseteq pendingFrees' /\ pendingFrees' \subseteq Handle
    BY <1>9, RefusedFreesMore
  <2>4. Minded(entries', pendingLoads, pendingFrees', draining, deferred, UnderWay)
    BY <2>2, <2>3, MoreQueued
  <2>5. Kept(entries, byId, held)' /\ MindedNow(UnderWay)'
    BY <1>1, <1>6, <1>9, <2>2, <2>4 DEF MindedNow
  <2>6. CacheTypes'
    BY <1>0, <1>1, <1>3, <1>5, <1>9, <2>3, EmptySeq DEF CacheTypes, work
  <2> QED  BY <1>6, <1>9, <2>5, <2>6 DEF CacheInv
<1> QED  BY <1>7, <1>8, <1>9, Zenon DEF Link, h

LEMMA DrainStep ==
  ASSUME CacheInv, Drain
  PROVE  CacheInv'
<1>0. Kept(entries, byId, held) /\ MindedNow(UnderWay) /\ CacheTypes /\ Queued /\ Staged
  BY DEF CacheInv
<1>1. /\ todo # <<>> /\ Top(todo) = "Drain"
      /\ UNCHANGED <<catalog, entries, byId, pendingLoads, work, publishing, linking,
                     phaseError, held>>
  BY DEF Drain, At, Top
<1>2. publishing = <<>> /\ draining = {}
  BY <1>0, <1>1 DEF Staged
<1>3. Minded(entries, pendingLoads, pendingFrees, {}, deferred, UnderWay)
  BY <1>0, <1>2 DEF MindedNow
<1>4. ASSUME todo' = <<"Free">> \o todo
      PROVE  todo' \in Seq(Steps) /\ Shaped(todo') /\ Top(todo') = "Free"
  <2>1. todo \in Seq(Steps) /\ Shaped(todo) /\ "Free" \in Steps
    BY <1>0 DEF CacheTypes, Staged, Steps, CacheSteps, SceneSteps
  <2>2. /\ <<"Free">> \o todo \in Seq(Steps) /\ Shaped(<<"Free">> \o todo)
        /\ Top(<<"Free">> \o todo) = "Free"
    BY <1>1, <2>1, ShapedPush
  <2> QED  BY <1>4, <2>2
<1>5. UnderWay' = UnderWay
  <2>1. Top(todo') # "Link"
    BY <1>1, <1>4, Returned DEF Drain
  <2> QED  BY <1>1, <2>1, AtTop DEF work
<1>6. Queued'
  BY <1>0, <1>1 DEF Queued, work
<1>7. CASE /\ pendingFrees = {}
           /\ pendingFrees' = deferred /\ deferred' = {} /\ Return /\ draining' = draining
  <2>1. todo' \in Seq(Steps) /\ Shaped(todo') /\ Top(todo') # "Link"
    BY <1>1, <1>7, Returned
  <2>2. Minded(entries, pendingLoads, deferred, {}, {}, UnderWay)
    BY <1>3, <1>7 DEF Minded
  <2>3. Kept(entries, byId, held)' /\ MindedNow(UnderWay)'
    BY <1>0, <1>1, <1>2, <1>5, <1>7, <2>2 DEF MindedNow
  <2>4. CacheTypes'
    BY <1>0, <1>1, <1>7, <2>1 DEF CacheTypes, work
  <2>5. Staged'
    BY <1>1, <1>2, <1>7, <2>1 DEF Staged
  <2> QED  BY <1>6, <2>3, <2>4, <2>5 DEF CacheInv
<1>8. CASE /\ draining' = pendingFrees /\ pendingFrees' = {}
           /\ todo' = <<"Free">> \o todo /\ deferred' = deferred
  <2>1. todo' \in Seq(Steps) /\ Shaped(todo') /\ Top(todo') = "Free"
    BY <1>8, <1>4
  <2>2. Minded(entries, pendingLoads, {}, pendingFrees, deferred, UnderWay)
    BY <1>3 DEF Minded
  <2>3. Kept(entries, byId, held)' /\ MindedNow(UnderWay)'
    BY <1>0, <1>1, <1>5, <1>8, <2>2 DEF MindedNow
  <2>4. CacheTypes'
    BY <1>0, <1>1, <1>8, <2>1 DEF CacheTypes, work
  <2>5. Staged'
    BY <1>1, <1>2, <1>8, <2>1 DEF Staged
  <2> QED  BY <1>6, <2>3, <2>4, <2>5 DEF CacheInv
<1> QED  BY <1>7, <1>8 DEF Drain

LEMMA FreeStep ==
  ASSUME CacheInv, Free
  PROVE  CacheInv'
<1>0. Kept(entries, byId, held) /\ MindedNow(UnderWay) /\ CacheTypes /\ Queued /\ Staged
  BY DEF CacheInv
<1>1. /\ todo # <<>> /\ Top(todo) = "Free"
      /\ UNCHANGED <<catalog, pendingLoads, work, publishing, linking, phaseError, held>>
  BY DEF Free, At, Top
<1>2. publishing = <<>>
  BY <1>0, <1>1 DEF Staged
<1>3. Queued'
  BY <1>0, <1>1 DEF Queued, work
<1>4. CASE draining = {} /\ Return /\ UNCHANGED <<entries, byId, pendingFrees, draining, deferred>>
  <2>1. todo' \in Seq(Steps) /\ Shaped(todo') /\ Top(todo') = "Drain"
    BY <1>1, <1>4, Returned
  <2>2. UnderWay' = UnderWay
    BY <1>1, <2>1, AtTop DEF work
  <2>3. Kept(entries, byId, held)' /\ MindedNow(UnderWay)'
    BY <1>0, <1>1, <1>4, <2>2 DEF MindedNow
  <2>4. CacheTypes'
    BY <1>0, <1>1, <1>4, <2>1 DEF CacheTypes, work
  <2>5. Staged'
    BY <1>1, <1>2, <1>4, <2>1 DEF Staged
  <2> QED  BY <1>3, <2>3, <2>4, <2>5 DEF CacheInv
<1>5. ASSUME NEW h \in draining, draining' = draining \ {h}, UNCHANGED todo,
             Kept(entries', byId', held),
             Minded(entries', pendingLoads, pendingFrees', draining \ {h}, deferred', UnderWay),
             pendingFrees' \subseteq Handle, deferred' \subseteq Handle
      PROVE  CacheInv'
  <2>1. UnderWay' = UnderWay
    BY <1>1, <1>5, AtTop DEF work
  <2>2. Kept(entries, byId, held)' /\ MindedNow(UnderWay)'
    BY <1>1, <1>5, <2>1 DEF MindedNow
  <2>3. CacheTypes'
    BY <1>0, <1>1, <1>5 DEF CacheTypes, work
  <2>4. Staged'
    BY <1>0, <1>1, <1>2, <1>5 DEF Staged
  <2> QED  BY <1>3, <2>2, <2>3, <2>4 DEF CacheInv
<1>6. ASSUME NEW h \in draining, draining' = draining \ {h}, UNCHANGED todo,
             \/ /\ h \notin Live
                /\ UNCHANGED <<entries, byId, pendingFrees, deferred>>
             \/ /\ h \in Live /\ MustStay(h)
                /\ deferred' = deferred \cup {h}
                /\ UNCHANGED <<entries, byId, pendingFrees>>
             \/ /\ h \in Live /\ ~MustStay(h)
                /\ FreeEntry(h)
                /\ UNCHANGED deferred
      PROVE  CacheInv'
  <2>1. CASE h \notin Live /\ UNCHANGED <<entries, byId, pendingFrees, deferred>>
    <3>1. h \notin LiveIn(entries)
      BY <2>1 DEF Live, LiveIn
    <3>2. Minded(entries, pendingLoads, pendingFrees, draining \ {h}, deferred, UnderWay)
      BY <1>0, <3>1 DEF MindedNow, Minded
    <3> QED  BY <1>0, <1>5, <1>6, <2>1, <3>2 DEF CacheTypes
  <2>2. CASE /\ h \in Live /\ MustStay(h) /\ deferred' = deferred \cup {h}
             /\ UNCHANGED <<entries, byId, pendingFrees>>
    <3>1. entries[h].acquires = 0 => entries[h].loading
      BY <2>2 DEF MustStay, Acquires
    <3>2. Minded(entries, pendingLoads, pendingFrees, draining \ {h}, deferred \cup {h}, UnderWay)
      BY <1>0, <3>1 DEF MindedNow, Minded
    <3> QED  BY <1>0, <1>5, <1>6, <2>2, <3>2 DEF CacheTypes
  <2>3. CASE h \in Live /\ ~MustStay(h) /\ FreeEntry(h) /\ UNCHANGED deferred
    <3>1. Typed(entries, byId, held)
      BY <1>0 DEF Kept
    <3>2. h \in LiveIn(entries) /\ LiveIn(entries) \subseteq Handle
      BY <2>3, <3>1, EntryFields DEF Live, LiveIn
    <3>3. entries[h].acquires = 0 /\ ~entries[h].loading
      <4>1. entries[h].acquires \in Nat
        BY <3>1, <3>2, EntryFields
      <4>2. \A n \in Nat : ~(n > 0) => n = 0
        OBVIOUS
      <4> QED  BY <2>3, <4>1, <4>2 DEF MustStay, Acquires
    <3>4. FreedIn(entries, h, entries') /\ LeftIn(entries, byId, h, byId')
      BY <2>3 DEF FreeEntry, Freed, FreedIn, LeftIn, Edges, Named, Dependencies
    <3>5. pendingFrees' = pendingFrees \cup GivenUp(entries, h)
      BY <2>3 DEF FreeEntry, Unused, GivenUp, Edges, Named, Dependencies, Live, LiveIn,
           Acquires
    <3>6. /\ Kept(entries', byId', held)
          /\ Minded(entries', pendingLoads, pendingFrees', draining \ {h}, deferred, UnderWay)
      BY <1>0, <3>2, <3>3, <3>4, <3>5, FreedKept DEF MindedNow
    <3>7. pendingFrees' \subseteq Handle /\ deferred' = deferred
      BY <1>0, <2>3, <3>2, <3>5 DEF CacheTypes, GivenUp
    <3> QED  BY <1>0, <1>5, <1>6, <3>6, <3>7 DEF CacheTypes
  <2> QED  BY <1>6, <2>1, <2>2, <2>3
<1> QED  BY <1>4, <1>6 DEF Free

\* es2 is es where the asset of h is read, or fails to be.
LoadRead(es, h, es2) ==
    \/ es2 = [es EXCEPT ![h].error = TRUE]
    \/ es2 = [es EXCEPT ![h].error = FALSE, ![h].payload = "Fresh"]

\* e2 is e with other bytes.
SameButBytes(e, e2) ==
    /\ e2.acquires = e.acquires /\ e2.occupied = e.occupied
    /\ e2.id = e.id /\ e2.dependencies = e.dependencies
    /\ e2.state = e.state /\ e2.loading = e.loading

LEMMA BytesChangeKept ==
  ASSUME NEW es, NEW ids, NEW hs, Kept(es, ids, hs), NEW h \in LiveIn(es),
         NEW e \in Entry, SameButBytes(es[h], e), NEW es2, es2 = Updated(es, h, e),
         NEW loads, NEW frees, NEW drained, NEW put, NEW W, Minded(es, loads, frees, drained, put, W)
  PROVE  /\ Kept(es2, ids, hs) /\ Minded(es2, loads, frees, drained, put, W)
         /\ \A g \in LiveIn(es) : g \in LiveIn(es2) /\ es2[g].state = es[g].state
<1>1. Typed(es, ids, hs)
  BY DEF Kept
<1>2. /\ es \in Seq(Entry) /\ LiveIn(es) \subseteq DOMAIN es /\ h \in DOMAIN es /\ es[h] \in Entry
  BY <1>1, EntryFields DEF Typed
<1>3. /\ e.acquires = es[h].acquires /\ e.occupied = es[h].occupied
      /\ e.id = es[h].id /\ e.dependencies = es[h].dependencies
      /\ e.state = es[h].state /\ e.loading = es[h].loading
  BY DEF SameButBytes
<1>4. /\ es2 \in Seq(Entry) /\ DOMAIN es2 = DOMAIN es /\ es2[h] = e
      /\ \A g \in DOMAIN es : g # h => es2[g] = es[g]
  BY <1>2, OneUpdated
<1>5. SameOutline(es, es2)
  BY <1>3, <1>4 DEF SameOutline
<1>6. \A g \in DOMAIN es : es2[g].acquires = es[g].acquires
  BY <1>3, <1>4
<1>7. Kept(es2, ids, hs) /\ LiveIn(es2) = LiveIn(es)
  BY <1>4, <1>5, <1>6, OutlineKept
<1>8. MoreUsed(es, es2)
  BY <1>2, <1>3, <1>4 DEF MoreUsed
<1>9. Minded(es2, loads, frees, drained, put, W)
  BY <1>7, <1>8, MoreMinded
<1> QED  BY <1>7, <1>8, <1>9 DEF MoreUsed

\* What becomes of the entry of a load, and of one whose bytes are taken.
LEMMA OtherBytes ==
  ASSUME NEW e \in Entry
  PROVE  /\ [e EXCEPT !.error = TRUE] \in Entry /\ SameButBytes(e, [e EXCEPT !.error = TRUE])
         /\ [e EXCEPT !.error = FALSE, !.payload = "Fresh"] \in Entry
         /\ SameButBytes(e, [e EXCEPT !.error = FALSE, !.payload = "Fresh"])
         /\ [e EXCEPT !.payload = "Taken"] \in Entry
         /\ SameButBytes(e, [e EXCEPT !.payload = "Taken"])
<1>1. /\ SameButBytes(e, [e EXCEPT !.error = TRUE])
      /\ SameButBytes(e, [e EXCEPT !.error = FALSE, !.payload = "Fresh"])
      /\ SameButBytes(e, [e EXCEPT !.payload = "Taken"])
  BY DEF SameButBytes, Entry
<1>2. /\ [e EXCEPT !.error = TRUE] \in Entry
      /\ [e EXCEPT !.error = FALSE, !.payload = "Fresh"] \in Entry
      /\ [e EXCEPT !.payload = "Taken"] \in Entry
  BY EntryUpdates, Zenon
<1> QED  BY <1>1, <1>2

LEMMA ReadKept ==
  ASSUME NEW es, NEW ids, NEW hs, Kept(es, ids, hs), NEW h \in LiveIn(es), NEW es2, LoadRead(es, h, es2),
         NEW loads, NEW frees, NEW drained, NEW put, NEW W, Minded(es, loads, frees, drained, put, W)
  PROVE  /\ Kept(es2, ids, hs) /\ Minded(es2, loads, frees, drained, put, W)
         /\ \A g \in LiveIn(es) : g \in LiveIn(es2) /\ es2[g].state = es[g].state
<1>1. /\ es \in Seq(Entry) /\ LiveIn(es) \subseteq DOMAIN es /\ h \in DOMAIN es /\ es[h] \in Entry
  BY EntryFields DEF Kept, Typed
<1>2. PICK e \in Entry : es2 = Updated(es, h, e) /\ SameButBytes(es[h], e)
  <2>1. CASE es2 = [es EXCEPT ![h].error = TRUE]
    <3>1. es2 = Updated(es, h, [es[h] EXCEPT !.error = TRUE])
      BY <1>1, <2>1 DEF Updated
    <3> QED  BY <1>1, <3>1, OtherBytes
  <2>2. CASE es2 = [es EXCEPT ![h].error = FALSE, ![h].payload = "Fresh"]
    <3>1. es2 = Updated(es, h, [es[h] EXCEPT !.error = FALSE, !.payload = "Fresh"])
      BY <1>1, <2>2 DEF Updated
    <3> QED  BY <1>1, <3>1, OtherBytes
  <2> QED  BY <2>1, <2>2 DEF LoadRead
<1> QED  BY <1>2, BytesChangeKept

LEMMA RunLoadTaskStep ==
  ASSUME CacheInv, NEW h \in Handle, RunLoadTask(h)
  PROVE  CacheInv'
<1>0. Kept(entries, byId, held) /\ MindedNow(UnderWay) /\ CacheTypes /\ Queued /\ Staged
  BY DEF CacheInv
<1>1. /\ h \in tasks /\ tasks' = tasks \ {h} /\ completions' = Append(completions, h)
      /\ LoadRead(entries, h, entries')
      /\ UNCHANGED <<catalog, byId, queues, todo, locals, held>>
  BY DEF RunLoadTask, LoadRead
<1>2. h \in LiveIn(entries)
  BY <1>0, <1>1 DEF MindedNow, Minded, UnderWay
<1>3. /\ Kept(entries', byId, held)
      /\ Minded(entries', pendingLoads, pendingFrees, draining, deferred, UnderWay)
      /\ \A g \in LiveIn(entries) : g \in LiveIn(entries') /\ entries'[g].state = entries[g].state
  BY <1>0, <1>1, <1>2, ReadKept DEF MindedNow
<1>4. /\ ToSet(completions') = ToSet(completions) \cup {h} /\ completions' \in Seq(Handle)
      /\ h \notin ToSet(completions) /\ Once(completions')
  <2>1. completions \in Seq(Handle) /\ Once(completions) /\ h \notin ToSet(completions)
    BY <1>0, <1>1 DEF CacheTypes, Queued
  <2>2. ToSet(Append(completions, h)) = ToSet(completions) \cup {h}
    BY <2>1, AppendedSet
  <2> QED  BY <1>1, <2>1, <2>2, OnceAppended, AppendProperties
<1>5. UnderWay' = UnderWay
  BY <1>1, <1>4, AtTop DEF locals
<1>6. Kept(entries, byId, held)' /\ MindedNow(UnderWay)'
  BY <1>1, <1>3, <1>5 DEF MindedNow, queues, locals
<1>7. CacheTypes'
  BY <1>0, <1>1, <1>4 DEF CacheTypes, queues, locals
<1>8. Queued'
  BY <1>0, <1>1, <1>4 DEF Queued, locals
<1>9. Staged'
  BY <1>0, <1>1, <1>3 DEF Staged, locals
<1> QED  BY <1>6, <1>7, <1>8, <1>9 DEF CacheInv

LEMMA OwnerStepStep ==
  ASSUME CacheInv, OwnerStep
  PROVE  CacheInv'
BY SubmitStep, WaitStep, TakeCompletionsStep, PublishStep, LinkStep, AgainStep, DrainStep,
     FreeStep
   DEF OwnerStep

LEMMA CacheInitially == Init => CacheInv
<1> SUFFICES ASSUME Init PROVE CacheInv
  OBVIOUS
<1>1. /\ entries = <<>> /\ byId = [id \in Ids |-> NoHandle] /\ held = [h \in Handle |-> 0]
      /\ catalog \in Catalogs /\ pendingLoads = {} /\ pendingFrees = {} /\ tasks = {}
      /\ completions = <<>> /\ todo = <<>> /\ publishing = <<>> /\ linking = <<>>
      /\ draining = {} /\ deferred = {} /\ phaseError = FALSE
  BY DEF Init
<1>2. LiveIn(entries) = {} /\ DOMAIN Deps(entries) = {}
  BY <1>1, EmptySet DEF LiveIn, Deps
<1>3. Typed(entries, byId, held)
  <2>1. <<>> \in Seq(Entry) /\ Len(<<>>) = 0
    BY EmptySeq
  <2>2. MaxHandles \in Nat
    BY BoundsAssumption
  <2>3. Len(entries) <= MaxHandles
    BY <1>1, <2>1, <2>2
  <2> QED  BY <1>1, <2>1, <2>3 DEF Typed
<1>4. Kept(entries, byId, held)
  <2>1. IndexedIn(entries, byId)
    BY <1>1, <1>2 DEF IndexedIn
  <2>2. \A h \in Handle : ~(held[h] > 0)
    BY <1>1
  <2>3. CountedIn(entries, held)
    BY <1>2, <2>2 DEF CountedIn
  <2>4. AcyclicIn(Deps(entries))
    BY <1>2 DEF AcyclicIn
  <2> QED  BY <1>3, <2>1, <2>3, <2>4 DEF Kept
<1>5. CacheTypes
  BY <1>1, EmptySeq DEF CacheTypes
<1>6. Top(todo) = "None" /\ Shaped(todo)
  <2>1. Len(<<>>) = 0
    BY EmptySeq
  <2>2. \A k \in 1 .. 0 : FALSE
    OBVIOUS
  <2> QED  BY <1>1, <2>1, <2>2 DEF Top, Shaped
<1>7. UnderWay = {}
  BY <1>1, <1>6, EmptySet, AtTop
<1>8. MindedNow(UnderWay)
  BY <1>2, <1>7 DEF MindedNow, Minded
<1>9. Staged /\ Queued
  BY <1>1, <1>6, EmptySet, OnceNone DEF Staged, Queued
<1> QED  BY <1>4, <1>5, <1>8, <1>9 DEF CacheInv

\* Clients hold what they may.
Bounded == held \in [Handle -> 0 .. MaxHolds]

LEMMA MoreBounded ==
  ASSUME Bounded, NEW h \in Handle, held[h] < MaxHolds, MoreHeld(held, h, held')
  PROVE  Bounded'
<1>1. held[h] \in 0 .. MaxHolds /\ MaxHolds \in Nat
  BY BoundsAssumption DEF Bounded
<1>2. held[h] + 1 \in 0 .. MaxHolds
  BY <1>1
<1> QED  BY <1>2 DEF Bounded, MoreHeld

LEMMA LessBounded ==
  ASSUME Bounded, NEW h \in Handle, held[h] > 0, LessHeld(held, h, held')
  PROVE  Bounded'
<1>1. held[h] \in 0 .. MaxHolds /\ MaxHolds \in Nat
  BY BoundsAssumption DEF Bounded
<1>2. held[h] - 1 \in 0 .. MaxHolds
  BY <1>1
<1> QED  BY <1>2 DEF Bounded, LessHeld

LEMMA CacheStepBounded ==
  ASSUME Bounded, Next
  PROVE  Bounded'
<1>2. CASE \E id \in Ids : Request(id)
  <2>1. PICK h \in Handle : held[h] < MaxHolds /\ MoreHeld(held, h, held')
    BY <1>2 DEF Request, MoreHeld
  <2> QED  BY <2>1, MoreBounded
<1>3. CASE \E h \in Handle : Release(h)
  <2>1. PICK h \in Handle : held[h] > 0 /\ LessHeld(held, h, held')
    BY <1>3 DEF Release, LessHeld
  <2> QED  BY <2>1, LessBounded
<1>4. CASE UNCHANGED held
  BY <1>4 DEF Bounded
<1>5. CASE OwnerStep
  BY <1>4, <1>5 DEF OwnerStep, Submit, Wait, TakeCompletions, Publish, Link, Again, Drain,
       Free
<1>6. CASE \E h \in Handle : RunLoadTask(h)
  BY <1>4, <1>6 DEF RunLoadTask
<1>7. CASE submitLoads \/ removeCompletions \/ runLoadingPhase \/ drainFrees \/ shutdown
  BY <1>4, <1>7 DEF submitLoads, removeCompletions, runLoadingPhase, drainFrees, shutdown,
       Call
<1>8. CASE \E h \in Live, id \in Ids : AddDependency(h, id)
  BY <1>4, <1>8 DEF AddDependency
<1> QED  BY <1>2, <1>3, <1>5, <1>6, <1>7, <1>8 DEF Next, ClientCall

-----------------------------------------------------------------------------
(* The steps of a load(): its own are the last of the stack, one at a time.*)

\* The step at which a load() goes on when the calls on top of it are done.
LoadAt(q) == IF q # <<>> /\ q[Len(q)] \in SceneSteps THEN q[Len(q)] ELSE "None"

\* Nothing is below a step of load(), and what is above its first step drains.
Alone(q) ==
    \A k \in 1 .. Len(q) :
        /\ q[k] \in SceneSteps => k = Len(q)
        /\ q[k] = "SceneRequest" => k = 1 \/ q[k - 1] = "Drain"

LEMMA LoadNone == LoadAt(<<>>) = "None" /\ Alone(<<>>)
<1>1. Len(<<>>) = 0 /\ 1 .. 0 = {}
  BY EmptySeq
<1> QED  BY <1>1 DEF LoadAt, Alone

LEMMA LoadOne ==
  ASSUME NEW x \in SceneSteps
  PROVE  <<x>> \in Seq(Steps) /\ LoadAt(<<x>>) = x /\ Alone(<<x>>) /\ Top(<<x>>) = x
<1>1. <<x>> \in Seq(Steps) /\ Len(<<x>>) = 1 /\ <<x>>[1] = x /\ Head(<<x>>) = x /\ <<x>> # <<>>
  BY EmptySeq DEF Steps
<1>2. \A k \in 1 .. 1 : k = 1
  OBVIOUS
<1> QED  BY <1>1, <1>2 DEF LoadAt, Alone, Top

\* A step that returns.
LEMMA LoadTail ==
  ASSUME NEW q \in Seq(Steps), q # <<>>, Alone(q)
  PROVE  /\ Alone(Tail(q))
         /\ Head(q) \notin SceneSteps => LoadAt(Tail(q)) = LoadAt(q)
         /\ Head(q) \in SceneSteps => Tail(q) = <<>> /\ LoadAt(q) = Head(q)
         /\ Top(Tail(q)) = "SceneRequest" => Head(q) = "Drain"
<1>1. /\ Tail(q) \in Seq(Steps) /\ Head(q) = q[1] /\ Len(q) \in Nat /\ Len(q) >= 1
      /\ Len(Tail(q)) = Len(q) - 1
      /\ \A k \in 1 .. Len(q) - 1 : k + 1 \in 1 .. Len(q) /\ Tail(q)[k] = q[k + 1]
  BY TailOf
<1>2. Alone(Tail(q))
  <2>1. SUFFICES ASSUME NEW k \in 1 .. Len(q) - 1
                 PROVE  /\ Tail(q)[k] \in SceneSteps => k = Len(q) - 1
                        /\ Tail(q)[k] = "SceneRequest" => k = 1 \/ Tail(q)[k - 1] = "Drain"
    BY <1>1 DEF Alone
  <2>2. k + 1 \in 1 .. Len(q) /\ Tail(q)[k] = q[k + 1] /\ k + 1 # 1 /\ (k + 1) - 1 = k
    BY <1>1
  <2>3. q[k + 1] \in SceneSteps => k + 1 = Len(q)
    BY <2>2 DEF Alone
  <2>4. q[k + 1] = "SceneRequest" => q[k] = "Drain"
    BY <2>2 DEF Alone
  <2>5. k # 1 => k - 1 \in 1 .. Len(q) - 1 /\ (k - 1) + 1 = k
    BY <1>1
  <2>6. k # 1 => Tail(q)[k - 1] = q[k]
    BY <1>1, <2>5
  <2> QED  BY <1>1, <2>2, <2>3, <2>4, <2>6
<1>3. CASE Len(q) = 1
  <2>1. Tail(q) = <<>>
    <3>1. Len(Tail(q)) = 0
      BY <1>1, <1>3
    <3> QED  BY <1>1, <3>1, EmptySeq
  <2> QED  BY <1>1, <1>2, <1>3, <2>1 DEF LoadAt, Top
<1>4. CASE Len(q) # 1
  <2>1. /\ Len(q) - 1 \in 1 .. Len(q) - 1 /\ (Len(q) - 1) + 1 = Len(q) /\ 1 \in 1 .. Len(q)
        /\ 1 \in 1 .. Len(q) - 1 /\ 1 + 1 \in 1 .. Len(q) /\ (1 + 1) - 1 = 1 /\ 1 + 1 # 1
    BY <1>1, <1>4
  <2>2. Tail(q) # <<>>
    <3>1. Len(Tail(q)) # 0
      BY <1>1, <1>4
    <3> QED  BY <3>1, EmptySeq
  <2>3. Tail(q)[Len(q) - 1] = q[Len(q)]
    BY <1>1, <2>1
  <2>4. Head(q) \notin SceneSteps
    BY <1>1, <1>4, <2>1 DEF Alone
  <2>5. Head(Tail(q)) = Tail(q)[1] /\ Tail(q)[1] = q[1 + 1]
    BY <1>1, <2>1, <2>2, TailOf
  <2>6. q[1 + 1] = "SceneRequest" => q[1] = "Drain"
    BY <2>1 DEF Alone
  <2> QED  BY <1>1, <1>2, <2>2, <2>3, <2>4, <2>5, <2>6 DEF LoadAt, Top
<1> QED  BY <1>3, <1>4

\* Steps of the cache on top of others.
LEMMA LoadConcat ==
  ASSUME NEW p \in Seq(CacheSteps), NEW q \in Seq(Steps), Alone(q), Top(q) # "SceneRequest"
  PROVE  Alone(p \o q) /\ LoadAt(p \o q) = LoadAt(q)
<1> DEFINE r == p \o q
<1>0. p \in Seq(Steps)
  BY SeqDef DEF Steps
<1>1. /\ r \in Seq(Steps) /\ Len(r) = Len(p) + Len(q)
      /\ \A i \in 1 .. Len(p) + Len(q) : r[i] = IF i <= Len(p) THEN p[i] ELSE q[i - Len(p)]
  BY <1>0, ConcatProperties
<1>2. Len(p) \in Nat /\ Len(q) \in Nat
  BY LenProperties
<1> HIDE DEF r
<1>3. \A k \in 1 .. Len(p) : r[k] \notin SceneSteps
  <2>1. \A k \in 1 .. Len(p) : r[k] = p[k] /\ p[k] \in CacheSteps
    BY <1>1, <1>2, ElementOfSeq
  <2> QED  BY <2>1 DEF CacheSteps, SceneSteps
<1>4. \A k \in 1 .. Len(q) : r[Len(p) + k] = q[k]
  <2>1. \A k \in 1 .. Len(q) : /\ Len(p) + k \in 1 .. Len(p) + Len(q)
                               /\ ~(Len(p) + k <= Len(p)) /\ (Len(p) + k) - Len(p) = k
    BY <1>2
  <2> QED  BY <1>1, <2>1
<1>5. Alone(r)
  <2>1. SUFFICES ASSUME NEW k \in 1 .. Len(r), k \notin 1 .. Len(p)
                 PROVE  /\ r[k] \in SceneSteps => k = Len(r)
                        /\ r[k] = "SceneRequest" => k = 1 \/ r[k - 1] = "Drain"
    BY <1>3 DEF Alone, SceneSteps
  <2>2. PICK j \in 1 .. Len(q) : k = Len(p) + j
    <3>1. k - Len(p) \in 1 .. Len(q) /\ k = Len(p) + (k - Len(p))
      BY <1>1, <1>2, <2>1
    <3> QED  BY <3>1
  <2>3. r[k] = q[j] /\ (q[j] \in SceneSteps => j = Len(q))
    BY <1>4, <2>2 DEF Alone
  <2>4. j # 1 => j - 1 \in 1 .. Len(q) /\ k - 1 = Len(p) + (j - 1)
    BY <1>2, <2>2
  <2>5. j # 1 => r[k - 1] = q[j - 1]
    BY <1>4, <2>4
  <2>6. q[j] = "SceneRequest" => j # 1 /\ q[j - 1] = "Drain"
    <3>1. q[j] = "SceneRequest" => j = 1 \/ q[j - 1] = "Drain"
      BY DEF Alone
    <3>2. j = 1 => Top(q) = q[j]
      <4>1. q # <<>>
        BY <1>2, EmptySeq
      <4> QED  BY <4>1, TailOf DEF Top
    <3> QED  BY <3>1, <3>2
  <2> QED  BY <1>1, <2>2, <2>3, <2>5, <2>6
<1>6. LoadAt(r) = LoadAt(q)
  <2>1. CASE q = <<>>
    <3>1. Len(q) = 0
      BY <2>1, EmptySeq
    <3>2. r # <<>> => Len(r) \in 1 .. Len(p)
      BY <1>1, <1>2, <3>1, EmptySeq
    <3> QED  BY <1>3, <2>1, <3>2 DEF LoadAt
  <2>2. CASE q # <<>>
    <3>1. Len(q) \in 1 .. Len(q) /\ Len(r) # 0
      BY <1>1, <1>2, <2>2, TailOf
    <3>2. r # <<>>
      BY <3>1, EmptySeq
    <3> QED  BY <1>1, <1>4, <2>2, <3>1, <3>2 DEF LoadAt
  <2> QED  BY <2>1, <2>2
<1> QED  BY <1>5, <1>6 DEF r

LEMMA CacheCalls ==
  \A q \in {<<"Submit">>, <<"Remove", "Publish">>, loadingPhase, <<"Drain">>, <<"Wait">>,
            <<"Link">>, <<"Free">>} :
      q \in Seq(CacheSteps) /\ q # <<>> /\ Alone(q) /\ LoadAt(q) = "None" /\ Top(q) # "SceneRequest"
<1>1. ASSUME NEW q \in {<<"Submit">>, <<"Remove", "Publish">>, loadingPhase, <<"Drain">>, <<"Wait">>,
                        <<"Link">>, <<"Free">>}
      PROVE  q \in Seq(CacheSteps) /\ q # <<>>
  <2>1. \A x \in CacheSteps : <<x>> \in Seq(CacheSteps) /\ <<x>> # <<>>
    OBVIOUS
  <2>2. <<"Remove", "Publish">> \in Seq(CacheSteps) /\ <<"Remove", "Publish">> # <<>>
    BY DEF CacheSteps
  <2>3. loadingPhase \in Seq(CacheSteps) /\ loadingPhase # <<>>
    BY DEF CacheSteps, loadingPhase
  <2> QED  BY <1>1, <2>1, <2>2, <2>3 DEF CacheSteps
<1>2. ASSUME NEW q \in Seq(CacheSteps), q # <<>>
      PROVE  Alone(q) /\ LoadAt(q) = "None" /\ Top(q) # "SceneRequest"
  <2>1. <<>> \in Seq(Steps) /\ Alone(<<>>) /\ LoadAt(<<>>) = "None" /\ Top(<<>>) # "SceneRequest"
    BY LoadNone, EmptySeq DEF Top
  <2>2. Alone(q \o <<>>) /\ LoadAt(q \o <<>>) = "None"
    BY <2>1, LoadConcat
  <2>3. q \o <<>> = q
    BY ConcatEmptySeq
  <2>4. Head(q) \in CacheSteps
    BY <1>2, TailOf
  <2> QED  BY <1>2, <2>2, <2>3, <2>4 DEF Top, CacheSteps
<1> QED  BY <1>1, <1>2

-----------------------------------------------------------------------------
(* What the steps of the cache leave of an entry.                          *)

\* Its id stays, and while it lives what it depends on; its bytes are read only
\* for its load, and a load that failed is known to have.
Still(e, e2) ==
    /\ e2.id = e.id
    /\ e2.occupied =>
         /\ e.occupied
         /\ ToSet(e.dependencies) \subseteq ToSet(e2.dependencies)
         /\ e2.payload = "Fresh" \/ (e2.payload = e.payload /\ (e.error => e2.error))
         /\ e2.state = "Pending" => e.state = "Pending"
         /\ e2.state = "Ready" => e.state = "Ready" \/ e2.payload = "Fresh"

\* The entries that are new have no bytes yet.
Onward(es, es2) ==
    /\ \A h \in DOMAIN es : h \in DOMAIN es2 /\ Still(es[h], es2[h])
    /\ \A h \in DOMAIN es2 \ DOMAIN es : es2[h].payload = "None" /\ es2[h].state # "Ready"

LEMMA StillTheEntry ==
  ASSUME NEW e \in Entry
  PROVE  /\ Still(e, e)
         /\ \A n : Still(e, [e EXCEPT !.acquires = n])
         /\ \A b : Still(e, [e EXCEPT !.loading = b])
         /\ Still(e, [e EXCEPT !.loading = FALSE, !.state = "Failed"])
         /\ e.payload = "Fresh" => Still(e, [e EXCEPT !.loading = FALSE, !.state = "Ready"])
         /\ Still(e, [e EXCEPT !.state = "Failed", !.error = TRUE])
         /\ Still(e, [e EXCEPT !.error = TRUE])
         /\ Still(e, [e EXCEPT !.error = FALSE, !.payload = "Fresh"])
         /\ Still(e, Blank(e.id))
<1>1. Still(e, e)
  BY DEF Still
<1>2. ASSUME NEW n PROVE Still(e, [e EXCEPT !.acquires = n])
  BY DEF Still, Entry
<1>3. ASSUME NEW b PROVE Still(e, [e EXCEPT !.loading = b])
  BY DEF Still, Entry
<1>4. Still(e, [e EXCEPT !.loading = FALSE, !.state = "Failed"])
  BY DEF Still, Entry
<1>5. e.payload = "Fresh" => Still(e, [e EXCEPT !.loading = FALSE, !.state = "Ready"])
  BY DEF Still, Entry
<1>6. Still(e, [e EXCEPT !.state = "Failed", !.error = TRUE])
  BY DEF Still, Entry
<1>7. Still(e, [e EXCEPT !.error = TRUE])
  BY DEF Still, Entry
<1>8. Still(e, [e EXCEPT !.error = FALSE, !.payload = "Fresh"])
  BY DEF Still, Entry
<1>9. Still(e, Blank(e.id))
  BY DEF Still, Blank
<1> QED  BY <1>1, <1>2, <1>3, <1>4, <1>5, <1>6, <1>7, <1>8, <1>9

LEMMA StillNamed ==
  ASSUME NEW e \in Entry, NEW x
  PROVE  Still(e, [e EXCEPT !.dependencies = Append(e.dependencies, x)])
<1>1. e.dependencies \in Seq(Handle)
  BY DEF Entry
<1>2. ToSet(Append(e.dependencies, x)) = ToSet(e.dependencies) \cup {x}
  BY <1>1, AppendedSet
<1> QED  BY <1>2 DEF Still, Entry

LEMMA OnwardUpdated ==
  ASSUME NEW es \in Seq(Entry), NEW h \in DOMAIN es, NEW e, Still(es[h], e),
         NEW es2, es2 = Updated(es, h, e)
  PROVE  Onward(es, es2)
<1>1. \A g \in DOMAIN es : es[g] \in Entry
  BY LenProperties, ElementOfSeq
<1>2. DOMAIN es2 = DOMAIN es /\ \A g \in DOMAIN es : es2[g] = IF g = h THEN e ELSE es[g]
  BY DEF Updated
<1> QED  BY <1>1, <1>2, StillTheEntry DEF Onward

LEMMA OnwardSame ==
  ASSUME NEW es \in Seq(Entry)
  PROVE  Onward(es, es)
<1>1. \A g \in DOMAIN es : es[g] \in Entry
  BY LenProperties, ElementOfSeq
<1> QED  BY <1>1, StillTheEntry DEF Onward

LEMMA OnwardMore ==
  ASSUME NEW es \in Seq(Entry), NEW h \in DOMAIN es, NEW es2,
         MoreAcquired(es, h, es2) \/ LessAcquired(es, h, es2)
  PROVE  Onward(es, es2)
<1>1. es[h] \in Entry
  BY LenProperties, ElementOfSeq
<1>2. PICK n : es2 = Updated(es, h, [es[h] EXCEPT !.acquires = n])
  BY DEF MoreAcquired, LessAcquired, Updated
<1>3. Still(es[h], [es[h] EXCEPT !.acquires = n])
  BY <1>1, StillTheEntry
<1> QED  BY <1>2, <1>3, OnwardUpdated

LEMMA OnwardNamed ==
  ASSUME NEW es \in Seq(Entry), NEW h \in DOMAIN es, NEW x \in DOMAIN es, x # h,
         NEW es2, MoreNamed(es, h, x, es2)
  PROVE  Onward(es, es2) /\ x \in ToSet(es2[h].dependencies)
<1>1. \A g \in DOMAIN es : es[g] \in Entry
  BY LenProperties, ElementOfSeq
<1> DEFINE f == [es[h] EXCEPT !.dependencies = Append(es[h].dependencies, x)]
           e == [es[x] EXCEPT !.acquires = es[x].acquires + 1]
<1>2. /\ DOMAIN es2 = DOMAIN es /\ es2[h] = f /\ es2[x] = e
      /\ \A g \in DOMAIN es : g # h /\ g # x => es2[g] = es[g]
  BY DEF MoreNamed
<1>3. Still(es[h], f)
  BY <1>1, StillNamed
<1>4. Still(es[x], e)
  BY <1>1, StillTheEntry
<1>5. f.dependencies = Append(es[h].dependencies, x) /\ es[h].dependencies \in Seq(Handle)
  BY <1>1 DEF Entry
<1> HIDE DEF e, f
<1>6. x \in ToSet(f.dependencies)
  BY <1>5, AppendedSet
<1> QED  BY <1>1, <1>2, <1>3, <1>4, <1>6, StillTheEntry DEF Onward

AllStill(es, es2) == DOMAIN es2 = DOMAIN es /\ \A g \in DOMAIN es : Still(es[g], es2[g])

\* The entries of mid, and one of id.
Besides(es, mid, id, es2) ==
    (\A g \in DOMAIN es : es2[g] = mid[g]) /\ es2[Len(es) + 1].id = id

\* A new entry; nothing else changes but what its holder, if any, depends on.
LEMMA OnwardMade ==
  ASSUME NEW es \in Seq(Entry), NEW mid \in Seq(Entry), AllStill(es, mid),
         NEW id, NEW there \in Obtainable, NEW es2, MadeHeld(mid, id, there, es2)
  PROVE  Onward(es, es2) /\ Besides(es, mid, id, es2)
<1> DEFINE e == Made(id, there, 1)
<1>1. es2 = Append(mid, e)
  BY DEF MadeHeld
<1>2. e.payload = "None" /\ e.state # "Ready" /\ e.id = id
  BY DEF Made, Blank, Obtainable
<1> HIDE DEF e
<1>3. /\ DOMAIN es2 = DOMAIN mid \cup {Len(mid) + 1} /\ es2[Len(mid) + 1] = e
      /\ \A g \in DOMAIN mid : es2[g] = mid[g]
  BY <1>1, AppendedSet
<1>4. Len(mid) = Len(es)
  BY LenProperties DEF AllStill
<1> QED  BY <1>2, <1>3, <1>4 DEF Onward, AllStill, Besides

LEMMA EntriesTyped ==
  ASSUME CacheInv
  PROVE  /\ entries \in Seq(Entry) /\ LiveIn(entries) = Live /\ Live \subseteq DOMAIN entries
         /\ LiveIn(entries) \subseteq DOMAIN entries
         /\ \A h \in DOMAIN entries : entries[h] \in Entry
         /\ \A id \in Ids : byId[id] # NoHandle => byId[id] \in Live /\ entries[byId[id]].id = id
<1>1. Typed(entries, byId, held) /\ IndexedIn(entries, byId)
  BY DEF CacheInv, Kept
<1>2. LiveIn(entries) = Live
  BY DEF LiveIn, Live
<1> QED  BY <1>1, <1>2, EntryFields DEF Typed, IndexedIn

LEMMA ThereObtainable ==
  ASSUME CacheInv, NEW id \in Ids, catalog[id].there # "Unknown"
  PROVE  catalog[id].there \in Obtainable
<1>1. catalog \in [Ids -> Asset]
  BY CatalogsAssumption DEF CacheInv, CacheTypes
<1> QED  BY <1>1 DEF Asset, Obtainable

LEMMA RequestedOnward ==
  ASSUME CacheInv, NEW id \in Ids, NEW h \in Handle, Requested(id, h)
  PROVE  Onward(entries, entries') /\ entries'[h].id = id
<1>1. CASE h = byId[id] /\ Share(id)
  <2>1. h \in DOMAIN entries /\ entries[h].id = id
    BY <1>1, EntriesTyped DEF Share
  <2>2. MoreAcquired(entries, h, entries')
    BY <1>1 DEF Share, MoreAcquired
  <2>3. Onward(entries, entries')
    BY <2>1, <2>2, EntriesTyped, OnwardMore
  <2> QED  BY <2>1, <2>3 DEF Onward, Still
<1>2. CASE h = NewHandle /\ NewEntry(id, NoHandle)
  <2> DEFINE there == catalog[id].there
  <2>1. there # "Unknown" /\ MadeHeld(entries, id, there, entries') /\ h = Len(entries) + 1
    BY <1>2 DEF NewEntry, NewHandle, Made, MadeHeld
  <2>2. there \in Obtainable
    BY <2>1, ThereObtainable
  <2> HIDE DEF there
  <2>3. entries \in Seq(Entry) /\ AllStill(entries, entries)
    BY EntriesTyped, StillTheEntry DEF AllStill
  <2>4. Onward(entries, entries') /\ Besides(entries, entries, id, entries')
    BY <2>1, <2>2, <2>3, OnwardMade
  <2> QED  BY <2>1, <2>4 DEF Besides
<1> QED  BY <1>1, <1>2 DEF Requested

LEMMA ReleasedOnward ==
  ASSUME CacheInv, NEW h, Released(h)
  PROVE  Onward(entries, entries')
<1>1. CASE h \in Live
  <2>1. LessAcquired(entries, h, entries')
    BY <1>1 DEF Released, LessAcquired
  <2> QED  BY <1>1, <2>1, EntriesTyped, OnwardMore
<1>2. CASE h \notin Live
  BY <1>2, EntriesTyped, OnwardSame DEF Released
<1> QED  BY <1>1, <1>2

\* h depends on an entry of the id r.
DependsOn(es, h, r) == \E d \in ToSet(es[h].dependencies) : es[d].id = r

LEMMA LinkedOnward ==
  ASSUME CacheInv, NEW holder \in LiveIn(entries), NEW id \in Ids, Linked(holder, id)
  PROVE  Onward(entries, entries') /\ DependsOn(entries', holder, id)
<1>0. holder \in DOMAIN entries /\ holder # NoHandle
  <2>1. DOMAIN entries \subseteq Handle
    BY EntryFields DEF CacheInv, Kept
  <2> QED  BY <2>1, EntriesTyped, NoHandleAssumption, BoundsAssumption DEF Handle
<1>1. CASE /\ byId[id] # NoHandle
           /\ ~reaches(byId[id], holder)
           /\ entries' = [entries EXCEPT ![byId[id]].acquires = @ + 1,
                                         ![holder].dependencies = Append(@, byId[id])]
  <2> DEFINE x == byId[id]
  <2>1. x \in DOMAIN entries /\ entries[x].id = id /\ MoreNamed(entries, holder, x, entries')
    BY <1>1, EntriesTyped DEF MoreNamed
  <2>2. x # holder
    <3>1. IsFiniteSet(LiveIn(entries))
      BY EntryFields DEF CacheInv, Kept
    <3>2. {x} \subseteq Reached({x})
      BY <3>1, ReachedIsLeast, ReachedFromHere
    <3> QED  BY <1>1, <3>2 DEF reaches
  <2> HIDE DEF x
  <2>3. Onward(entries, entries') /\ x \in ToSet(entries'[holder].dependencies)
    BY <1>0, <2>1, <2>2, EntriesTyped, OnwardNamed
  <2> QED  BY <2>1, <2>3 DEF Onward, Still, DependsOn
<1>2. CASE NewEntry(id, holder)
  <2> DEFINE there == catalog[id].there
             n == Len(entries) + 1
             f == [entries[holder] EXCEPT !.dependencies = Append(entries[holder].dependencies, n)]
             mid == Updated(entries, holder, f)
  <2>1. there # "Unknown" /\ MadeHeld(mid, id, there, entries') /\ n \in Handle
    BY <1>0, <1>2 DEF NewEntry, NewHandle, Made, MadeHeld, Updated
  <2>2. there \in Obtainable
    BY <2>1, ThereObtainable
  <2>3. entries \in Seq(Entry) /\ entries[holder] \in Entry /\ entries[holder].dependencies \in Seq(Handle)
    BY <1>0, EntriesTyped DEF Entry
  <2>4. Still(entries[holder], f) /\ n \in ToSet(f.dependencies)
    <3>1. Still(entries[holder], f)
      BY <2>3, StillNamed
    <3>2. f.dependencies = Append(entries[holder].dependencies, n)
      BY <2>3 DEF Entry
    <3>3. n \in ToSet(Append(entries[holder].dependencies, n))
      BY <2>3, AppendedSet
    <3> QED  BY <3>1, <3>2, <3>3
  <2>5. f \in Entry
    <3>1. Append(entries[holder].dependencies, n) \in Seq(Handle)
      BY <2>1, <2>3, AppendProperties
    <3> QED  BY <2>3, <3>1, EntryUpdates, Zenon
  <2> HIDE DEF there, f
  <2>6. /\ mid \in Seq(Entry) /\ DOMAIN mid = DOMAIN entries /\ mid[holder] = f
        /\ \A g \in DOMAIN entries : g # holder => mid[g] = entries[g]
    BY <1>0, <2>3, <2>5, OneUpdated
  <2> HIDE DEF mid
  <2>7. AllStill(entries, mid)
    BY <2>4, <2>6, EntriesTyped, StillTheEntry DEF AllStill
  <2>8. Onward(entries, entries') /\ Besides(entries, mid, id, entries')
    BY <2>1, <2>2, <2>3, <2>6, <2>7, OnwardMade
  <2> QED  BY <1>0, <2>4, <2>6, <2>8 DEF DependsOn, Besides
<1> QED  BY <1>1, <1>2 DEF Linked

-----------------------------------------------------------------------------
(* The cache's own steps, under a load() or not.                           *)

\* Bytes are there when a load that has not failed has ended; they are taken of
\* entries only that are no longer Pending.
BytesKept ==
    /\ \A h \in LiveIn(entries) :
         /\ entries[h].state = "Pending" => entries[h].payload # "Taken"
         /\ entries[h].state = "Ready" => entries[h].payload # "None"
    /\ \A h \in Unpublished : entries[h].error \/ entries[h].payload = "Fresh"

\* What nobody uses is being loaded.
Cleared == \A h \in LiveIn(entries) : entries[h].acquires = 0 => entries[h].loading

LEMMA UnpublishedTop ==
    /\ Unpublished = ToSet(completions) \cup
                     ToSet(IF Top(todo) = "Link" THEN Tail(publishing) ELSE publishing)
    /\ Unpublished' = ToSet(completions') \cup
                      ToSet(IF Top(todo') = "Link" THEN Tail(publishing') ELSE publishing')
<1>1. "Link" \in Steps
  BY DEF Steps, CacheSteps
<1>2. (At("Link") <=> Top(todo) = "Link") /\ (At("Link")' <=> Top(todo') = "Link")
  BY <1>1, AtTop
<1> QED  BY <1>2 DEF Unpublished

\* The completion in work, when it is published.
LEMMA HeadPublished ==
  ASSUME CacheInv, Top(todo) = "Publish", publishing # <<>>
  PROVE  /\ Head(publishing) \in LiveIn(entries) /\ Head(publishing) \in Unpublished
         /\ ToSet(Tail(publishing)) \subseteq ToSet(publishing)
<1>1. publishing \in Seq(Handle) /\ MindedNow(UnderWay)
  BY DEF CacheInv, CacheTypes
<1>2. Head(publishing) \in ToSet(publishing) /\ ToSet(Tail(publishing)) \subseteq ToSet(publishing)
  BY <1>1, TailOf
<1>3. Head(publishing) \in Unpublished
  BY <1>2, UnpublishedTop
<1> QED  BY <1>1, <1>2, <1>3 DEF MindedNow, Minded, UnderWay

LEMMA OwnerOnward ==
  ASSUME CacheInv, BytesKept, OwnerStep
  PROVE  Onward(entries, entries')
<1>1. CASE Submit
  <2> DEFINE S == {h \in pendingLoads \cap Live : State(h) = "Pending" /\ ~entries[h].loading}
  <2>1. entries' = [h \in DOMAIN entries |-> [entries[h] EXCEPT !.loading = @ \/ h \in S]]
    BY <1>1 DEF Submit
  <2> HIDE DEF S
  <2>2. \A h \in DOMAIN entries : Still(entries[h], entries'[h])
    BY <2>1, EntriesTyped, StillTheEntry
  <2> QED  BY <2>1, <2>2 DEF Onward
<1>2. CASE UNCHANGED entries
  BY <1>2, EntriesTyped, OnwardSame
<1>3. CASE Wait \/ TakeCompletions \/ Again \/ Drain
  BY <1>2, <1>3 DEF Wait, TakeCompletions, Again, Drain
<1>4. CASE Publish /\ entries' # entries
  <2> DEFINE h == Head(publishing)
  <2>1. Top(todo) = "Publish" /\ publishing # <<>>
    BY <1>4 DEF Publish, At, Top
  <2>2. h \in DOMAIN entries /\ h \in Unpublished
    BY <2>1, HeadPublished, EntriesTyped
  <2>3. \/ entries' = Published(h, "Failed")
        \/ entries' = Published(h, "Ready") /\ ~entries[h].error
    BY <1>4, <2>1 DEF Publish
  <2>4. entries[h].error \/ entries[h].payload = "Fresh"
    BY <2>2 DEF BytesKept
  <2> HIDE DEF h
  <2>5. CASE entries' = Published(h, "Failed")
    <3> DEFINE e == [entries[h] EXCEPT !.loading = FALSE, !.state = "Failed"]
    <3>1. Still(entries[h], e)
      BY <2>2, EntriesTyped, StillTheEntry
    <3>2. entries' = Updated(entries, h, e)
      BY <2>2, <2>5 DEF Published, Updated
    <3> HIDE DEF e
    <3> QED  BY <2>2, <3>1, <3>2, EntriesTyped, OnwardUpdated
  <2>6. CASE entries' = Published(h, "Ready") /\ ~entries[h].error
    <3> DEFINE e == [entries[h] EXCEPT !.loading = FALSE, !.state = "Ready"]
    <3>1. Still(entries[h], e)
      BY <2>2, <2>4, <2>6, EntriesTyped, StillTheEntry
    <3>2. entries' = Updated(entries, h, e)
      BY <2>2, <2>6 DEF Published, Updated
    <3> HIDE DEF e
    <3> QED  BY <2>2, <3>1, <3>2, EntriesTyped, OnwardUpdated
  <2> QED  BY <2>3, <2>5, <2>6
<1>5. CASE Link /\ entries' # entries
  <2> DEFINE h == Head(publishing)
  <2>1. Top(todo) = "Link" /\ linking # <<>>
    BY <1>5 DEF Link, At, Top
  <2>2. h \in LiveIn(entries) /\ linking \in Seq(Ids)
    BY <2>1 DEF CacheInv, CacheTypes, Staged
  <2>3. Head(linking) \in Ids
    BY <2>1, <2>2, TailOf
  <2>4. Linked(h, Head(linking)) \/ entries' = [entries EXCEPT ![h].state = "Failed", ![h].error = TRUE]
    BY <1>5, <2>1 DEF Link
  <2> HIDE DEF h
  <2>5. CASE Linked(h, Head(linking))
    BY <2>2, <2>3, <2>5, LinkedOnward
  <2>6. CASE entries' = [entries EXCEPT ![h].state = "Failed", ![h].error = TRUE]
    <3> DEFINE e == [entries[h] EXCEPT !.state = "Failed", !.error = TRUE]
    <3>1. h \in DOMAIN entries
      BY <2>2, EntriesTyped
    <3>2. Still(entries[h], e)
      BY <3>1, EntriesTyped, StillTheEntry
    <3>3. entries' = Updated(entries, h, e)
      BY <3>1, <2>6 DEF Updated
    <3> HIDE DEF e
    <3> QED  BY <3>1, <3>2, <3>3, EntriesTyped, OnwardUpdated
  <2> QED  BY <2>4, <2>5, <2>6
<1>6. CASE Free /\ entries' # entries
  <2>1. PICK h \in Live : entries' = Freed(h)
    BY <1>6 DEF Free, FreeEntry
  <2>2. DOMAIN entries' = DOMAIN entries
    BY <2>1 DEF Freed
  <2>3. ASSUME NEW g \in DOMAIN entries PROVE Still(entries[g], entries'[g])
    <3>1. CASE g = h
      BY <2>1, <3>1, EntriesTyped, StillTheEntry DEF Freed
    <3>2. CASE g # h
      <4>1. PICK n : entries'[g] = [entries[g] EXCEPT !.acquires = n]
        BY <2>1, <3>2 DEF Freed
      <4>2. Still(entries[g], [entries[g] EXCEPT !.acquires = n])
        BY EntriesTyped, StillTheEntry
      <4> QED  BY <4>1, <4>2
    <3> QED  BY <3>1, <3>2
  <2> QED  BY <2>2, <2>3 DEF Onward
<1> QED  BY <1>1, <1>2, <1>3, <1>4, <1>5, <1>6 DEF OwnerStep

LEMMA RunLoadTaskOnward ==
  ASSUME CacheInv, NEW h \in Handle, RunLoadTask(h)
  PROVE  /\ Onward(entries, entries')
         /\ \A g \in Unpublished' : g \in Unpublished \/ entries'[g].error \/ entries'[g].payload = "Fresh"
         /\ Cleared => Cleared'
<1>1. h \in LiveIn(entries) /\ h \in DOMAIN entries /\ entries[h] \in Entry /\ entries \in Seq(Entry)
  <2>1. h \in LiveIn(entries)
    BY DEF RunLoadTask, CacheInv, MindedNow, Minded, UnderWay
  <2> QED  BY <2>1, EntriesTyped
<1>2. PICK e : /\ entries' = Updated(entries, h, e) /\ Still(entries[h], e)
               /\ e.acquires = entries[h].acquires /\ e.loading = entries[h].loading
               /\ e.error \/ e.payload = "Fresh"
  <2>1. CASE entries' = [entries EXCEPT ![h].error = TRUE]
    <3> DEFINE e == [entries[h] EXCEPT !.error = TRUE]
    <3>1. Still(entries[h], e)
      BY <1>1, StillTheEntry
    <3>2. entries' = Updated(entries, h, e)
      BY <1>1, <2>1 DEF Updated
    <3>3. e.acquires = entries[h].acquires /\ e.loading = entries[h].loading /\ e.error
      BY <1>1 DEF Entry
    <3> HIDE DEF e
    <3> QED  BY <3>1, <3>2, <3>3
  <2>2. CASE entries' = [entries EXCEPT ![h].error = FALSE, ![h].payload = "Fresh"]
    <3> DEFINE e == [entries[h] EXCEPT !.error = FALSE, !.payload = "Fresh"]
    <3>1. Still(entries[h], e)
      BY <1>1, StillTheEntry
    <3>2. entries' = Updated(entries, h, e)
      BY <1>1, <2>2 DEF Updated
    <3>3. e.acquires = entries[h].acquires /\ e.loading = entries[h].loading /\ e.payload = "Fresh"
      BY <1>1 DEF Entry
    <3> HIDE DEF e
    <3> QED  BY <3>1, <3>2, <3>3
  <2> QED  BY <2>1, <2>2 DEF RunLoadTask
<1>3. Onward(entries, entries')
  BY <1>1, <1>2, OnwardUpdated
<1>4. /\ DOMAIN entries' = DOMAIN entries /\ entries'[h] = e
      /\ \A g \in DOMAIN entries : g # h => entries'[g] = entries[g]
  BY <1>1, <1>2 DEF Updated
<1>5. \A g \in Unpublished' : g \in Unpublished \/ g = h
  <2>1. /\ completions' = Append(completions, h) /\ publishing' = publishing /\ todo' = todo
        /\ completions \in Seq(Handle)
    BY DEF RunLoadTask, locals, CacheInv, CacheTypes
  <2>2. ToSet(completions') = ToSet(completions) \cup {h}
    BY <2>1, AppendedSet
  <2> QED  BY <2>1, <2>2, UnpublishedTop
<1>6. Cleared => Cleared'
  <2>1. \A g \in LiveIn(entries') : g \in LiveIn(entries) /\ g \in DOMAIN entries
    BY <1>1, <1>2, <1>4 DEF LiveIn, Still
  <2>2. \A g \in DOMAIN entries : /\ entries'[g].acquires = entries[g].acquires
                                  /\ entries'[g].loading = entries[g].loading
    BY <1>2, <1>4
  <2> QED  BY <2>1, <2>2 DEF Cleared
<1> QED  BY <1>2, <1>3, <1>4, <1>5, <1>6

LEMMA OwnerUnpublished ==
  ASSUME CacheInv, OwnerStep
  PROVE  Unpublished' \subseteq Unpublished
<1>0. publishing \in Seq(Handle) /\ ToSet(<<>>) = {} /\ Staged
  BY EmptySet DEF CacheInv, CacheTypes
<1>1. CASE Submit \/ Wait
  <2>1. todo # <<>> /\ Top(todo) \in {"Submit", "Wait"} /\ Return /\ completions' = completions
        /\ publishing' = publishing
    BY <1>1 DEF Submit, Wait, At, Top, work, locals
  <2>2. publishing = <<>>
    BY <1>0, <2>1 DEF Staged
  <2> QED  BY <1>0, <2>1, <2>2, Returned, UnpublishedTop
<1>2. CASE TakeCompletions
  <2>1. todo # <<>> /\ Return /\ completions' = <<>> /\ publishing' = completions /\ Top(todo) = "Remove"
    BY <1>2 DEF TakeCompletions, At, Top
  <2> QED  BY <1>0, <2>1, Returned, UnpublishedTop
<1>3. CASE Publish
  <2>1. todo # <<>> /\ Top(todo) = "Publish" /\ completions' = completions
    BY <1>3 DEF Publish, At, Top, work
  <2>2. CASE publishing = <<>>
    <3>1. publishing' = <<>> /\ Return
      BY <1>3, <2>2 DEF Publish
    <3> QED  BY <2>1, <2>2, <3>1, Returned, UnpublishedTop
  <2>3. CASE publishing # <<>> /\ publishing' = Tail(publishing) /\ todo' = todo
    BY <2>1, <2>3, HeadPublished, UnpublishedTop
  <2>4. CASE publishing # <<>> /\ publishing' = publishing /\ todo' = <<"Link">> \o todo
    BY <2>1, <2>4, HeadPublished, UnpublishedTop
  <2> QED  BY <1>3, <2>2, <2>3, <2>4 DEF Publish
<1>4. CASE Link
  <2>1. todo # <<>> /\ Top(todo) = "Link" /\ completions' = completions
    BY <1>4 DEF Link, At, Top, work
  <2>2. CASE publishing' = Tail(publishing) /\ Return
    BY <2>1, <2>2, Returned, UnpublishedTop
  <2>3. CASE publishing' = publishing /\ todo' = todo
    BY <2>1, <2>3, UnpublishedTop
  <2> QED  BY <1>4, <2>2, <2>3 DEF Link
<1>5. CASE Again \/ Drain \/ Free
  <2>1. Top(todo) \in {"Again", "Drain", "Free"} /\ completions' = completions /\ publishing' = publishing
    BY <1>5 DEF Again, Drain, Free, At, Top, work, locals
  <2>2. publishing = <<>>
    BY <1>0, <2>1 DEF Staged
  <2>3. Top(todo') # "Link"
    <3>1. CASE Again
      <4>1. /\ todo # <<>> /\ Top(todo) = "Again"
            /\ todo' = (IF MoreToLoad THEN loadingPhase ELSE <<"Drain">>) \o Tail(todo)
        BY <3>1 DEF Again, At, Top
      <4>2. Tail(todo) \in Seq(Steps) /\ Shaped(Tail(todo)) /\ Top(Tail(todo)) \notin {"Link", "Free"}
        BY <4>1, ShapedTail DEF CacheInv, CacheTypes, Staged
      <4>3. ASSUME NEW p \in {loadingPhase, <<"Drain">>} PROVE Top(p \o Tail(todo)) # "Link"
        <5>1. p \in Seq(Steps) /\ p # <<>> /\ Shaped(p) /\ Top(p) # "Link"
          BY ShapedCalls
        <5> QED  BY <4>2, <5>1, ShapedConcat
      <4> QED  BY <4>1, <4>3
    <3>2. CASE Drain /\ todo' = <<"Free">> \o todo
      <4>1. todo \in Seq(Steps) /\ Shaped(todo) /\ "Free" \in Steps /\ Top(todo) = "Drain"
        BY <3>2 DEF CacheInv, CacheTypes, Staged, Steps, CacheSteps, Drain, At, Top
      <4>2. Top(<<"Free">> \o todo) = "Free"
        BY <4>1, ShapedPush
      <4> QED  BY <3>2, <4>2
    <3>3. CASE todo # <<>> /\ Return
      BY <3>3, Returned
    <3>4. CASE Free /\ UNCHANGED todo
      BY <3>4 DEF Free, At, Top
    <3> QED  BY <1>5, <3>1, <3>2, <3>3, <3>4 DEF Drain, Free, At
  <2> QED  BY <2>1, <2>2, <2>3, UnpublishedTop
<1> QED  BY <1>1, <1>2, <1>3, <1>4, <1>5 DEF OwnerStep

\* A drain that ends has freed what nobody used, or left it to its load.
LEMMA DrainClears ==
  ASSUME CacheInv, Drain, Return
  PROVE  Cleared'
<1>1. Top(todo) = "Drain" /\ entries' = entries /\ todo \in Seq(Steps) /\ todo # <<>>
  BY DEF Drain, At, Top, CacheInv, CacheTypes
<1>2. pendingFrees = {}
  <2>1. SUFFICES ASSUME Tail(todo) = <<"Free">> \o todo PROVE FALSE
    BY DEF Drain, Return
  <2>2. Tail(todo) \in Seq(Steps) /\ Len(Tail(todo)) = Len(todo) - 1 /\ Len(todo) \in Nat
    BY <1>1, TailOf
  <2>3. <<"Free">> \in Seq(Steps) /\ Len(<<"Free">>) = 1
    BY DEF Steps, CacheSteps
  <2>4. Len(<<"Free">> \o todo) = 1 + Len(todo)
    BY <1>1, <2>3, ConcatProperties
  <2>5. PICK m : m = Len(todo)
    OBVIOUS
  <2>6. m \in Nat /\ m - 1 = 1 + m
    BY <2>1, <2>2, <2>4, <2>5
  <2> QED  BY <2>6
<1>3. draining = {} /\ Minded(entries, pendingLoads, pendingFrees, draining, deferred, UnderWay)
  BY <1>1 DEF CacheInv, Staged, MindedNow
<1>4. \A h \in LiveIn(entries) : entries[h].acquires = 0 => entries[h].loading
  BY <1>2, <1>3 DEF Minded
<1> QED  BY <1>1, <1>4 DEF Cleared

\* The owner's steps leave the load() under them where it is.
StackKept ==
    /\ Alone(todo') /\ LoadAt(todo') = LoadAt(todo)
    /\ Top(todo') = "SceneRequest" => Cleared'

LEMMA OwnerStack ==
  ASSUME CacheInv, Alone(todo), OwnerStep
  PROVE  StackKept /\ held' = held
<1>0. todo \in Seq(Steps) /\ todo # <<>> /\ Top(todo) \in CacheSteps
  BY DEF CacheInv, CacheTypes, OwnerStep, Submit, Wait, TakeCompletions, Publish, Link,
       Again, Drain,
         Free, At, Top, CacheSteps
<1>1. held' = held
  BY DEF OwnerStep, Submit, Wait, TakeCompletions, Publish, Link, Again, Drain, Free
<1>2. Top(todo) = Head(todo) /\ Head(todo) \notin SceneSteps
  BY <1>0 DEF Top, CacheSteps, SceneSteps
<1>3. /\ Alone(Tail(todo)) /\ LoadAt(Tail(todo)) = LoadAt(todo) /\ Tail(todo) \in Seq(Steps)
      /\ Top(Tail(todo)) = "SceneRequest" => Top(todo) = "Drain"
  BY <1>0, <1>2, LoadTail, TailOf
<1>4. CASE Return
  <2>1. Top(todo) = "Drain" => Drain
    BY <1>0, <1>2 DEF OwnerStep, Submit, Wait, TakeCompletions, Publish, Link, Again, Free,
         At
  <2> QED  BY <1>1, <1>3, <1>4, <2>1, DrainClears DEF Return, StackKept
<1>5. ASSUME NEW p \in {loadingPhase, <<"Drain">>, <<"Link">>, <<"Free">>},
             NEW q \in {todo, Tail(todo)}, todo' = p \o q, Top(q) # "SceneRequest"
      PROVE  StackKept
  <2>1. p \in Seq(CacheSteps) /\ p # <<>> /\ q \in Seq(Steps) /\ Alone(q) /\ LoadAt(q) = LoadAt(todo)
    <3>1. p \in Seq(CacheSteps) /\ p # <<>>
      BY CacheCalls
    <3>2. q \in Seq(Steps) /\ Alone(q) /\ LoadAt(q) = LoadAt(todo)
      <4>1. CASE q = todo
        BY <1>0, <4>1, Zenon
      <4>2. CASE q = Tail(todo)
        BY <1>3, <4>2, Zenon
      <4> QED  BY <4>1, <4>2
    <3> QED  BY <3>1, <3>2
  <2>2. Alone(todo') /\ LoadAt(todo') = LoadAt(todo)
    BY <1>5, <2>1, LoadConcat
  <2>3. Top(todo') # "SceneRequest"
    <3>1. Top(p \o q) = Head(p)
      BY <2>1 DEF Top
    <3>2. Head(p) \in CacheSteps
      BY <2>1, TailOf
    <3> QED  BY <1>5, <3>1, <3>2 DEF CacheSteps
  <2> QED  BY <2>2, <2>3 DEF StackKept
<1>6. CASE UNCHANGED todo
  <2>1. Alone(todo') /\ LoadAt(todo') = LoadAt(todo) /\ Top(todo') = Top(todo)
    BY <1>6
  <2>2. "SceneRequest" \notin CacheSteps
    BY DEF CacheSteps
  <2> QED  BY <1>0, <1>1, <2>1, <2>2 DEF StackKept
<1>7. CASE Again
  <2>1. Top(todo) # "Drain"
    BY <1>7 DEF Again, At, Top
  <2> QED  BY <1>1, <1>3, <1>5, <1>7, <2>1 DEF Again
<1>8. CASE todo' = <<"Link">> \o todo \/ todo' = <<"Free">> \o todo
  BY <1>0, <1>1, <1>5, <1>8 DEF CacheSteps
<1> QED  BY <1>1, <1>4, <1>6, <1>7, <1>8 DEF OwnerStep, Submit, Wait, TakeCompletions,
     Publish, Link,
            Drain, Free

-----------------------------------------------------------------------------
(* The invariant of the loads of scenes.                                   *)

AllLinked(es, h) == \A r \in ToSet(SceneRefs[es[h].id]) : DependsOn(es, h, r)

\* load() has the handle, and what it has done with it.
SceneHeld == scene \in Handle /\ held[scene] > 0 /\ entries[scene].id = sceneId
Linking == \A r \in ToSet(SceneRefs[sceneId]) :
               r \in ToSet(references) \/ DependsOn(entries, scene, r)

Progress ==
    /\ Top(todo) = "SceneRequest" => Cleared
    /\ LoadAt(todo) \in SceneSteps \ {"SceneRequest"} => SceneHeld
    /\ LoadAt(todo) = "SceneTake" => entries[scene].payload # "Taken"
    /\ LoadAt(todo) \in {"SceneParse", "SceneLink"} => entries[scene].state # "Pending"
    /\ LoadAt(todo) = "SceneLink" => Linking
    /\ LoadAt(todo) = "SceneDone" => AllLinked(entries, scene)

\* What load() gave out depends on all that the scene refers to, while it lives.
Resolved ==
    /\ loaded \subseteq DOMAIN entries
    /\ \A h \in loaded \cap LiveIn(entries) : entries[h].id \in Scenes /\ AllLinked(entries, h)

LoadInv == Alone(todo) /\ SceneTypeOK /\ BytesKept /\ Progress /\ Resolved

LEMMA HeldLive ==
  ASSUME CacheInv
  PROVE  \A h \in Handle : held[h] > 0 => h \in LiveIn(entries)
BY DEF CacheInv, Kept, CountedIn

LEMMA DependsOnward ==
  ASSUME CacheInv, Onward(entries, entries'), NEW h \in LiveIn(entries), h \in LiveIn(entries'),
         NEW r, DependsOn(entries, h, r)
  PROVE  DependsOn(entries', h, r)
<1>1. PICK d \in ToSet(entries[h].dependencies) : entries[d].id = r
  BY DEF DependsOn
<1>2. h \in DOMAIN entries /\ d \in DOMAIN entries
  <2>1. CountedIn(entries, held)
    BY DEF CacheInv, Kept
  <2> QED  BY <1>1, <2>1, EntriesTyped DEF CountedIn
<1>3. d \in ToSet(entries'[h].dependencies)
  BY <1>1, <1>2 DEF Onward, Still, LiveIn
<1>4. entries'[d].id = r
  BY <1>1, <1>2 DEF Onward, Still
<1> QED  BY <1>3, <1>4 DEF DependsOn

LEMMA LinkedOnwards ==
  ASSUME CacheInv, Onward(entries, entries'), NEW h \in LiveIn(entries), h \in LiveIn(entries'),
         AllLinked(entries, h)
  PROVE  AllLinked(entries', h) /\ entries'[h].id = entries[h].id
<1>1. entries'[h].id = entries[h].id
  BY EntriesTyped DEF Onward, Still
<1> QED  BY <1>1, DependsOnward DEF AllLinked

\* Nothing that is not loaded is published.
LEMMA BytesOnward ==
  ASSUME CacheInv, CacheInv', BytesKept, Onward(entries, entries'),
         NEW U, U = {g \in Unpublished' : entries'[g].error \/ entries'[g].payload = "Fresh"},
         Unpublished' \subseteq Unpublished \cup U
  PROVE  BytesKept'
<1>1. LiveIn(entries') \subseteq DOMAIN entries'
  BY DEF LiveIn
<1>2. ASSUME NEW h \in LiveIn(entries')
      PROVE  /\ entries'[h].state = "Pending" => entries'[h].payload # "Taken"
             /\ entries'[h].state = "Ready" => entries'[h].payload # "None"
  <2>1. CASE h \in DOMAIN entries
    BY <2>1 DEF Onward, Still, LiveIn, BytesKept
  <2>2. CASE h \notin DOMAIN entries
    BY <1>1, <2>2 DEF Onward
  <2> QED  BY <2>1, <2>2
<1>3. ASSUME NEW h \in Unpublished'
      PROVE  entries'[h].error \/ entries'[h].payload = "Fresh"
  <2>1. SUFFICES ASSUME h \in Unpublished PROVE entries'[h].error \/ entries'[h].payload = "Fresh"
    BY <1>3
  <2>2. h \in LiveIn(entries) /\ h \in LiveIn(entries')
    BY <1>3, <2>1 DEF CacheInv, MindedNow, Minded, UnderWay
  <2>3. h \in DOMAIN entries /\ Still(entries[h], entries'[h]) /\ entries'[h].occupied
    BY <2>2, EntriesTyped DEF Onward, LiveIn
  <2>4. entries[h].error \/ entries[h].payload = "Fresh"
    BY <2>1 DEF BytesKept
  <2> QED  BY <2>3, <2>4 DEF Still
<1> QED  BY <1>2, <1>3 DEF BytesKept

LEMMA ResolvedOnward ==
  ASSUME CacheInv, Resolved, Onward(entries, entries'), loaded' = loaded
  PROVE  Resolved'
<1>1. loaded' \subseteq DOMAIN entries'
  BY DEF Resolved, Onward
<1>2. ASSUME NEW h \in loaded \cap LiveIn(entries')
      PROVE  entries'[h].id \in Scenes /\ AllLinked(entries', h)
  <2>1. h \in LiveIn(entries)
    BY <1>2 DEF Resolved, Onward, Still, LiveIn
  <2>2. entries[h].id \in Scenes /\ AllLinked(entries, h)
    BY <1>2, <2>1 DEF Resolved
  <2> QED  BY <1>2, <2>1, <2>2, LinkedOnwards
<1> QED  BY <1>1, <1>2 DEF Resolved

\* Under the steps of the cache.
LEMMA ProgressOnward ==
  ASSUME CacheInv, CacheInv', Progress, Onward(entries, entries'), StackKept,
         UNCHANGED <<sceneId, scene, references>>, held' = held \/ LoadAt(todo) = "None"
  PROVE  Progress'
<1>1. LoadAt(todo') = LoadAt(todo) /\ (Top(todo') = "SceneRequest" => Cleared')
  BY DEF StackKept
<1>2. CASE LoadAt(todo) \in SceneSteps \ {"SceneRequest"}
  <2>1. SceneHeld /\ held' = held /\ "None" \notin SceneSteps
    BY <1>2 DEF Progress, SceneSteps
  <2>2. scene \in LiveIn(entries) /\ scene \in LiveIn(entries') /\ scene' = scene
    BY <2>1, HeldLive DEF SceneHeld, CacheInv, Kept, CountedIn
  <2>3. Still(entries[scene], entries'[scene]) /\ entries'[scene].occupied
    BY <2>2, EntriesTyped DEF Onward, LiveIn
  <2>4. SceneHeld'
    BY <2>1, <2>3 DEF SceneHeld, Still
  <2>5. LoadAt(todo) = "SceneTake" => entries'[scene].payload # "Taken"
    BY <2>3 DEF Progress, Still
  <2>6. LoadAt(todo) \in {"SceneParse", "SceneLink"} => entries'[scene].state # "Pending"
    BY <2>3 DEF Progress, Still
  <2>7. LoadAt(todo) = "SceneLink" => Linking'
    BY <2>2, DependsOnward DEF Progress, Linking
  <2>8. LoadAt(todo) = "SceneDone" => AllLinked(entries', scene)
    BY <2>2, LinkedOnwards DEF Progress
  <2> QED  BY <1>1, <2>2, <2>4, <2>5, <2>6, <2>7, <2>8 DEF Progress
<1>3. CASE LoadAt(todo) \notin SceneSteps \ {"SceneRequest"}
  <2>1. LoadAt(todo) \notin {"SceneTake", "SceneParse", "SceneLink", "SceneDone"}
    BY <1>3 DEF SceneSteps
  <2> QED  BY <1>1, <1>3, <2>1 DEF Progress
<1> QED  BY <1>2, <1>3

LEMMA LoadOnward ==
  ASSUME CacheInv, CacheInv', LoadInv, Onward(entries, entries'), StackKept, UNCHANGED sceneVars,
         held' = held \/ LoadAt(todo) = "None",
         NEW U, U = {g \in Unpublished' : entries'[g].error \/ entries'[g].payload = "Fresh"},
         Unpublished' \subseteq Unpublished \cup U
  PROVE  LoadInv'
<1>1. Alone(todo)' /\ SceneTypeOK'
  BY DEF StackKept, LoadInv, SceneTypeOK, sceneVars
<1>2. BytesKept'
  BY BytesOnward DEF LoadInv
<1>3. Progress' /\ Resolved'
  BY ProgressOnward, ResolvedOnward DEF LoadInv, sceneVars
<1> QED  BY <1>1, <1>2, <1>3 DEF LoadInv

LEMMA CacheStepLoads ==
  ASSUME CacheInv, CacheInv', LoadInv, CacheStep
  PROVE  LoadInv'
<1>0. UNCHANGED sceneVars /\ todo \in Seq(Steps) /\ BytesKept /\ Alone(todo)
  BY DEF CacheStep, CacheInv, CacheTypes, LoadInv
<1>1. ASSUME Onward(entries, entries'), StackKept, held' = held \/ LoadAt(todo) = "None",
             Unpublished' \subseteq Unpublished
      PROVE  LoadInv'
  BY <1>0, <1>1, LoadOnward
<1>2. ASSUME Idle, Onward(entries, entries'), work' = work, publishing' = publishing,
             \/ UNCHANGED todo
             \/ todo' \in {loadingPhase, <<"Drain">>}
      PROVE  LoadInv'
  <2>1. todo = <<>> /\ LoadAt(todo) = "None" /\ Alone(todo) /\ Top(todo) = "None"
    BY <1>2, LoadNone DEF Idle, Top
  <2>2. \A q \in {loadingPhase, <<"Drain">>} :
           Alone(q) /\ LoadAt(q) = "None" /\ Top(q) # "SceneRequest" /\ Top(q) # "Link"
    BY CacheCalls, ShapedCalls
  <2>3. Alone(todo') /\ LoadAt(todo') = "None" /\ Top(todo') # "SceneRequest" /\ Top(todo') # "Link"
    BY <1>2, <2>1, <2>2
  <2>4. StackKept
    BY <2>1, <2>3 DEF StackKept
  <2>5. Unpublished' = Unpublished
    BY <1>2, <2>1, <2>3, UnpublishedTop DEF work
  <2> QED  BY <1>1, <1>2, <2>1, <2>4, <2>5
<1>3. CASE \E id \in Ids : Request(id)
  <2>1. PICK id \in Ids, h \in Handle : Requested(id, h) /\ Idle /\ UNCHANGED <<work, todo, locals>>
    BY <1>3 DEF Request
  <2> QED  BY <1>2, <2>1, RequestedOnward DEF locals
<1>4. CASE \E h \in Handle : Release(h)
  <2>1. PICK h \in Handle : Released(h) /\ Idle /\ UNCHANGED <<work, todo, locals>>
    BY <1>4 DEF Release
  <2> QED  BY <1>2, <2>1, ReleasedOnward DEF locals
<1>5. CASE \E h \in Live, id \in Ids : AddDependency(h, id)
  <2>1. PICK h \in Live, id \in Ids :
             /\ Linked(h, id) \/ UNCHANGED entries
             /\ Idle /\ UNCHANGED <<work, todo, locals>>
    BY <1>5 DEF AddDependency
  <2>2. h \in LiveIn(entries)
    BY EntriesTyped
  <2>3. Onward(entries, entries')
    BY <2>1, <2>2, LinkedOnward, OnwardSame, EntriesTyped
  <2> QED  BY <1>2, <2>1, <2>3 DEF locals
<1>6. CASE runLoadingPhase \/ drainFrees
  <2>1. Idle /\ UNCHANGED <<entries, work, publishing>> /\ todo' \in {loadingPhase, <<"Drain">>}
    BY <1>6 DEF runLoadingPhase, drainFrees, Call
  <2>2. Onward(entries, entries')
    BY <2>1, OnwardSame, EntriesTyped
  <2> QED  BY <1>2, <2>1, <2>2
<1>7. CASE OwnerStep
  <2>1. Onward(entries, entries') /\ Unpublished' \subseteq Unpublished /\ StackKept /\ held' = held
    BY <1>0, <1>7, OwnerOnward, OwnerUnpublished, OwnerStack
  <2> QED  BY <1>1, <2>1
<1>8. CASE \E h \in Handle : RunLoadTask(h)
  <2>1. PICK h \in Handle : RunLoadTask(h)
    BY <1>8
  <2>2. /\ Onward(entries, entries')
        /\ \A g \in Unpublished' : g \in Unpublished \/ entries'[g].error \/ entries'[g].payload = "Fresh"
        /\ Cleared => Cleared'
    BY <2>1, RunLoadTaskOnward
  <2>3. todo' = todo /\ held' = held
    BY <2>1 DEF RunLoadTask
  <2>4. StackKept
    BY <1>0, <2>2, <2>3 DEF StackKept, LoadInv, Progress
  <2> DEFINE U == {g \in Unpublished' : entries'[g].error \/ entries'[g].payload = "Fresh"}
  <2>5. Unpublished' \subseteq Unpublished \cup U
    BY <2>2
  <2> QED  BY <1>0, <2>2, <2>3, <2>4, <2>5, LoadOnward
<1> QED  BY <1>3, <1>4, <1>5, <1>6, <1>7, <1>8 DEF CacheStep, OtherCall

-----------------------------------------------------------------------------
(* The steps of load() itself.                                             *)

\* q is what a step leaves: load() goes on at x, when nothing else is left.
Leaves(q, x) ==
    /\ q \in Seq(Steps) /\ Shaped(q) /\ Alone(q) /\ LoadAt(q) = x
    /\ Top(q) \notin {"Link", "SceneRequest"}

LEMMA LeavesNext ==
    /\ Leaves(<<>>, "None")
    /\ \A x \in SceneSteps \ {"SceneRequest"} : Leaves(<<x>>, x)
    /\ \A x \in {"SceneTake", "SceneDone"} : Leaves(loadingPhase \o <<x>>, x)
    /\ Leaves(loadSteps, "SceneRequest")
<1>1. Leaves(<<>>, "None")
  <2>1. Len(<<>>) = 0 /\ <<>> \in Seq(Steps) /\ \A k \in 1 .. 0 : FALSE
    BY EmptySeq
  <2> QED  BY <2>1, LoadNone DEF Leaves, Shaped, Top
<1>2. ASSUME NEW x \in SceneSteps PROVE Shaped(<<x>>)
  <2>1. Len(<<x>>) = 1 /\ <<x>>[1] = x /\ \A k \in 1 .. 1 : k = 1
    OBVIOUS
  <2> QED  BY <2>1 DEF Shaped, SceneSteps
<1>3. ASSUME NEW x \in SceneSteps \ {"SceneRequest"} PROVE Leaves(<<x>>, x)
  <2>1. x \notin {"Link", "SceneRequest"}
    BY DEF SceneSteps
  <2> QED  BY <1>2, <2>1, LoadOne DEF Leaves
<1>4. /\ loadingPhase \in Seq(CacheSteps) /\ loadingPhase \in Seq(Steps) /\ loadingPhase # <<>>
      /\ Shaped(loadingPhase) /\ Top(loadingPhase) \notin {"Link", "SceneRequest"}
  BY CacheCalls, ShapedCalls
<1>5. ASSUME NEW x \in {"SceneTake", "SceneDone"} PROVE Leaves(loadingPhase \o <<x>>, x)
  <2>1. x \in SceneSteps /\ x \notin {"Link", "Free", "SceneRequest"}
    BY DEF SceneSteps
  <2>2. <<x>> \in Seq(Steps) /\ LoadAt(<<x>>) = x /\ Alone(<<x>>) /\ Top(<<x>>) = x /\ Shaped(<<x>>)
    BY <1>2, <2>1, LoadOne
  <2>3. Alone(loadingPhase \o <<x>>) /\ LoadAt(loadingPhase \o <<x>>) = x
    BY <1>4, <2>1, <2>2, LoadConcat
  <2>4. /\ loadingPhase \o <<x>> \in Seq(Steps) /\ Shaped(loadingPhase \o <<x>>)
        /\ Top(loadingPhase \o <<x>>) = Top(loadingPhase)
    BY <1>4, <2>1, <2>2, ShapedConcat
  <2> QED  BY <1>4, <2>3, <2>4 DEF Leaves
<1>6. Leaves(loadSteps, "SceneRequest")
  <2>1. loadSteps \in Seq(Steps) /\ Shaped(loadSteps)
    BY ShapedCalls DEF loadSteps
  <2>2. /\ Len(loadSteps) = 2 /\ loadSteps[1] = "Drain" /\ loadSteps[2] = "SceneRequest"
        /\ Head(loadSteps) = "Drain" /\ loadSteps # <<>>
    BY DEF loadSteps
  <2>3. \A k \in 1 .. 2 : k = 1 \/ (k = 2 /\ k - 1 = 1)
    OBVIOUS
  <2>4. "Drain" \notin SceneSteps /\ "SceneRequest" \in SceneSteps
    BY DEF SceneSteps
  <2> QED  BY <2>1, <2>2, <2>3, <2>4 DEF Leaves, Alone, LoadAt, Top
<1> QED  BY <1>1, <1>3, <1>5, <1>6

\* A step of load() is the only one that is left.
LEMMA SceneTop ==
  ASSUME CacheInv, LoadInv, NEW step \in SceneSteps, At(step)
  PROVE  /\ Tail(todo) = <<>> /\ LoadAt(todo) = step /\ Top(todo) = step
         /\ Return => todo' = <<>>
         /\ \A x \in SceneSteps : Continue(x) => todo' = <<x>>
         /\ \A x \in SceneSteps : loadingPhase \o <<x>> \o Tail(todo) = loadingPhase \o <<x>>
<1>1. todo \in Seq(Steps) /\ todo # <<>> /\ Head(todo) = step /\ Alone(todo)
  BY DEF CacheInv, CacheTypes, LoadInv, At
<1>2. Tail(todo) = <<>> /\ LoadAt(todo) = step /\ Top(todo) = step
  BY <1>1, LoadTail DEF Top
<1>3. \A q \in Seq(Steps) : q \o <<>> = q
  BY ConcatEmptySeq
<1>4. \A x \in SceneSteps : <<x>> \in Seq(Steps) /\ loadingPhase \in Seq(Steps)
  BY LoadOne, ShapedCalls
<1>5. \A x \in SceneSteps : loadingPhase \o <<x>> \in Seq(Steps)
  BY <1>4, ConcatProperties
<1>6. \A x \in SceneSteps : loadingPhase \o <<x>> \o <<>> = loadingPhase \o <<x>>
  BY <1>3, <1>5
<1> QED  BY <1>2, <1>3, <1>4, <1>6 DEF Return, Continue

\* What a step of load() leaves of the cache.
LEMMA EffectCallStep ==
  ASSUME CacheInv, Effect, NEW q, NEW x, Leaves(q, x), todo' = q,
         Top(todo) \in SceneSteps \cup {"None"}, phaseError' \in BOOLEAN,
         UNCHANGED <<catalog, work, publishing, linking, draining, deferred>>
  PROVE  /\ CacheInv' /\ Unpublished' = Unpublished
         /\ Alone(todo') /\ LoadAt(todo') = x /\ Top(todo') # "SceneRequest"
<1>0. Top(todo) \notin {"Link", "Free", "Publish", "Drain"} /\ Top(todo') # "Link"
  BY DEF SceneSteps, Leaves
<1>1. publishing = <<>> /\ draining = {} /\ deferred = {}
  BY <1>0 DEF CacheInv, Staged
<1>2. UnderWay' = UnderWay /\ Unpublished' = Unpublished
  BY <1>0, AtTop, UnpublishedTop DEF work
<1>3. MindedNow(UnderWay)' /\ Kept(entries, byId, held)'
  BY <1>2 DEF Effect, MindedNow
<1>4. CacheTypes'
  BY DEF CacheInv, CacheTypes, Effect, Leaves, work
<1>5. Staged' /\ Queued'
  BY <1>0, <1>1 DEF CacheInv, Staged, Queued, Leaves, work
<1> QED  BY <1>2, <1>3, <1>4, <1>5 DEF CacheInv, Leaves

LEMMA NoEffect ==
  ASSUME CacheInv, UNCHANGED <<entries, byId, queues, held>>
  PROVE  Effect /\ Onward(entries, entries')
<1>1. Effect
  BY DEF CacheInv, CacheTypes, MindedNow, Effect, queues
<1> QED  BY <1>1, EntriesTyped, OnwardSame

LEMMA BytesStay ==
  ASSUME CacheInv, CacheInv', BytesKept, Onward(entries, entries'), Unpublished' = Unpublished
  PROVE  BytesKept'
BY BytesOnward

LEMMA LoadCallStep ==
  ASSUME CacheInv, LoadInv, NEW id \in Scenes, load(id)
  PROVE  CacheInv' /\ LoadInv'
<1>1. /\ Top(todo) = "None" /\ todo' = loadSteps /\ phaseError' = FALSE /\ sceneId' = id
      /\ UNCHANGED <<catalog, entries, byId, queues, work, publishing, linking,
                     draining, deferred, held, scene, references, loaded>>
  BY IdleTop DEF load, Call
<1>2. Effect /\ Onward(entries, entries')
  BY <1>1, NoEffect
<1>3. /\ CacheInv' /\ Unpublished' = Unpublished
      /\ Alone(todo') /\ LoadAt(todo') = "SceneRequest" /\ Top(todo') # "SceneRequest"
  BY <1>1, <1>2, LeavesNext, EffectCallStep
<1>4. BytesKept' /\ Resolved' /\ SceneTypeOK'
  BY <1>1, <1>2, <1>3, BytesStay, ResolvedOnward DEF LoadInv, SceneTypeOK
<1>5. Progress'
  BY <1>3 DEF Progress
<1> QED  BY <1>3, <1>4, <1>5 DEF LoadInv

LEMMA NotHeld ==
  ASSUME CacheInv, NEW h \in Handle, h \in LiveIn(entries) => entries[h].acquires = 0
  PROVE  held[h] = 0
<1>1. Typed(entries, byId, held) /\ CountedIn(entries, held)
  BY DEF CacheInv, Kept
<1>2. held[h] \in Nat
  BY <1>1, EntryFields
<1>3. CASE h \in LiveIn(entries)
  <2>1. Cardinality(Places(Deps(entries), h)) \in Nat
    BY <1>1, EntryFields, PlacesFinite
  <2>2. entries[h].acquires = held[h] + Cardinality(Places(Deps(entries), h)) /\ entries[h].acquires = 0
    BY <1>1, <1>3 DEF CountedIn
  <2>3. PICK m, n : m = held[h] /\ n = Cardinality(Places(Deps(entries), h))
    OBVIOUS
  <2>4. m \in Nat /\ n \in Nat /\ 0 = m + n
    BY <1>2, <2>1, <2>2, <2>3
  <2> QED  BY <2>3, <2>4
<1>4. CASE h \notin LiveIn(entries)
  <2>1. ~(held[h] > 0)
    BY <1>1, <1>4 DEF CountedIn
  <2> QED  BY <1>2, <2>1
<1> QED  BY <1>3, <1>4

LEMMA SceneRequestStep ==
  ASSUME CacheInv, Bounded, LoadInv, SceneRequest
  PROVE  CacheInv' /\ Bounded' /\ LoadInv'
<1>0. /\ At("SceneRequest") /\ "SceneRequest" \in SceneSteps
      /\ UNCHANGED <<catalog, work, publishing, linking, draining, deferred, sceneId, references, loaded>>
      /\ sceneId \in Scenes /\ sceneId \in Ids /\ BytesKept /\ phaseError \in BOOLEAN
  BY ScenesAssumption DEF SceneRequest, SceneSteps, LoadInv, SceneTypeOK, CacheInv,
       CacheTypes
<1>1. Tail(todo) = <<>> /\ Top(todo) = "SceneRequest" /\ (Return => todo' = <<>>)
  BY <1>0, SceneTop
<1>2. CASE Return /\ UNCHANGED <<entries, byId, queues, phaseError, held, scene>>
  <2>1. Effect /\ Onward(entries, entries')
    BY <1>2, NoEffect
  <2>2. /\ CacheInv' /\ Unpublished' = Unpublished
        /\ Alone(todo') /\ LoadAt(todo') = "None" /\ Top(todo') # "SceneRequest"
    BY <1>0, <1>1, <1>2, <2>1, LeavesNext, EffectCallStep
  <2>3. BytesKept' /\ Resolved' /\ SceneTypeOK' /\ Bounded'
    BY <1>0, <1>2, <2>1, <2>2, BytesStay, ResolvedOnward DEF LoadInv, SceneTypeOK, Bounded
  <2>4. Progress'
    BY <2>2 DEF Progress, SceneSteps
  <2> QED  BY <2>2, <2>3, <2>4 DEF LoadInv
<1>3. CASE /\ ~AlreadyLoaded
           /\ \E h \in Handle :
                /\ Requested(sceneId, h)
                /\ scene' = h
                /\ held' = [held EXCEPT ![h] = @ + 1]
           /\ phaseError' = FALSE
           /\ todo' = loadingPhase \o <<"SceneTake">> \o Tail(todo)
  <2>1. PICK h \in Handle : Requested(sceneId, h) /\ scene' = h /\ held' = [held EXCEPT ![h] = @ + 1]
    BY <1>3
  <2>2. phaseError' = FALSE /\ todo' = loadingPhase \o <<"SceneTake">>
    <3>1. "SceneTake" \in SceneSteps
      BY DEF SceneSteps
    <3> QED  BY <1>0, <1>3, <3>1, SceneTop
  <2>3. Effect /\ Onward(entries, entries') /\ entries'[h].id = sceneId
    BY <1>0, <2>1, RequestedEffect, RequestedOnward DEF MoreHeld
  <2>4. /\ CacheInv' /\ Unpublished' = Unpublished
        /\ Alone(todo') /\ LoadAt(todo') = "SceneTake" /\ Top(todo') # "SceneRequest"
    BY <1>0, <1>1, <2>2, <2>3, LeavesNext, EffectCallStep
  <2>5. h \in LiveIn(entries) => entries[h].acquires = 0 /\ entries[h].payload # "Taken"
    <3>1. SUFFICES ASSUME h \in LiveIn(entries)
                   PROVE  entries[h].acquires = 0 /\ entries[h].payload # "Taken"
      OBVIOUS
    <3>2. h \in DOMAIN entries /\ entries[h] \in Entry /\ DOMAIN entries = 1 .. Len(entries)
      BY <3>1, EntriesTyped, EntryFields DEF CacheInv, Kept
    <3>3. h # NewHandle
      <4>1. Len(entries) \in Nat
        BY EntryFields DEF CacheInv, Kept
      <4> QED  BY <3>2, <4>1 DEF NewHandle
    <3>4. h = byId[sceneId] /\ byId[sceneId] # NoHandle
      BY <2>1, <3>3 DEF Requested, Share
    <3>5. ~(entries[h].acquires > 0)
      BY <1>3, <3>4 DEF AlreadyLoaded, Acquires
    <3>6. entries[h].acquires = 0
      <4>1. entries[h].acquires \in Nat
        BY <3>2 DEF Entry
      <4>2. \A n \in Nat : ~(n > 0) => n = 0
        OBVIOUS
      <4> QED  BY <3>5, <4>1, <4>2
    <3>7. entries[h].loading
      BY <1>1, <3>1, <3>6 DEF LoadInv, Progress, Cleared
    <3>8. entries[h].state = "Pending"
      BY <3>1, <3>7 DEF CacheInv, MindedNow, Minded
    <3> QED  BY <1>0, <3>1, <3>6, <3>8 DEF BytesKept
  <2>6. Bounded' /\ held'[h] > 0
    <3>1. held[h] = 0
      BY <2>5, NotHeld
    <3>2. 0 < MaxHolds
      BY BoundsAssumption
    <3>3. held' = [held EXCEPT ![h] = 1] /\ h \in DOMAIN held /\ 1 \in 0 .. MaxHolds
      BY <2>1, <3>1, <3>2, BoundsAssumption DEF Bounded
    <3> QED  BY <3>3 DEF Bounded
  <2>7. h \in LiveIn(entries')
    BY <2>4, <2>6 DEF CacheInv, Kept, CountedIn
  <2>8. entries'[h].payload # "Taken"
    <3>1. h \in DOMAIN entries' /\ entries'[h].occupied
      BY <2>7 DEF LiveIn
    <3>2. CASE h \in DOMAIN entries
      BY <2>3, <2>5, <3>1, <3>2 DEF Onward, Still, LiveIn
    <3>3. CASE h \notin DOMAIN entries
      BY <2>3, <3>1, <3>3 DEF Onward
    <3> QED  BY <3>2, <3>3
  <2>9. Progress'
    BY <1>0, <2>1, <2>3, <2>4, <2>6, <2>8 DEF Progress, SceneHeld
  <2>10. BytesKept' /\ Resolved' /\ SceneTypeOK'
    BY <1>0, <2>1, <2>3, <2>4, BytesStay, ResolvedOnward DEF LoadInv, SceneTypeOK
  <2> QED  BY <2>4, <2>6, <2>9, <2>10 DEF LoadInv
<1> QED  BY <1>2, <1>3 DEF SceneRequest

\* Where load() goes on when nothing but the stack has changed.
LEMMA OnlyStack ==
  ASSUME CacheInv, LoadInv, NEW step \in SceneSteps, At(step), NEW q, NEW x, Leaves(q, x), todo' = q,
         UNCHANGED <<catalog, entries, byId, queues, work, publishing, linking, draining,
         deferred,
                     held, sceneId>>, phaseError' \in BOOLEAN
  PROVE  /\ CacheInv' /\ Alone(todo') /\ LoadAt(todo') = x /\ Top(todo') # "SceneRequest"
         /\ BytesKept'
<1>1. Top(todo) = step
  BY SceneTop
<1>2. Effect /\ Onward(entries, entries')
  BY NoEffect
<1>3. /\ CacheInv' /\ Unpublished' = Unpublished
      /\ Alone(todo') /\ LoadAt(todo') = x /\ Top(todo') # "SceneRequest"
  BY <1>1, <1>2, EffectCallStep
<1> QED  BY <1>2, <1>3, BytesStay DEF LoadInv

LEMMA SceneParseStep ==
  ASSUME CacheInv, LoadInv, SceneParse
  PROVE  CacheInv' /\ LoadInv'
<1>0. /\ At("SceneParse") /\ {"SceneParse", "SceneAbandon", "SceneLink"} \subseteq SceneSteps \ {"SceneRequest"}
      /\ UNCHANGED <<catalog, entries, byId, queues, work, publishing, linking, draining, deferred,
                     held, sceneId, scene, loaded>>
      /\ phaseError' \in BOOLEAN
  BY DEF SceneParse, SceneSteps, CacheInv, CacheTypes, locals
<1>1. LoadAt(todo) = "SceneParse" /\ SceneHeld /\ entries[scene].state # "Pending"
  BY <1>0, SceneTop DEF LoadInv, Progress
<1>2. PICK x \in {"SceneAbandon", "SceneLink"} :
             Continue(x) /\ references' = IF x = "SceneLink" THEN SceneRefs[sceneId] ELSE references
  BY DEF SceneParse
<1>3. todo' = <<x>> /\ Leaves(<<x>>, x)
  BY <1>0, <1>2, SceneTop, LeavesNext
<1>4. /\ CacheInv' /\ Alone(todo') /\ LoadAt(todo') = x /\ Top(todo') # "SceneRequest"
      /\ BytesKept'
  BY <1>0, <1>3, OnlyStack
<1>5. Resolved' /\ SceneTypeOK'
  BY <1>0, <1>2, ScenesAssumption DEF LoadInv, SceneTypeOK, Resolved
<1>6. Progress'
  BY <1>0, <1>1, <1>2, <1>4 DEF Progress, SceneHeld, Linking
<1> QED  BY <1>4, <1>5, <1>6 DEF LoadInv

LEMMA SceneDoneStep ==
  ASSUME CacheInv, LoadInv, SceneDone
  PROVE  CacheInv' /\ LoadInv'
<1>0. /\ At("SceneDone") /\ {"SceneDone", "SceneAbandon"} \subseteq SceneSteps \ {"SceneRequest"}
      /\ UNCHANGED <<catalog, entries, byId, queues, work, publishing, linking, draining, deferred,
                     held, sceneId, references>>
      /\ phaseError' \in BOOLEAN
  BY DEF SceneDone, SceneSteps, CacheInv, CacheTypes, locals
<1>1. LoadAt(todo) = "SceneDone" /\ SceneHeld /\ AllLinked(entries, scene)
  BY <1>0, SceneTop DEF LoadInv, Progress
<1>2. CASE Continue("SceneAbandon") /\ UNCHANGED <<scene, loaded>>
  <2>1. todo' = <<"SceneAbandon">> /\ Leaves(<<"SceneAbandon">>, "SceneAbandon")
    BY <1>0, <1>2, SceneTop, LeavesNext
  <2>2. /\ CacheInv' /\ Alone(todo') /\ LoadAt(todo') = "SceneAbandon" /\ Top(todo') # "SceneRequest"
        /\ BytesKept'
    BY <1>0, <2>1, OnlyStack
  <2>3. Resolved' /\ SceneTypeOK'
    BY <1>0, <1>2 DEF LoadInv, SceneTypeOK, Resolved
  <2>4. Progress'
    BY <1>0, <1>1, <1>2, <2>2 DEF Progress, SceneHeld
  <2> QED  BY <2>2, <2>3, <2>4 DEF LoadInv
<1>3. CASE loaded' = loaded \cup {scene} /\ scene' = NoHandle /\ Return
  <2>1. todo' = <<>> /\ Leaves(<<>>, "None")
    BY <1>0, <1>3, SceneTop, LeavesNext
  <2>2. /\ CacheInv' /\ Alone(todo') /\ LoadAt(todo') = "None" /\ Top(todo') # "SceneRequest"
        /\ BytesKept'
    BY <1>0, <2>1, OnlyStack
  <2>3. scene \in DOMAIN entries /\ entries[scene].id \in Scenes
    BY <1>1, HeldLive, EntriesTyped DEF SceneHeld, LoadInv, SceneTypeOK
  <2>4. Resolved' /\ SceneTypeOK'
    BY <1>0, <1>1, <1>3, <2>3 DEF LoadInv, SceneTypeOK, Resolved, SceneHeld
  <2>5. Progress'
    BY <2>2 DEF Progress, SceneSteps
  <2> QED  BY <2>2, <2>4, <2>5 DEF LoadInv
<1> QED  BY <1>2, <1>3 DEF SceneDone

LEMMA SceneAbandonStep ==
  ASSUME CacheInv, Bounded, LoadInv, SceneAbandon
  PROVE  CacheInv' /\ Bounded' /\ LoadInv'
<1>0. /\ At("SceneAbandon") /\ "SceneAbandon" \in SceneSteps \ {"SceneRequest"}
      /\ UNCHANGED <<catalog, work, publishing, linking, draining, deferred, sceneId, references, loaded>>
      /\ Released(scene) /\ LessHeld(held, scene, held') /\ scene' = NoHandle /\ Return
      /\ phaseError' \in BOOLEAN /\ BytesKept
  BY DEF SceneAbandon, SceneSteps, CacheInv, CacheTypes, locals, LessHeld, LoadInv
<1>1. LoadAt(todo) = "SceneAbandon" /\ SceneHeld /\ Top(todo) = "SceneAbandon" /\ todo' = <<>>
  BY <1>0, SceneTop DEF LoadInv, Progress
<1>2. scene \in Handle /\ held[scene] > 0
  BY <1>1 DEF SceneHeld
<1>3. Effect /\ Onward(entries, entries') /\ Bounded'
  BY <1>0, <1>2, ReleasedEffect, ReleasedOnward, LessBounded
<1>4. /\ CacheInv' /\ Unpublished' = Unpublished
      /\ Alone(todo') /\ LoadAt(todo') = "None" /\ Top(todo') # "SceneRequest"
  BY <1>0, <1>1, <1>3, LeavesNext, EffectCallStep
<1>5. BytesKept' /\ Resolved' /\ SceneTypeOK'
  BY <1>0, <1>3, <1>4, BytesStay, ResolvedOnward DEF LoadInv, SceneTypeOK
<1>6. Progress'
  BY <1>4 DEF Progress, SceneSteps
<1> QED  BY <1>3, <1>4, <1>5, <1>6 DEF LoadInv

LEMMA SceneTakeStep ==
  ASSUME CacheInv, LoadInv, SceneTake
  PROVE  CacheInv' /\ LoadInv'
<1>0. /\ At("SceneTake") /\ {"SceneTake", "SceneAbandon", "SceneParse"} \subseteq SceneSteps \ {"SceneRequest"}
      /\ UNCHANGED <<catalog, byId, queues, work, publishing, linking, draining, deferred, held,
                     sceneId, scene, references, loaded>>
      /\ phaseError' \in BOOLEAN /\ BytesKept
  BY DEF SceneTake, SceneSteps, CacheInv, CacheTypes, locals, sceneVars, LoadInv
<1>1. LoadAt(todo) = "SceneTake" /\ SceneHeld /\ Top(todo) = "SceneTake"
  BY <1>0, SceneTop DEF LoadInv, Progress
<1>2. CASE Continue("SceneAbandon") /\ UNCHANGED entries
  <2>1. todo' = <<"SceneAbandon">> /\ Leaves(<<"SceneAbandon">>, "SceneAbandon")
    BY <1>0, <1>2, SceneTop, LeavesNext
  <2>2. /\ CacheInv' /\ Alone(todo') /\ LoadAt(todo') = "SceneAbandon" /\ Top(todo') # "SceneRequest"
        /\ BytesKept'
    BY <1>0, <1>2, <2>1, OnlyStack
  <2>3. Resolved' /\ SceneTypeOK'
    BY <1>0, <1>2 DEF LoadInv, SceneTypeOK, Resolved
  <2>4. Progress'
    BY <1>0, <1>1, <1>2, <2>2 DEF Progress, SceneHeld
  <2> QED  BY <2>2, <2>3, <2>4 DEF LoadInv
<1>3. CASE /\ State(scene) = "Ready"
           /\ entries' = [entries EXCEPT ![scene].payload = "Taken"]
           /\ Continue("SceneParse")
  <2>1. todo' = <<"SceneParse">> /\ Leaves(<<"SceneParse">>, "SceneParse")
    BY <1>0, <1>3, SceneTop, LeavesNext
  <2>2. scene \in LiveIn(entries) /\ scene \in DOMAIN entries /\ entries[scene] \in Entry
    BY <1>1, HeldLive, EntriesTyped DEF SceneHeld
  <2> DEFINE e == [entries[scene] EXCEPT !.payload = "Taken"]
  <2>3. e \in Entry /\ SameButBytes(entries[scene], e) /\ entries' = Updated(entries, scene, e)
    BY <1>3, <2>2, OtherBytes DEF Updated
  <2>4. e.payload = "Taken" /\ e.error = entries[scene].error
    BY <2>2 DEF Entry
  <2> HIDE DEF e
  <2>5. Effect
    <3>1. Kept(entries, byId, held) /\ Minded(entries, pendingLoads, pendingFrees, draining, deferred, UnderWay)
      BY DEF CacheInv, MindedNow
    <3>2. Kept(entries', byId, held) /\ Minded(entries', pendingLoads, pendingFrees, draining, deferred, UnderWay)
      BY <2>2, <2>3, <3>1, BytesChangeKept
    <3> QED  BY <1>0, <3>2 DEF Effect, queues, CacheInv, CacheTypes
  <2>6. /\ CacheInv' /\ Unpublished' = Unpublished
        /\ Alone(todo') /\ LoadAt(todo') = "SceneParse" /\ Top(todo') # "SceneRequest"
    BY <1>0, <1>1, <2>1, <2>5, EffectCallStep
  <2>7. /\ DOMAIN entries' = DOMAIN entries /\ entries'[scene] = e
        /\ \A g \in DOMAIN entries : g # scene => entries'[g] = entries[g]
    BY <2>2, <2>3 DEF Updated
  <2>8. \A g \in DOMAIN entries : /\ entries'[g].id = entries[g].id
                                  /\ entries'[g].occupied = entries[g].occupied
                                  /\ entries'[g].dependencies = entries[g].dependencies
                                  /\ entries'[g].state = entries[g].state
    BY <2>3, <2>7 DEF SameButBytes
  <2>9. LiveIn(entries') = LiveIn(entries) /\ LiveIn(entries) \subseteq DOMAIN entries
    BY <2>7, <2>8 DEF LiveIn
  <2>10. scene \notin Unpublished /\ Unpublished \subseteq DOMAIN entries
    <3>1. \A h \in Unpublished : h \in LiveIn(entries) /\ entries[h].state = "Pending"
      BY DEF CacheInv, MindedNow, Minded, UnderWay
    <3> QED  BY <1>3, <2>9, <3>1 DEF State
  <2>11. BytesKept'
    <3>1. ASSUME NEW h \in LiveIn(entries)
          PROVE  /\ entries'[h].state = "Pending" => entries'[h].payload # "Taken"
                 /\ entries'[h].state = "Ready" => entries'[h].payload # "None"
      <4>1. CASE h = scene
        BY <1>3, <2>4, <2>7, <2>8, <2>9, <4>1 DEF State
      <4>2. CASE h # scene
        BY <1>0, <2>7, <2>9, <4>2 DEF BytesKept
      <4> QED  BY <4>1, <4>2
    <3>2. \A h \in Unpublished : entries'[h].error \/ entries'[h].payload = "Fresh"
      BY <1>0, <2>7, <2>10 DEF BytesKept
    <3> QED  BY <2>6, <2>9, <3>1, <3>2 DEF BytesKept
  <2>12. Resolved' /\ SceneTypeOK'
    <3>1. \A h \in LiveIn(entries) : \A r : DependsOn(entries', h, r) <=> DependsOn(entries, h, r)
      <4>1. \A h \in LiveIn(entries) : ToSet(entries[h].dependencies) \subseteq DOMAIN entries
        BY <2>9 DEF CacheInv, Kept, CountedIn
      <4> QED  BY <2>8, <2>9, <4>1 DEF DependsOn
    <3>2. \A h \in LiveIn(entries) : AllLinked(entries', h) <=> AllLinked(entries, h)
      BY <2>8, <2>9, <3>1 DEF AllLinked
    <3> QED  BY <1>0, <2>7, <2>8, <2>9, <3>2 DEF LoadInv, SceneTypeOK, Resolved
  <2>13. Progress'
    BY <1>0, <1>1, <1>3, <2>2, <2>6, <2>8 DEF Progress, SceneHeld, State
  <2> QED  BY <2>6, <2>11, <2>12, <2>13 DEF LoadInv
<1> QED  BY <1>2, <1>3 DEF SceneTake

LEMMA SceneLinkStep ==
  ASSUME CacheInv, LoadInv, SceneLink
  PROVE  CacheInv' /\ LoadInv'
<1>0. /\ At("SceneLink")
      /\ {"SceneLink", "SceneAbandon", "SceneDone"} \subseteq SceneSteps \ {"SceneRequest"}
      /\ UNCHANGED <<catalog, work, publishing, linking, draining, deferred, held, sceneId, scene, loaded>>
      /\ BytesKept /\ phaseError \in BOOLEAN
  BY DEF SceneLink, SceneSteps, CacheInv, CacheTypes, LoadInv
<1>1. /\ LoadAt(todo) = "SceneLink" /\ SceneHeld /\ Top(todo) = "SceneLink" /\ Linking
      /\ entries[scene].state # "Pending" /\ Tail(todo) = <<>> /\ references \in Seq(Ids)
  BY <1>0, SceneTop DEF LoadInv, Progress, SceneTypeOK
<1>2. scene \in LiveIn(entries)
  BY <1>1, HeldLive DEF SceneHeld
<1>3. CASE /\ references = <<>>
           /\ phaseError' = FALSE
           /\ todo' = loadingPhase \o <<"SceneDone">> \o Tail(todo)
           /\ UNCHANGED <<entries, byId, queues, references>>
  <2>1. todo' = loadingPhase \o <<"SceneDone">>
    BY <1>0, <1>3, SceneTop
  <2>2. Leaves(loadingPhase \o <<"SceneDone">>, "SceneDone")
    BY LeavesNext
  <2>3. /\ CacheInv' /\ Alone(todo') /\ LoadAt(todo') = "SceneDone" /\ Top(todo') # "SceneRequest"
        /\ BytesKept'
    BY <1>0, <1>3, <2>1, <2>2, OnlyStack
  <2>4. Resolved' /\ SceneTypeOK'
    BY <1>0, <1>3 DEF LoadInv, SceneTypeOK, Resolved
  <2>5. AllLinked(entries, scene)
    BY <1>1, <1>3, EmptySet DEF Linking, AllLinked, SceneHeld
  <2>6. Progress'
    BY <1>0, <1>1, <1>3, <2>3, <2>5 DEF Progress, SceneHeld
  <2> QED  BY <2>3, <2>4, <2>6 DEF LoadInv
<1>4. CASE /\ references # <<>>
           /\ Linked(scene, Head(references))
           /\ references' = Tail(references)
           /\ UNCHANGED <<todo, phaseError>>
  <2>1. /\ Head(references) \in Ids /\ Tail(references) \in Seq(Ids)
        /\ ToSet(references) = {Head(references)} \cup ToSet(Tail(references))
    BY <1>1, <1>4, TailOf
  <2>2. Effect /\ scene \in LiveIn(entries') /\ entries'[scene].state # "Pending"
    BY <1>0, <1>1, <1>2, <1>4, <2>1, LinkedEffect
  <2>3. Onward(entries, entries') /\ DependsOn(entries', scene, Head(references))
    BY <1>2, <1>4, <2>1, LinkedOnward
  <2>4. todo' = <<"SceneLink">>
    <3>1. todo \in Seq(Steps) /\ todo # <<>>
      BY <1>0 DEF CacheInv, CacheTypes, At
    <3>2. todo = <<Head(todo)>> \o Tail(todo) /\ Head(todo) = "SceneLink"
      BY <1>0, <3>1, HeadTailProperties DEF At
    <3>3. <<"SceneLink">> \in Seq(Steps)
      BY <1>0, LoadOne
    <3> QED  BY <1>1, <1>4, <3>2, <3>3, ConcatEmptySeq
  <2>5. Leaves(<<"SceneLink">>, "SceneLink")
    BY <1>0, LeavesNext
  <2>6. /\ CacheInv' /\ Unpublished' = Unpublished
        /\ Alone(todo') /\ LoadAt(todo') = "SceneLink" /\ Top(todo') # "SceneRequest"
    BY <1>0, <1>1, <1>4, <2>2, <2>4, <2>5, EffectCallStep
  <2>7. BytesKept' /\ Resolved' /\ SceneTypeOK'
    BY <1>0, <1>4, <2>1, <2>3, <2>6, BytesStay, ResolvedOnward DEF LoadInv, SceneTypeOK
  <2>8. SceneHeld'
    BY <1>0, <1>1, <1>2, <2>3, EntriesTyped DEF SceneHeld, Onward, Still
  <2>9. Linking'
    <3>1. SUFFICES ASSUME NEW r \in ToSet(SceneRefs[sceneId])
                   PROVE  r \in ToSet(Tail(references)) \/ DependsOn(entries', scene, r)
      BY <1>0, <1>4 DEF Linking
    <3>2. r \in ToSet(references) \/ DependsOn(entries, scene, r)
      BY <1>1 DEF Linking
    <3> QED  BY <1>2, <2>1, <2>2, <2>3, <3>2, DependsOnward
  <2>10. Progress'
    BY <1>0, <2>2, <2>6, <2>8, <2>9 DEF Progress
  <2> QED  BY <2>6, <2>7, <2>10 DEF LoadInv
<1>5. CASE /\ pendingFrees' = RefusedFrees(Head(references))
           /\ references' = <<>>
           /\ Continue("SceneAbandon")
           /\ UNCHANGED <<entries, byId, pendingLoads, phaseError>>
  <2>1. Effect /\ Onward(entries, entries')
    BY <1>0, <1>5, RefusedEffect, OnwardSame, EntriesTyped
  <2>2. todo' = <<"SceneAbandon">> /\ Leaves(<<"SceneAbandon">>, "SceneAbandon")
    BY <1>0, <1>5, SceneTop, LeavesNext
  <2>3. /\ CacheInv' /\ Unpublished' = Unpublished
        /\ Alone(todo') /\ LoadAt(todo') = "SceneAbandon" /\ Top(todo') # "SceneRequest"
    BY <1>0, <1>1, <1>5, <2>1, <2>2, EffectCallStep
  <2>4. BytesKept' /\ Resolved' /\ SceneTypeOK'
    BY <1>0, <1>5, <2>1, <2>3, BytesStay, ResolvedOnward, EmptySeq DEF LoadInv, SceneTypeOK
  <2>5. Progress'
    BY <1>0, <1>1, <1>5, <2>3 DEF Progress, SceneHeld
  <2> QED  BY <2>3, <2>4, <2>5 DEF LoadInv
<1> QED  BY <1>3, <1>4, <1>5 DEF SceneLink

LEMMA LoadInitially == SceneInit => LoadInv
<1> SUFFICES ASSUME SceneInit PROVE LoadInv
  OBVIOUS
<1>1. /\ todo = <<>> /\ entries = <<>> /\ completions = <<>> /\ publishing = <<>>
      /\ sceneId \in Scenes /\ scene = NoHandle /\ references = <<>> /\ loaded = {}
  BY DEF SceneInit, Init
<1>2. Alone(todo) /\ LoadAt(todo) = "None" /\ Top(todo) = "None"
  BY <1>1, LoadNone DEF Top
<1>3. LiveIn(entries) = {} /\ Unpublished = {}
  BY <1>1, <1>2, EmptySet, UnpublishedTop DEF LiveIn
<1> QED  BY <1>1, <1>2, <1>3, EmptySeq DEF LoadInv, SceneTypeOK, BytesKept, Progress,
     Resolved, SceneSteps

-----------------------------------------------------------------------------
(* The theorems.                                                           *)

\* What the invariant says in the words of the properties.
LEMMA InvariantSays ==
  ASSUME CacheInv
  PROVE  LoadingPinned /\ Indexed /\ CountsBalanced /\ Acyclic /\ NothingForgotten
<1>0. Typed(entries, byId, held) /\ IndexedIn(entries, byId) /\ CountedIn(entries, held)
      /\ AcyclicIn(Deps(entries)) /\ MindedNow(UnderWay)
  BY DEF CacheInv, Kept
<1>1. LiveIn(entries) = Live
  BY DEF LiveIn, Live
<1>2. LoadingPinned
  BY <1>0, <1>1 DEF LoadingPinned, MindedNow, Minded, UnderWay
<1>3. Indexed
  BY <1>0, <1>1 DEF Indexed, IndexedIn
<1>4. DOMAIN Deps(entries) = Live /\ \A h \in Live : Deps(entries)[h] = Dependencies(h)
  BY <1>1 DEF Deps, Dependencies
<1>5. CountsBalanced
  <2>1. ASSUME NEW d PROVE UsesOf(d) = Places(Deps(entries), d)
    <3>1. {{h} \X DOMAIN Dependencies(h) : h \in Live} =
          {{h} \X DOMAIN Deps(entries)[h] : h \in DOMAIN Deps(entries)}
      BY <1>4
    <3>2. \A e \in UNION {{h} \X DOMAIN Dependencies(h) : h \in Live} :
              Deps(entries)[e[1]] = Dependencies(e[1])
      <4>1. SUFFICES ASSUME NEW h \in Live, NEW e \in {h} \X DOMAIN Dependencies(h)
                     PROVE  Deps(entries)[e[1]] = Dependencies(e[1])
        OBVIOUS
      <4>2. e[1] = h
        OBVIOUS
      <4> QED  BY <1>4, <4>2
    <3> QED  BY <3>1, <3>2, Zenon DEF UsesOf, Places
  <2>2. \A d \in Live : Acquires(d) = held[d] + Cardinality(UsesOf(d))
    BY <1>0, <1>1, <2>1 DEF CountedIn, Acquires
  <2> QED  BY <1>0, <1>1, <2>2 DEF CountsBalanced, CountedIn, Dependencies
<1>6. Acyclic
  <2>1. SUFFICES ASSUME NEW h \in Live PROVE h \notin Reached(ToSet(Dependencies(h)))
    BY DEF Acyclic
  <2>2. PICK T : ClosedIn(Deps(entries), T) /\ ToSet(Dependencies(h)) \subseteq T /\ h \notin T
    BY <1>0, <1>4 DEF AcyclicIn
  <2>3. IsFiniteSet(LiveIn(entries))
    BY <1>0, EntryFields
  <2>4. ReachedIn(entries, ToSet(Dependencies(h))) \subseteq T
    BY <2>2, <2>3, ReachedIsLeast
  <2> QED  BY <2>2, <2>4, ReachedFromHere
<1>7. NothingForgotten
  BY <1>0, <1>1 DEF NothingForgotten, MindedNow, Minded, UnderWay, Acquires, State
<1> QED  BY <1>2, <1>3, <1>5, <1>6, <1>7

LEMMA InvariantIsSound == CacheInv /\ Bounded => CacheSound
<1>1. ASSUME CacheInv, Bounded PROVE TypeOK
  <2>1. CacheTypes /\ Typed(entries, byId, held)
    BY <1>1 DEF CacheInv, Kept
  <2> QED  BY <1>1, <2>1 DEF TypeOK, CacheTypes, Typed, Bounded
<1> QED  BY <1>1, InvariantSays DEF CacheSound

LEMMA Unmoved ==
  ASSUME CacheInv, Bounded, UNCHANGED vars
  PROVE  CacheInv' /\ Bounded'
<1>1. /\ catalog' = catalog /\ entries' = entries /\ byId' = byId /\ held' = held /\ todo' = todo
      /\ UNCHANGED queues /\ UNCHANGED work /\ UNCHANGED locals
  BY DEF vars
<1>2. UnderWay' = UnderWay
  BY <1>1, AtTop DEF work, locals
<1>3. CacheTypes' /\ Staged' /\ Queued' /\ Bounded'
  BY <1>1 DEF CacheInv, CacheTypes, Staged, Queued, Bounded, queues, work, locals
<1>4. Kept(entries, byId, held)' /\ MindedNow(UnderWay)'
  BY <1>1, <1>2 DEF CacheInv, MindedNow, queues, locals
<1> QED  BY <1>3, <1>4 DEF CacheInv

LEMMA CacheInvariant == SafeSpec => [](CacheInv /\ Bounded)
<1>1. Init => CacheInv /\ Bounded
  <2>1. <<>> \in Seq(Steps) /\ 0 \in 0 .. MaxHolds
    BY EmptySeq, BoundsAssumption
  <2>2. Init => Bounded
    BY <2>1 DEF Init, Bounded
  <2> QED  BY <2>2, CacheInitially
<1>2. CacheInv /\ Bounded /\ [Next]_vars => (CacheInv /\ Bounded)'
  <2>1. ASSUME CacheInv, Bounded, Next PROVE (CacheInv /\ Bounded)'
    <3>1. CacheInv'
      BY <2>1, ClientCallStep, OwnerStepStep, RunLoadTaskStep DEF Next
    <3> QED  BY <2>1, <3>1, CacheStepBounded
  <2> QED  BY <2>1, Unmoved
<1> QED  BY <1>1, <1>2, PTL DEF SafeSpec

(* Whatever the assets, however requests, releases, dependencies, loads     *)
(* and drains interleave with the workers' tasks: entries under a task are *)
(* not freed, each id has one entry, the acquires are those of the clients *)
(* and the dependencies, which form no cycle, and nothing is forgotten.    *)
THEOREM CacheIsSound == SafeSpec => []CacheSound
<1> QED  BY InvariantIsSound, CacheInvariant, PTL

\* Dependencies come to an end: no set of entries has a dependant of each.
LEMMA NoEndlessChain ==
  ASSUME NEW es, NEW ids, NEW hs, Kept(es, ids, hs), NEW B, B \subseteq LiveIn(es),
         \A u \in B : \E g \in B : u \in ToSet(es[g].dependencies)
  PROVE  B = {}
<1> DEFINE L == LiveIn(es)
           size(h) == Cardinality(ReachedIn(es, {h}) \cap L)
           N == Cardinality(L) + 1
           P == {k \in 0 .. N : \E u \in B : size(u) >= k}
<1>1. /\ IsFiniteSet(L) /\ DOMAIN Deps(es) = L
      /\ \A h \in L : Deps(es)[h] = es[h].dependencies
      /\ AcyclicIn(Deps(es))
  BY EntryFields DEF Kept
<1>2. \A h : /\ IsFiniteSet(ReachedIn(es, {h}) \cap L) /\ size(h) \in Nat
             /\ size(h) <= Cardinality(L)
  <2>1. SUFFICES ASSUME NEW h
                 PROVE  /\ IsFiniteSet(ReachedIn(es, {h}) \cap L) /\ size(h) \in Nat
                        /\ size(h) <= Cardinality(L)
    OBVIOUS
  <2>2. ReachedIn(es, {h}) \cap L \in SUBSET L
    OBVIOUS
  <2>3. IsFiniteSet(ReachedIn(es, {h}) \cap L) /\ size(h) <= Cardinality(L)
    BY <1>1, <2>2, FS_Subset
  <2> QED  BY <2>3, FS_CardinalityType
<1>3. Cardinality(L) \in Nat
  BY <1>1, FS_CardinalityType
<1>4. ASSUME NEW g \in L, NEW u \in L, u \in ToSet(es[g].dependencies)
      PROVE  size(g) >= size(u) + 1
  <2> DEFINE RG == ReachedIn(es, {g})
             RU == ReachedIn(es, {u})
  <2>1. g \in RG /\ ClosedIn(Deps(es), RG)
    <3>1. {g} \subseteq RG /\ ClosedIn(Deps(es), RG)
      BY <1>1, ReachedIsLeast
    <3> QED  BY <3>1
  <2>2. u \in RG
    BY <1>1, <1>4, <2>1 DEF ClosedIn
  <2>3. RU \subseteq RG
    <3>1. {u} \subseteq RG
      BY <2>2
    <3> QED  BY <1>1, <2>1, <3>1, ReachedIsLeast
  <2>4. g \notin RU
    <3>1. PICK T : ClosedIn(Deps(es), T) /\ ToSet(Deps(es)[g]) \subseteq T /\ g \notin T
      BY <1>1 DEF AcyclicIn
    <3>2. {u} \subseteq T
      BY <1>1, <1>4, <3>1
    <3>3. RU \subseteq T
      BY <1>1, <3>1, <3>2, ReachedIsLeast
    <3> QED  BY <3>1, <3>3
  <2> HIDE DEF RG, RU
  <2>5. (RU \cap L) \cup {g} \in SUBSET (RG \cap L) /\ g \notin RU \cap L
    BY <2>1, <2>3, <2>4
  <2>6. IsFiniteSet(RU \cap L) /\ IsFiniteSet(RG \cap L)
    BY <1>2 DEF RU, RG
  <2>7. /\ Cardinality((RU \cap L) \cup {g}) = Cardinality(RU \cap L) + 1
        /\ Cardinality((RU \cap L) \cup {g}) <= Cardinality(RG \cap L)
    BY <2>5, <2>6, FS_AddElement, FS_Subset
  <2>8. Cardinality(RU \cap L) = size(u) /\ Cardinality(RG \cap L) = size(g)
    BY DEF RU, RG
  <2>9. size(u) + 1 <= size(g)
    BY <2>7, <2>8
  <2>10. size(u) \in Nat /\ size(g) \in Nat
    BY <1>2
  <2> HIDE DEF size
  <2> QED  BY <2>9, <2>10
<1> HIDE DEF size, L
<1>5. SUFFICES ASSUME B # {} PROVE FALSE
  OBVIOUS
<1>6. N \in Nat
  BY <1>3
<1>7. 0 \in P
  <2>1. PICK u : u \in B /\ size(u) \in Nat
    BY <1>2, <1>5
  <2>2. size(u) >= 0
    BY <2>1
  <2>3. 0 \in 0 .. N
    <3> HIDE DEF N
    <3> QED  BY <1>6
  <2> HIDE DEF N
  <2> QED  BY <2>1, <2>2, <2>3
<1>8. ASSUME NEW k \in 1 .. N, k - 1 \in P PROVE k \in P
  <2>1. PICK u \in B : size(u) >= k - 1
    BY <1>8
  <2>2. PICK g \in B : u \in ToSet(es[g].dependencies)
    OBVIOUS
  <2>3. size(g) >= size(u) + 1 /\ size(g) \in Nat /\ size(u) \in Nat
    BY <1>2, <1>4, <2>2 DEF L
  <2>4. size(g) >= k /\ k \in 0 .. N
    BY <1>6, <2>1, <2>3
  <2> QED  BY <2>4
<1>9. \A k \in 0 .. N : k \in P
  <2> HIDE DEF P
  <2> QED  BY <1>6, <1>7, <1>8, EveryNumber
<1>10. PICK u \in B : size(u) >= N
  <2>1. N \in P
    BY <1>6, <1>9
  <2> QED  BY <2>1
<1>11. size(u) \in Nat /\ size(u) <= Cardinality(L)
  BY <1>2
<1> QED  BY <1>3, <1>10, <1>11

\* When a drain finds no more entries to free, all that are left are in use.
LEMMA DrainedInUse ==
  ASSUME CacheInv, pendingFrees = {}, draining = {}
  PROVE  Live \subseteq InUse
<1>1. /\ Kept(entries, byId, held) /\ CountedIn(entries, held) /\ Typed(entries, byId, held)
      /\ Minded(entries, pendingLoads, {}, {}, deferred, UnderWay)
  BY DEF CacheInv, Kept, MindedNow
<1> DEFINE H == {h \in Handle : held[h] > 0}
           R == ReachedIn(entries, H)
           B == LiveIn(entries) \ InUse
<1>2. /\ LiveIn(entries) = Live /\ InUse = R \cup {h \in LiveIn(entries) : entries[h].loading}
  BY ReachedFromHere DEF InUse, Live, LiveIn
<1>3. /\ IsFiniteSet(LiveIn(entries)) /\ DOMAIN Deps(entries) = LiveIn(entries)
      /\ \A h \in LiveIn(entries) : /\ Deps(entries)[h] = entries[h].dependencies
                                    /\ Deps(entries)[h] \in Seq(Handle)
                                    /\ h \in Handle /\ held[h] \in Nat
      /\ \A h \in LiveIn(entries) : entries[h].acquires \in Nat
  BY <1>1, EntryFields
<1>4. H \subseteq R /\ ClosedIn(Deps(entries), R)
  BY <1>3, ReachedIsLeast
<1>5. ASSUME NEW g \in LiveIn(entries), NEW u \in LiveIn(entries), g \in InUse,
             u \in ToSet(entries[g].dependencies)
      PROVE  u \in InUse
  <2>1. ~entries[g].loading
    <3>1. entries[g].loading => entries[g].dependencies = <<>>
      BY <1>1 DEF Minded
    <3> QED  BY <1>5, <3>1, EmptySet
  <2>2. g \in R
    BY <1>2, <1>5, <2>1
  <2> QED  BY <1>2, <1>3, <1>4, <1>5, <2>2 DEF ClosedIn
<1>6. ASSUME NEW u \in B PROVE \E g \in B : u \in ToSet(entries[g].dependencies)
  <2>1. u \in LiveIn(entries) /\ ~entries[u].loading /\ ~(held[u] > 0)
    BY <1>2, <1>3, <1>4, <1>6
  <2>2. entries[u].acquires # 0
    BY <1>1, <2>1 DEF Minded
  <2>3. held[u] = 0
    BY <1>3, <2>1
  <2>4. Cardinality(Places(Deps(entries), u)) # 0
    <3>1. PICK a, c, p : a = entries[u].acquires /\ c = Cardinality(Places(Deps(entries), u)) /\ p = held[u]
      OBVIOUS
    <3>2. a = p + c /\ a # 0 /\ p = 0
      BY <1>1, <2>1, <2>2, <2>3, <3>1 DEF CountedIn
    <3>3. c # 0
      BY <3>2
    <3> QED  BY <3>1, <3>3
  <2>5. PICK g \in LiveIn(entries) : u \in ToSet(entries[g].dependencies)
    <3>1. PICK g \in DOMAIN Deps(entries) : u \in ToSet(Deps(entries)[g])
      BY <1>3, <2>4, PlacesNone
    <3> QED  BY <1>3, <3>1
  <2>6. g \notin InUse
    BY <1>5, <1>6, <2>1, <2>5
  <2> QED  BY <2>5, <2>6
<1>7. B = {}
  <2>1. B \subseteq LiveIn(entries)
    OBVIOUS
  <2> HIDE DEF B
  <2> QED  BY <1>1, <1>6, <2>1, NoEndlessChain
<1> QED  BY <1>2, <1>7

\* The last step of a drain has left nothing to free.
LEMMA DrainEndsClear ==
  ASSUME CacheInv, Next, At("Drain"), Return
  PROVE  (Live \subseteq InUse)'
<1>1. todo # <<>> /\ Top(todo) = "Drain" /\ todo \in Seq(Steps) /\ Shaped(todo)
  BY DEF At, Top, CacheInv, CacheTypes, Staged
<1>2. todo' # todo /\ Top(todo') \notin {"Link", "Free"}
  <2>1. Len(Tail(todo)) = Len(todo) - 1 /\ Len(todo) \in Nat
    BY <1>1, TailOf
  <2>2. Tail(todo) # todo
    BY <2>1
  <2> QED  BY <1>1, <2>2, Returned DEF Return
<1>3. Drain
  <2>1. ~Idle
    BY <1>1 DEF Idle
  <2>2. ~ClientCall
    BY <2>1 DEF ClientCall, Request, Release, AddDependency, submitLoads, removeCompletions,
                runLoadingPhase, drainFrees, shutdown, Call
  <2>3. ~(\E h \in Handle : RunLoadTask(h))
    BY <1>2 DEF RunLoadTask
  <2>4. OwnerStep
    BY <2>2, <2>3 DEF Next
  <2> QED  BY <2>4 DEF OwnerStep, Submit, Wait, TakeCompletions, Publish, Link, Again,
       Free, At
<1>4. pendingFrees = {} /\ UNCHANGED <<entries, held>>
  <2>1. CASE todo' = <<"Free">> \o todo
    <3>1. "Free" \in Steps
      BY DEF Steps, CacheSteps, SceneSteps
    <3>2. Top(<<"Free">> \o todo) = "Free"
      BY <1>1, <3>1, ShapedPush
    <3> QED  BY <1>2, <2>1, <3>2
  <2> QED  BY <1>3, <2>1 DEF Drain
<1>5. draining = {}
  BY <1>1 DEF CacheInv, Staged
<1>6. Live \subseteq InUse
  BY <1>1, <1>4, <1>5, DrainedInUse
<1>7. Live' = Live /\ InUse' = InUse
  BY <1>4 DEF Live, InUse, Reached, Dependencies
<1> QED  BY <1>6, <1>7

\* A phase goes on to its drain with nothing left to load.
LEMMA PhaseEndsLoaded ==
  ASSUME CacheInv, Next, At("Again"), Head(todo') = "Drain"
  PROVE  \A h \in Live : State(h) # "Pending"
<1>1. todo # <<>> /\ Head(todo) = "Again" /\ todo \in Seq(Steps) /\ Shaped(todo)
  BY DEF At, CacheInv, CacheTypes, Staged
<1>2. todo' # todo
  BY <1>1
<1>3. Again
  <2>1. ~Idle
    BY <1>1 DEF Idle
  <2>2. ~ClientCall
    BY <2>1 DEF ClientCall, Request, Release, AddDependency, submitLoads, removeCompletions,
                runLoadingPhase, drainFrees, shutdown, Call
  <2>3. ~(\E h \in Handle : RunLoadTask(h))
    BY <1>2 DEF RunLoadTask
  <2>4. OwnerStep
    BY <2>2, <2>3 DEF Next
  <2> QED  BY <1>1, <2>4 DEF OwnerStep, Submit, Wait, TakeCompletions, Publish, Link,
       Drain, Free, At
<1>4. ~MoreToLoad
  <2>1. SUFFICES ASSUME MoreToLoad PROVE FALSE
    OBVIOUS
  <2>2. todo' = loadingPhase \o Tail(todo)
    BY <1>3, <2>1 DEF Again
  <2>3. Tail(todo) \in Seq(Steps) /\ Shaped(Tail(todo)) /\ Top(Tail(todo)) \notin {"Link", "Free"}
    BY <1>1, ShapedTail
  <2>4. /\ loadingPhase \in Seq(Steps) /\ loadingPhase # <<>> /\ Shaped(loadingPhase)
        /\ Top(loadingPhase) = "Submit"
    BY ShapedCalls DEF loadingPhase, Top
  <2>5. Top(todo') = "Submit"
    BY <2>2, <2>3, <2>4, ShapedConcat
  <2> QED  BY <2>5 DEF Top
<1>5. /\ Minded(entries, pendingLoads, pendingFrees, draining, deferred, UnderWay)
      /\ LiveIn(entries) = Live
  BY DEF CacheInv, MindedNow, LiveIn, Live
<1> QED  BY <1>4, <1>5 DEF Minded, MoreToLoad, State

(* A drain collects all the garbage, also the entries that are freed by     *)
(* the frees it makes itself: when it returns, an entry that is left is    *)
(* reached from one a client holds, or is still loading.                   *)
THEOREM DrainCollectsCorrect == SafeSpec => DrainCollects
<1>1. CacheInv /\ [Next]_vars => [At("Drain") /\ Return => (Live \subseteq InUse)']_vars
  BY DrainEndsClear
<1> QED  BY <1>1, CacheInvariant, PTL DEF SafeSpec, DrainCollects

(* A loading phase ends with nothing left to load: every entry has got its *)
(* state, those its rounds asked for too.                                  *)
THEOREM PhaseLoadsAllCorrect == SafeSpec => PhaseLoadsAll
<1>1. CacheInv /\ [Next]_vars =>
          [At("Again") /\ Head(todo') = "Drain" => \A h \in Live : State(h) # "Pending"]_vars
  BY PhaseEndsLoaded
<1> QED  BY <1>1, CacheInvariant, PTL DEF SafeSpec, PhaseLoadsAll

LEMMA SceneInvariant == SceneSafeSpec => [](CacheInv /\ Bounded /\ LoadInv)
<1>1. SceneInit => CacheInv /\ Bounded /\ LoadInv
  <2>1. 0 \in 0 .. MaxHolds
    BY BoundsAssumption
  <2>2. SceneInit => Bounded
    BY <2>1 DEF SceneInit, Init, Bounded
  <2> QED  BY <2>2, CacheInitially, LoadInitially DEF SceneInit
<1>2. CacheInv /\ Bounded /\ LoadInv /\ [SceneNext]_allVars => (CacheInv /\ Bounded /\ LoadInv)'
  <2>1. ASSUME CacheInv, Bounded, LoadInv, CacheStep PROVE (CacheInv /\ Bounded /\ LoadInv)'
    <3>1. Next
      BY <2>1 DEF CacheStep, OtherCall, Next, ClientCall
    <3>2. CacheInv'
      BY <2>1, <3>1, ClientCallStep, OwnerStepStep, RunLoadTaskStep DEF Next
    <3> QED  BY <2>1, <3>1, <3>2, CacheStepBounded, CacheStepLoads
  <2>2. ASSUME CacheInv, Bounded, LoadInv, SceneStep PROVE (CacheInv /\ Bounded /\ LoadInv)'
    <3>1. ASSUME held' = held PROVE Bounded'
      BY <2>2, <3>1 DEF Bounded
    <3>2. CASE \E id \in Scenes : load(id)
      BY <2>2, <3>1, <3>2, LoadCallStep DEF load, Call
    <3>3. CASE SceneRequest \/ SceneAbandon
      BY <2>2, <3>3, SceneRequestStep, SceneAbandonStep
    <3>4. CASE SceneTake
      BY <2>2, <3>1, <3>4, SceneTakeStep DEF SceneTake
    <3>5. CASE SceneParse
      BY <2>2, <3>1, <3>5, SceneParseStep DEF SceneParse
    <3>6. CASE SceneLink
      BY <2>2, <3>1, <3>6, SceneLinkStep DEF SceneLink
    <3>7. CASE SceneDone
      BY <2>2, <3>1, <3>7, SceneDoneStep DEF SceneDone
    <3> QED  BY <2>2, <3>2, <3>3, <3>4, <3>5, <3>6, <3>7 DEF SceneStep, LoadStep
  <2>3. ASSUME CacheInv, Bounded, LoadInv, UNCHANGED allVars PROVE (CacheInv /\ Bounded /\ LoadInv)'
    <3>1. UNCHANGED vars /\ UNCHANGED sceneVars
      BY <2>3 DEF allVars
    <3>2. CacheInv' /\ Bounded'
      BY <2>3, <3>1, Unmoved
    <3>3. todo' = todo /\ entries' = entries /\ held' = held /\ Unpublished' = Unpublished
      BY <3>1, UnpublishedTop DEF vars, work, locals
    <3>4. Alone(todo)' /\ SceneTypeOK' /\ BytesKept' /\ Resolved'
      BY <2>3, <3>1, <3>3 DEF LoadInv, SceneTypeOK, BytesKept, Resolved, sceneVars
    <3>5. Progress'
      BY <2>3, <3>1, <3>3 DEF LoadInv, Progress, SceneHeld, Linking, Cleared, sceneVars
    <3> QED  BY <3>2, <3>4, <3>5 DEF LoadInv
  <2> QED  BY <2>1, <2>2, <2>3 DEF SceneNext
<1> QED  BY <1>1, <1>2, PTL DEF SceneSafeSpec

(* Loads of scenes are sound among all the other calls, for every scene and *)
(* whatever its references refer to: a load never streams bytes that were  *)
(* taken before, and the handles it wrote into the components resolve while *)
(* the scene is held.  The cache's own invariants hold with such loads too.*)
THEOREM ScenesAreSound == SceneSafeSpec => [](CacheSound /\ SceneSound)
<1>1. CacheInv /\ LoadInv => SceneSound
  <2>1. ASSUME CacheInv, LoadInv PROVE SceneSound
    <3>1. SceneTypeOK /\ BytesKept /\ Progress /\ Resolved
      BY <2>1 DEF LoadInv
    <3>2. SceneHasBytes
      <4>1. SUFFICES ASSUME At("SceneTake"), State(scene) = "Ready" PROVE entries[scene].payload = "Fresh"
        BY DEF SceneHasBytes
      <4>2. LoadAt(todo) = "SceneTake" /\ "SceneTake" \in SceneSteps \ {"SceneRequest"}
        BY <2>1, <4>1, SceneTop DEF SceneSteps
      <4>3. SceneHeld /\ entries[scene].payload # "Taken"
        BY <3>1, <4>2 DEF Progress
      <4>4. scene \in LiveIn(entries) /\ entries[scene] \in Entry
        BY <2>1, <4>3, HeldLive, EntriesTyped DEF SceneHeld
      <4>5. entries[scene].payload # "None"
        BY <3>1, <4>1, <4>4 DEF BytesKept, State
      <4> QED  BY <4>3, <4>4, <4>5 DEF Entry
    <3>3. ReferencesOutliveLoad
      <4>1. SUFFICES ASSUME NEW h \in loaded, held[h] > 0,
                            NEW k \in DOMAIN SceneRefs[entries[h].id]
                     PROVE  /\ byId[SceneRefs[entries[h].id][k]] \in Live
                            /\ byId[SceneRefs[entries[h].id][k]] \in ToSet(Dependencies(h))
        BY DEF ReferencesOutliveLoad
      <4>2. h \in Handle /\ h \in LiveIn(entries)
        BY <2>1, <3>1, <4>1, HeldLive DEF SceneTypeOK
      <4> DEFINE r == SceneRefs[entries[h].id][k]
      <4>3. r \in ToSet(SceneRefs[entries[h].id])
        BY <4>1 DEF ToSet
      <4>4. PICK d \in ToSet(entries[h].dependencies) : entries[d].id = r
        BY <3>1, <4>2, <4>3 DEF Resolved, AllLinked, DependsOn
      <4>5. d \in LiveIn(entries) /\ byId[entries[d].id] = d
        BY <2>1, <4>2 DEF CacheInv, Kept, CountedIn, IndexedIn
      <4> QED  BY <2>1, <4>4, <4>5, EntriesTyped DEF Dependencies
    <3> QED  BY <3>1, <3>2, <3>3 DEF SceneSound
  <2> QED  BY <2>1
<1>2. CacheInv /\ Bounded => CacheSound
  BY InvariantIsSound
<1> QED  BY <1>1, <1>2, SceneInvariant, PTL

\* Where a step of the cache's own is next, load() waits for it.
LEMMA CacheStepNext ==
  ASSUME SceneNext, At("Drain") \/ At("Again")
  PROVE  Next
<1>1. /\ ~Idle
      /\ \A step \in SceneSteps : ~At(step)
  BY DEF Idle, At, SceneSteps
<1>2. ~SceneStep
  BY <1>1 DEF SceneStep, LoadStep, load, Call, SceneRequest, SceneTake, SceneParse,
       SceneLink,
              SceneDone, SceneAbandon, SceneSteps
<1> QED  BY <1>2 DEF SceneNext, CacheStep, OtherCall, Next, ClientCall

(* The phases and the drains that a load of a scene runs, and those between *)
(* two loads, do as much as without scenes: everything that was asked for  *)
(* is loaded, and what nobody uses is collected.                           *)
THEOREM SceneCallsCorrect == SceneSafeSpec => DrainCollects /\ PhaseLoadsAll
<1>1. CacheInv /\ [SceneNext]_allVars =>
          [At("Drain") /\ Return => (Live \subseteq InUse)']_vars
  <2>1. SUFFICES ASSUME CacheInv, SceneNext, At("Drain"), Return
                 PROVE  (Live \subseteq InUse)'
    BY DEF allVars
  <2> QED  BY <2>1, CacheStepNext, DrainEndsClear
<1>2. CacheInv /\ [SceneNext]_allVars =>
          [At("Again") /\ Head(todo') = "Drain" => \A h \in Live : State(h) # "Pending"]_vars
  <2>1. SUFFICES ASSUME CacheInv, SceneNext, At("Again"), Head(todo') = "Drain"
                 PROVE  \A h \in Live : State(h) # "Pending"
    BY DEF allVars
  <2> QED  BY <2>1, CacheStepNext, PhaseEndsLoaded
<1> QED  BY <1>1, <1>2, SceneInvariant, PTL DEF SceneSafeSpec, DrainCollects, PhaseLoadsAll
=============================================================================
