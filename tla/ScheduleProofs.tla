--------------------------- MODULE ScheduleProofs ---------------------------
(***************************************************************************)
(* For every schedule of finitely many systems, with any accesses,         *)
(* priorities and constraints: the levels TaskGraph makes keep the         *)
(* constraints and the priorities, no two systems of a level conflict, and *)
(* a cycle that is reported is one.  And for any number of systems, ticks, *)
(* spawns, commands and events: what TickBarrier makes of a tick's         *)
(* commands is what they meant, and its events are seen one tick later.    *)
(***************************************************************************)
EXTENDS MCSchedule, FiniteSetTheorems, SequenceTheorems, NumberInduction, TLAPS

(***************************************************************************)
(* Facts about the schedule and about counting predecessors.               *)
(***************************************************************************)

\* Sets of systems are finite, and no larger than all of them.
LEMMA SystemSubset ==
  ASSUME NEW S \in SUBSET System
  PROVE  IsFiniteSet(S) /\ Cardinality(S) \in 0 .. Cardinality(System)
<1>1. IsFiniteSet(S) /\ Cardinality(S) <= Cardinality(System)
  BY SystemAssumption, FS_Subset
<1> QED  BY <1>1, SystemAssumption, FS_CardinalityType

\* A set of at most one element has no two.
LEMMA AtMostOne ==
  ASSUME NEW t \in SUBSET System, Cardinality(t) <= 1, NEW a \in t, NEW b \in t
  PROVE  a = b
<1> SUFFICES ASSUME a # b PROVE FALSE
  OBVIOUS
<1>1. IsFiniteSet({b}) /\ Cardinality({b}) = 1
  BY FS_Singleton
<1>2. Cardinality({b} \cup {a}) = 1 + 1
  <2>1. a \notin {b}
    OBVIOUS
  <2> QED  BY <1>1, <2>1, FS_AddElement
<1>3. IsFiniteSet(t) /\ {b} \cup {a} \in SUBSET t
  BY SystemSubset
<1>4. Cardinality({b} \cup {a}) <= Cardinality(t) /\ Cardinality(t) \in Nat
  BY <1>3, FS_Subset, FS_CardinalityType
<1> QED  BY <1>2, <1>4

\* Constraints, the terminal system and priorities all draw edges between
\* systems, and of two that conflict one has an edge to the other.
LEMMA EdgesBetweenSystems == ScheduleGiven => AllEdges \subseteq System \X System
<1> SUFFICES ASSUME ScheduleGiven, NEW e \in AllEdges PROVE e \in System \X System
  OBVIOUS
<1>1. CASE e \in before
  BY <1>1 DEF ScheduleGiven
<1>2. CASE e \in TerminalEdges
  BY <1>2 DEF ScheduleGiven, TerminalEdges, Regular
<1>3. CASE e \in {ByPriority(p) : p \in Contested}
  BY <1>3 DEF Contested, ByPriority
<1> QED  BY <1>1, <1>2, <1>3 DEF AllEdges

\* Of two systems that conflict, the one of the higher priority has the edge
\* when nothing else orders them.
LEMMA PriorityEdge ==
  ASSUME ScheduleGiven, NEW a \in System, NEW b \in System,
         Conflict(a, b), ~ExplicitlyOrdered(a, b), priority[a] < priority[b]
  PROVE  <<a, b>> \in AllEdges
<1>1. a \in Nat /\ b \in Nat /\ priority[a] \in Nat /\ priority[b] \in Nat
  BY SystemAssumption, PriorityAssumption DEF ScheduleGiven
<1>2. a # b
  BY <1>1
<1>3. Conflict(b, a) /\ ~ExplicitlyOrdered(b, a)
  BY DEF Conflict, ExplicitlyOrdered
<1>4. CASE a < b
  <2>1. <<a, b>> \in Contested
    BY <1>4 DEF Contested
  <2>2. ByPriority(<<a, b>>) = <<a, b>>
    BY DEF ByPriority
  <2> QED  BY <2>1, <2>2 DEF AllEdges
<1>5. CASE b < a
  <2>1. <<b, a>> \in Contested
    BY <1>3, <1>5 DEF Contested
  <2>2. ByPriority(<<b, a>>) = <<a, b>>
    BY <1>1 DEF ByPriority
  <2> QED  BY <2>1, <2>2 DEF AllEdges
<1> QED  BY <1>1, <1>2, <1>4, <1>5

LEMMA ConflictsOrdered ==
  ASSUME ScheduleGiven, NEW a \in System, NEW b \in System, a # b, Conflict(a, b)
  PROVE  <<a, b>> \in AllEdges \/ <<b, a>> \in AllEdges
<1>1. CASE <<a, b>> \in before \/ <<b, a>> \in before
  BY <1>1 DEF AllEdges
<1>2. CASE {a, b} \cap terminal # {} /\ {a, b} \cap Regular # {}
  <2>1. <<a, b>> \in TerminalEdges \/ <<b, a>> \in TerminalEdges
    BY <1>2 DEF TerminalEdges, Regular
  <2> QED  BY <2>1 DEF AllEdges
<1>3. CASE ~ExplicitlyOrdered(a, b)
  <2>1. a \in Nat /\ b \in Nat
    BY SystemAssumption
  <2>2. Conflict(b, a) /\ ~ExplicitlyOrdered(b, a)
    BY <1>3 DEF Conflict, ExplicitlyOrdered
  <2>3. <<a, b>> \in Contested \/ <<b, a>> \in Contested
    BY <1>3, <2>1, <2>2 DEF Contested
  <2>4. ByPriority(<<a, b>>) \in {<<a, b>>, <<b, a>>} /\ ByPriority(<<b, a>>) \in {<<a, b>>, <<b, a>>}
    BY DEF ByPriority
  <2> QED  BY <2>3, <2>4 DEF AllEdges
<1> QED  BY <1>1, <1>2, <1>3 DEF ExplicitlyOrdered

\* What is known of the levels and of the path as sequences.
LEMMA LevelsSequence ==
  ASSUME Shapes
  PROVE  /\ levels \in Seq(SUBSET System) /\ Len(levels) \in Nat /\ DOMAIN levels = 1 .. Len(levels)
         /\ \A i \in 1 .. Len(levels) : levels[i] \subseteq System
         /\ levels # <<>> <=> Len(levels) > 0
<1>1. levels \in Seq(SUBSET System)
  BY DEF Shapes
<1>2. Len(levels) \in Nat /\ DOMAIN levels = 1 .. Len(levels) /\ levels \in [1 .. Len(levels) -> SUBSET System]
  BY <1>1, LenProperties
<1>3. levels # <<>> <=> Len(levels) > 0
  BY <1>1, <1>2, EmptySeq
<1> QED  BY <1>1, <1>2, <1>3

LEMMA PathSequence ==
  ASSUME Shapes
  PROVE  /\ path \in Seq(System) /\ Len(path) \in Nat /\ DOMAIN path = 1 .. Len(path)
         /\ \A i \in 1 .. Len(path) : path[i] \in System
         /\ path # <<>> <=> Len(path) > 0
<1>1. path \in Seq(System)
  BY DEF Shapes
<1>2. Len(path) \in Nat /\ DOMAIN path = 1 .. Len(path) /\ path \in [1 .. Len(path) -> System]
  BY <1>1, LenProperties
<1>3. path # <<>> <=> Len(path) > 0
  BY <1>1, <1>2, EmptySeq
<1> QED  BY <1>1, <1>2, <1>3

\* A system is ready when it awaits nobody.
LEMMA ReadyAwaitsNone ==
  ASSUME IndegreeCounts, NEW s \in System \ processed
  PROVE  s \in Ready <=> Awaited(s) = {}
<1>1. IsFiniteSet(Awaited(s))
  BY SystemSubset DEF Awaited
<1> QED  BY <1>1, FS_EmptySet DEF Ready, IndegreeCounts

----------------------------------------------------------------------------
(***************************************************************************)
(* The invariant holds at the start, and every step keeps it.              *)
(***************************************************************************)

LEMMA InitInvariant == Init => IInv
<1> SUFFICES ASSUME Init PROVE IInv
  OBVIOUS
<1>1. ScheduleGiven
  <2>1. terminal \in SUBSET System /\ Cardinality(terminal) <= 1
    BY DEF Init
  <2>2. \A a, b \in terminal : a = b
    BY <2>1, AtMostOne
  <2> QED  BY <2>1, <2>2 DEF Init, ScheduleGiven
<1>2. Shapes /\ EdgesDrawn
  BY DEF Init, Shapes, EdgesDrawn
<1>3. IndegreeCounts
  <2>1. \A s \in System : Awaited(s) = {}
    BY DEF Init, Awaited
  <2> QED  BY <2>1, FS_EmptySet DEF Init, IndegreeCounts
<1>4. /\ LevelsPartition /\ PredecessorsEarlier /\ NoIdleLevel
      /\ StillWaiting /\ TerminalTakenLast
  BY DEF Init, LevelsPartition, PredecessorsEarlier, NoIdleLevel, StillWaiting,
       TerminalTakenLast
<1>5. PathFollowsEdges /\ CycleReal
  BY DEF Init, PathFollowsEdges, CycleReal
<1> QED  BY <1>1, <1>2, <1>3, <1>4, <1>5 DEF IInv

\* Before an edge is drawn nothing is in a level, so nothing is lost.
LEMMA DrawEdgesInvariant == ASSUME IInv, DrawEdges PROVE IInv'
<1>1. /\ levels = <<>> /\ levels' = <<>> /\ processed = {} /\ processed' = {}
      /\ path' = <<>> /\ state' = state
  BY DEF IInv, EdgesDrawn, LevelsPartition, DrawEdges, schedule, search
<1>2. ScheduleGiven' /\ AllEdges' = AllEdges /\ cycle' = cycle
  BY DEF IInv, ScheduleGiven, DrawEdges, schedule, search, AllEdges, TerminalEdges, Regular,
         Contested, ByPriority, Conflict, ExplicitlyOrdered
<1>3. edges' = [a \in System |-> {b \in System : <<a, b>> \in AllEdges}] /\ phase' = "levels"
  BY DEF DrawEdges
<1>4. Shapes' /\ EdgesDrawn'
  <2>1. path' = path
    BY <1>1 DEF IInv, EdgesDrawn, DrawEdges
  <2>2. Shapes'
    BY <1>1, <1>3, <2>1 DEF IInv, Shapes
  <2> QED  BY <1>1, <1>2, <1>3, <2>2 DEF EdgesDrawn
<1>5. IndegreeCounts'
  <2>1. indegree' = [s \in System |-> Indegree(AllEdges, s)]
    BY DEF DrawEdges
  <2>2. ASSUME NEW s \in System PROVE Indegree(AllEdges, s) = Cardinality(Awaited(s)')
    <3>1. Awaited(s)' = {a \in System : <<a, s>> \in AllEdges}
      BY <1>1, <1>3 DEF Awaited
    <3> QED  BY <3>1 DEF Indegree
  <2> QED  BY <2>1, <2>2 DEF IndegreeCounts
<1>6. /\ LevelsPartition' /\ PredecessorsEarlier' /\ NoIdleLevel'
      /\ StillWaiting' /\ TerminalTakenLast'
  BY <1>1 DEF LevelsPartition, PredecessorsEarlier, NoIdleLevel, StillWaiting,
       TerminalTakenLast
<1>7. PathFollowsEdges'
  <2>1. path = <<>>
    BY DEF IInv, EdgesDrawn, DrawEdges
  <2>2. Len(path) = 0 /\ DOMAIN path = {}
    BY <2>1, PathSequence DEF IInv
  <2>3. \A s \in System : state[s] # "onPath"
    BY <2>2 DEF IInv, PathFollowsEdges
  <2>4. 1 .. Len(path') - 1 = {}
    BY <1>1, <2>1, <2>2
  <2> QED  BY <1>1, <2>3, <2>4 DEF PathFollowsEdges
<1>8. CycleReal'
  BY <1>3 DEF CycleReal
<1> QED  BY <1>2, <1>4, <1>5, <1>6, <1>7, <1>8 DEF IInv

\* The level that is added: systems of no level yet, whose predecessors are all
\* in one, and one of them in the last.
LEMMA NextLevelInvariant == ASSUME IInv, NextLevel PROVE IInv'
<1> DEFINE n == Len(levels)
<1>1. /\ phase' = "levels" /\ phase = "levels" /\ edges' = edges /\ path' = <<>> /\ path = <<>> /\ state' = state
      /\ processed' = processed \cup Ready /\ levels' = Append(levels, Ready)
      /\ Ready # {} /\ Ready \subseteq System \ processed
  BY DEF IInv, EdgesDrawn, NextLevel, schedule, search, Ready
<1>2. ScheduleGiven' /\ AllEdges' = AllEdges /\ terminal' = terminal
  BY DEF IInv, ScheduleGiven, NextLevel, schedule, search, AllEdges, TerminalEdges, Regular,
         Contested, ByPriority, Conflict, ExplicitlyOrdered
<1>3. /\ n \in Nat /\ DOMAIN levels = 1 .. n /\ DOMAIN levels' = 1 .. n + 1 /\ Len(levels') = n + 1
      /\ levels'[n + 1] = Ready /\ \A i \in 1 .. n : levels'[i] = levels[i]
      /\ levels' \in Seq(SUBSET System) /\ levels # <<>> <=> n > 0
      /\ \A i \in 1 .. n : levels[i] \subseteq System
  <2>1. /\ levels \in Seq(SUBSET System) /\ n \in Nat /\ DOMAIN levels = 1 .. n
        /\ levels # <<>> <=> n > 0 /\ \A i \in 1 .. n : levels[i] \subseteq System
    BY LevelsSequence DEF IInv
  <2>2. Ready \in SUBSET System
    BY <1>1
  <2>3. /\ levels' \in Seq(SUBSET System) /\ Len(levels') = n + 1
        /\ levels'[n + 1] = Ready /\ \A i \in 1 .. n : levels'[i] = levels[i]
    BY <1>1, <2>1, <2>2, AppendProperties
  <2>4. DOMAIN levels' = 1 .. n + 1
    BY <2>3, LenProperties
  <2> QED  BY <2>1, <2>3, <2>4
<1>4. Shapes' /\ EdgesDrawn'
  <2>1. Shapes'
    BY <1>1, <1>3 DEF IInv, Shapes
  <2> QED  BY <1>1, <1>2, <2>1 DEF IInv, EdgesDrawn
<1>5. ASSUME NEW s \in Ready, NEW a \in System, s \in edges[a] PROVE a \in processed
  BY <1>1, <1>5, ReadyAwaitsNone DEF IInv, Awaited
<1>6. IndegreeCounts'
  <2>1. indegree' = [s \in System |-> indegree[s] - Cardinality({r \in Ready : s \in edges[r]})]
    BY DEF NextLevel
  <2>2. ASSUME NEW s \in System
        PROVE  indegree[s] - Cardinality({r \in Ready : s \in edges[r]}) = Cardinality(Awaited(s)')
    <3> DEFINE R == {r \in Ready : s \in edges[r]}
               A == Awaited(s)
    <3>1. A \in SUBSET System /\ R \in SUBSET System /\ R \subseteq A
      BY <1>1 DEF Awaited
    <3>2. Awaited(s)' = A \ R
      BY <1>1 DEF Awaited
    <3>3. IsFiniteSet(A) /\ IsFiniteSet(R) /\ IsFiniteSet(A \ R)
      BY <3>1, SystemSubset
    <3>4. Cardinality((A \ R) \cup R) = Cardinality(A \ R) + Cardinality(R)
      <4>1. (A \ R) \cap R = {}
        OBVIOUS
      <4>2. Cardinality((A \ R) \cap R) = 0
        BY <4>1, FS_EmptySet
      <4>3. Cardinality(A \ R) \in Nat /\ Cardinality(R) \in Nat
        BY <3>3, FS_CardinalityType
      <4> HIDE DEF A, R
      <4>4. Cardinality((A \ R) \cup R) = Cardinality(A \ R) + Cardinality(R) - Cardinality((A \ R) \cap R)
        BY <3>3, FS_Union
      <4> QED  BY <4>2, <4>3, <4>4
    <3>5. (A \ R) \cup R = A
      BY <3>1
    <3>6. indegree[s] = Cardinality(A)
      BY DEF IInv, IndegreeCounts
    <3>7. Cardinality(A \ R) \in Nat /\ Cardinality(R) \in Nat
      BY <3>3, FS_CardinalityType
    <3> HIDE DEF A, R
    <3>8. Cardinality(A) - Cardinality(R) = Cardinality(A \ R)
      <4>1. Cardinality(A) = Cardinality(A \ R) + Cardinality(R)
        BY <3>4, <3>5
      <4> QED  BY <3>7, <4>1
    <3> QED  BY <3>2, <3>6, <3>8 DEF R
  <2> QED  BY <2>1, <2>2 DEF IndegreeCounts
<1>7. LevelsPartition'
  <2>1. processed' = UNION {levels'[i] : i \in DOMAIN levels'}
    <3>1. ASSUME NEW s \in processed' PROVE \E i \in DOMAIN levels' : s \in levels'[i]
      BY <1>1, <1>3 DEF IInv, LevelsPartition
    <3>2. ASSUME NEW i \in DOMAIN levels', NEW s \in levels'[i] PROVE s \in processed'
      <4>1. CASE i = n + 1
        BY <1>1, <1>3, <4>1
      <4>2. CASE i \in 1 .. n
        BY <1>1, <1>3, <4>2 DEF IInv, LevelsPartition
      <4> QED  BY <1>3, <4>1, <4>2
    <3> QED  BY <3>1, <3>2
  <2>2. \A i \in DOMAIN levels' : levels'[i] # {}
    BY <1>1, <1>3 DEF IInv, LevelsPartition
  <2>3. ASSUME NEW i \in DOMAIN levels', NEW j \in DOMAIN levels', i # j
        PROVE  levels'[i] \cap levels'[j] = {}
    <3>1. ASSUME NEW k \in 1 .. n PROVE levels[k] \cap Ready = {}
      BY <1>1, <1>3 DEF IInv, LevelsPartition
    <3>2. CASE i \in 1 .. n /\ j \in 1 .. n
      BY <1>3, <2>3, <3>2 DEF IInv, LevelsPartition
    <3>3. CASE i = n + 1 /\ j \in 1 .. n
      BY <1>3, <3>1, <3>3
    <3>4. CASE i \in 1 .. n /\ j = n + 1
      BY <1>3, <3>1, <3>4
    <3> QED  BY <1>3, <2>3, <3>2, <3>3, <3>4
  <2> QED  BY <2>1, <2>2, <2>3 DEF LevelsPartition
<1>8. PredecessorsEarlier'
  <2> SUFFICES ASSUME NEW a \in System, NEW s \in System, NEW j \in DOMAIN levels',
                      s \in levels'[j], s \in edges[a]
               PROVE  \E i \in DOMAIN levels' : i < j /\ a \in levels'[i]
    BY <1>1 DEF PredecessorsEarlier
  <2>1. CASE j = n + 1
    <3>1. PICK i \in DOMAIN levels : a \in levels[i]
      BY <1>3, <1>5, <2>1 DEF IInv, LevelsPartition
    <3> QED  BY <1>3, <2>1, <3>1
  <2>2. CASE j \in 1 .. n
    <3>1. PICK i \in DOMAIN levels : i < j /\ a \in levels[i]
      BY <1>3, <2>2 DEF IInv, PredecessorsEarlier
    <3> QED  BY <1>3, <3>1
  <2> QED  BY <1>3, <2>1, <2>2
<1>9. NoIdleLevel'
  <2> SUFFICES ASSUME NEW i \in DOMAIN levels', i > 1, NEW s \in levels'[i]
               PROVE  \E r \in levels'[i - 1] : s \in edges[r]
    BY <1>1 DEF NoIdleLevel
  <2>1. CASE i = n + 1
    <3>1. levels # <<>> /\ s \in System \ processed /\ s \in Ready
      BY <1>1, <1>3, <2>1
    <3>2. PICK a \in System : s \in edges[a] /\ (a \in levels[n] \/ a \notin processed)
      BY <3>1 DEF IInv, StillWaiting
    <3>3. a \in levels[n]
      BY <1>5, <3>1, <3>2
    <3> QED  BY <1>3, <2>1, <3>2, <3>3
  <2>2. CASE i \in 1 .. n
    <3>1. PICK r \in levels[i - 1] : s \in edges[r]
      BY <1>3, <2>2 DEF IInv, NoIdleLevel
    <3> QED  BY <1>3, <2>2, <3>1
  <2> QED  BY <1>3, <2>1, <2>2
<1>10. StillWaiting'
  <2> SUFFICES ASSUME NEW s \in System \ processed'
               PROVE  \E a \in System : s \in edges[a] /\ (a \in Ready \/ a \notin processed')
    BY <1>1, <1>3 DEF StillWaiting
  <2>1. Awaited(s) # {}
    BY <1>1, ReadyAwaitsNone DEF IInv
  <2> QED  BY <1>1, <2>1 DEF Awaited
<1>11. TerminalTakenLast'
  <2> SUFFICES ASSUME NEW t \in terminal, t \in processed'
               PROVE  processed' = System /\ levels'[Len(levels')] = {t}
    BY <1>2 DEF TerminalTakenLast
  <2>1. t \in Ready
    BY <1>1 DEF IInv, TerminalTakenLast, NextLevel
  <2>2. ASSUME NEW a \in System, a # t PROVE a \in processed
    <3>1. <<a, t>> \in TerminalEdges
      BY <2>2 DEF IInv, ScheduleGiven, TerminalEdges, Regular
    <3>2. t \in edges[a]
      BY <1>1, <3>1 DEF IInv, ScheduleGiven, EdgesDrawn, AllEdges
    <3> QED  BY <1>5, <2>1, <3>2
  <2>3. processed \subseteq System
    BY <1>3 DEF IInv, LevelsPartition
  <2>4. Ready = {t}
    BY <1>1, <2>1, <2>2
  <2> QED  BY <1>1, <1>3, <2>1, <2>2, <2>3, <2>4
<1>12. PathFollowsEdges'
  BY <1>1 DEF IInv, PathFollowsEdges
<1>13. CycleReal'
  BY <1>1 DEF CycleReal
<1> QED  BY <1>2, <1>4, <1>6, <1>7, <1>8, <1>9, <1>10, <1>11, <1>12, <1>13 DEF IInv

\* The search for a cycle leaves the graph and the levels alone.
LEMMA GraphKept ==
  ASSUME IInv, UNCHANGED <<schedule, graph, processed, levels>>
  PROVE  /\ ScheduleGiven' /\ AllEdges' = AllEdges /\ edges' = edges
         /\ IndegreeCounts' /\ LevelsPartition' /\ PredecessorsEarlier'
         /\ NoIdleLevel' /\ StillWaiting' /\ TerminalTakenLast'
<1> USE DEF IInv, schedule, graph
<1>1. ScheduleGiven' /\ AllEdges' = AllEdges
  BY DEF ScheduleGiven, AllEdges, TerminalEdges, Regular, Contested, ByPriority, Conflict,
       ExplicitlyOrdered
<1>2. IndegreeCounts'
  <2>1. \A s \in System : Awaited(s)' = Awaited(s)
    BY DEF Awaited
  <2> QED  BY <2>1 DEF IndegreeCounts
<1>3. LevelsPartition' /\ PredecessorsEarlier' /\ NoIdleLevel' /\ StillWaiting' /\ TerminalTakenLast'
  BY DEF LevelsPartition, PredecessorsEarlier, NoIdleLevel, StillWaiting, TerminalTakenLast
<1> QED  BY <1>1, <1>2, <1>3

LEMMA PhaseInvariant ==
  ASSUME IInv, Reject \/ Finish \/ Stall
  PROVE  IInv'
<1>1. /\ UNCHANGED <<schedule, graph, processed, levels, search>>
      /\ phase' \in {"rejected", "built", "search"}
      /\ phase' = "rejected" <=> phase = "edges"
      /\ phase # "edges" => phase = "levels"
      /\ phase' = "built" => processed = System
  BY DEF Reject, Finish, Stall
<1>2. path' = path /\ state' = state /\ cycle' = cycle /\ levels' = levels /\ processed' = processed
  BY <1>1 DEF search
<1>3. Shapes' /\ EdgesDrawn'
  BY <1>1, <1>2, GraphKept DEF IInv, Shapes, EdgesDrawn
<1>4. PathFollowsEdges' /\ CycleReal'
  BY <1>1, <1>2, GraphKept DEF IInv, PathFollowsEdges, CycleReal
<1> QED  BY <1>1, <1>3, <1>4, GraphKept DEF IInv

LEMMA SearchInvariant == ASSUME IInv, Search PROVE IInv'
<1>1. /\ UNCHANGED <<schedule, graph, processed, levels>>
      /\ phase = "search" /\ phase' \in {"search", "cyclic"}
  BY DEF Search, StartFrom, Follow, Close, Leave
<1>2. edges' = edges /\ levels' = levels /\ processed' = processed /\ AllEdges' = AllEdges
  BY <1>1, GraphKept
<1>3. EdgesDrawn'
  BY <1>1, <1>2 DEF IInv, EdgesDrawn
<1>4. Shapes' /\ PathFollowsEdges' /\ CycleReal'
  <2>1. ASSUME NEW s \in System, StartFrom(s) PROVE Shapes' /\ PathFollowsEdges' /\ CycleReal'
    <3>1. path' = <<s>> /\ path = <<>> /\ state' = [state EXCEPT ![s] = "onPath"] /\ phase' = "search"
      BY <2>1 DEF StartFrom
    <3>2. path' \in Seq(System) /\ Len(path') = 1 /\ DOMAIN path' = 1 .. 1 /\ path'[1] = s
      <4>1. path \in Seq(System) /\ Len(path) = 0 /\ path' = Append(path, s)
        BY <3>1, PathSequence DEF IInv
      <4>2. path' \in Seq(System) /\ Len(path') = Len(path) + 1 /\ path'[Len(path) + 1] = s
        BY <4>1, AppendProperties
      <4> QED  BY <4>1, <4>2, LenProperties
    <3>3. Shapes'
      BY <1>2, <3>1, <3>2 DEF IInv, Shapes
    <3>4. \A t \in System : state'[t] = "onPath" => t = s
      <4>1. DOMAIN path = {}
        BY <3>1, PathSequence DEF IInv
      <4>2. \A t \in System : state[t] # "onPath"
        BY <4>1 DEF IInv, PathFollowsEdges
      <4>3. state \in [System -> {"new", "onPath", "done"}]
        BY DEF IInv, Shapes
      <4> QED  BY <3>1, <4>2, <4>3
    <3>5. PathFollowsEdges'
      <4>1. 1 .. Len(path') - 1 = {} /\ 1 \in DOMAIN path'
        BY <3>2
      <4> QED  BY <3>2, <3>4, <4>1 DEF PathFollowsEdges
    <3> QED  BY <3>1, <3>3, <3>5 DEF CycleReal
  <2>2. ASSUME NEW t \in System, Follow(t) PROVE Shapes' /\ PathFollowsEdges' /\ CycleReal'
    <3>1. /\ path' = Append(path, t) /\ path # <<>> /\ t \in edges[path[Len(path)]]
          /\ state' = [state EXCEPT ![t] = "onPath"] /\ phase' = "search"
      BY <2>2 DEF Follow, Top
    <3>2. /\ path \in Seq(System) /\ Len(path) \in Nat /\ Len(path) > 0 /\ DOMAIN path = 1 .. Len(path)
          /\ path' \in Seq(System) /\ Len(path') = Len(path) + 1 /\ DOMAIN path' = 1 .. Len(path) + 1
          /\ path'[Len(path) + 1] = t /\ \A i \in 1 .. Len(path) : path'[i] = path[i]
      <4>1. path \in Seq(System) /\ Len(path) \in Nat /\ Len(path) > 0 /\ DOMAIN path = 1 .. Len(path)
        BY <3>1, PathSequence DEF IInv
      <4>2. /\ path' \in Seq(System) /\ Len(path') = Len(path) + 1
            /\ path'[Len(path) + 1] = t /\ \A i \in 1 .. Len(path) : path'[i] = path[i]
        BY <3>1, <4>1, AppendProperties
      <4>3. DOMAIN path' = 1 .. Len(path')
        BY <4>2, LenProperties
      <4> QED  BY <4>1, <4>2, <4>3
    <3>3. Shapes'
      BY <1>2, <3>1, <3>2 DEF IInv, Shapes
    <3>4. \A i \in 1 .. Len(path') - 1 : path'[i + 1] \in edges[path'[i]]
      <4> TAKE i \in 1 .. Len(path') - 1
      <4>1. CASE i = Len(path)
        <5>1. path'[i] = path[Len(path)] /\ path'[i + 1] = t
          BY <3>2, <4>1
        <5> QED  BY <3>1, <5>1
      <4>2. CASE i \in 1 .. Len(path) - 1
        <5>1. path'[i] = path[i] /\ path'[i + 1] = path[i + 1]
          BY <3>2, <4>2
        <5> QED  BY <4>2, <5>1 DEF IInv, PathFollowsEdges
      <4> QED  BY <3>2, <4>1, <4>2
    <3>5. \A s \in System : state'[s] = "onPath" => \E i \in DOMAIN path' : path'[i] = s
      <4> SUFFICES ASSUME NEW s \in System, state'[s] = "onPath" PROVE \E i \in DOMAIN path' : path'[i] = s
        OBVIOUS
      <4>1. s = t \/ state[s] = "onPath"
        BY <3>1 DEF IInv, Shapes
      <4>2. CASE s = t
        <5>1. Len(path) + 1 \in DOMAIN path'
          BY <3>2
        <5> QED  BY <3>2, <4>2, <5>1
      <4>3. CASE state[s] = "onPath"
        <5>1. PICK i \in DOMAIN path : path[i] = s
          BY <4>3 DEF IInv, PathFollowsEdges
        <5>2. i \in 1 .. Len(path) /\ i \in DOMAIN path'
          BY <3>2
        <5> QED  BY <3>2, <5>1, <5>2
      <4> QED  BY <4>1, <4>2, <4>3
    <3> QED  BY <1>2, <3>1, <3>3, <3>4, <3>5 DEF PathFollowsEdges, CycleReal
  <2>3. ASSUME NEW t \in System, Close(t) PROVE Shapes' /\ PathFollowsEdges' /\ CycleReal'
    <3>1. /\ path # <<>> /\ t \in edges[path[Len(path)]] /\ state[t] = "onPath"
          /\ cycle' = CycleAt(t) /\ state' = state /\ path' = path /\ phase' = "cyclic"
      BY <2>3 DEF Close, Top
    <3>2. Shapes' /\ PathFollowsEdges'
      BY <1>2, <3>1 DEF IInv, Shapes, PathFollowsEdges
    <3> DEFINE m == CHOOSE i \in DOMAIN path : path[i] = t
               l == Len(path)
    <3>3. m \in DOMAIN path /\ path[m] = t
      BY <3>1 DEF IInv, PathFollowsEdges
    <3>4. cycle' = SubSeq(path, m, l)
      BY <3>1 DEF CycleAt
    <3> HIDE DEF m
    <3>5. /\ path \in Seq(System) /\ l \in Nat /\ m \in 1 .. l
          /\ Len(cycle') = l - m + 1 /\ DOMAIN cycle' = 1 .. l - m + 1
          /\ \A i \in 1 .. l - m + 1 : cycle'[i] = path[m + i - 1]
      <4>1. /\ path \in Seq(System) /\ l \in Nat /\ m \in 1 .. l
            /\ \A i \in m .. l : path[i] \in System
        BY <3>3, PathSequence DEF IInv
      <4>2. /\ cycle' \in Seq(System) /\ Len(cycle') = IF m <= l THEN l - m + 1 ELSE 0
            /\ \A i \in 1 .. l - m + 1 : cycle'[i] = path[m + i - 1]
        BY <3>4, <4>1, SubSeqProperties
      <4>3. DOMAIN cycle' = 1 .. Len(cycle')
        BY <4>2, LenProperties
      <4> QED  BY <4>1, <4>2, <4>3
    <3>6. ASSUME NEW i \in DOMAIN cycle'
          PROVE  cycle'[IF i = Len(cycle') THEN 1 ELSE i + 1] \in edges[cycle'[i]]
      <4>1. CASE i = Len(cycle')
        <5>1. cycle'[1] = path[m] /\ cycle'[i] = path[l]
          <6>1. 1 \in 1 .. l - m + 1 /\ i \in 1 .. l - m + 1 /\ m + 1 - 1 = m /\ m + i - 1 = l
            BY <3>5, <4>1
          <6> QED  BY <3>5, <6>1
        <5> QED  BY <3>1, <3>3, <4>1, <5>1
      <4>2. CASE i # Len(cycle')
        <5>1. m + i - 1 \in 1 .. l - 1 /\ cycle'[i + 1] = path[(m + i - 1) + 1] /\ cycle'[i] = path[m + i - 1]
          BY <3>5, <4>2, SMTT(30)
        <5> QED  BY <4>2, <5>1 DEF IInv, PathFollowsEdges
      <4> QED  BY <4>1, <4>2
    <3>7. cycle' # <<>>
      BY <3>5
    <3> QED  BY <1>2, <3>2, <3>6, <3>7 DEF CycleReal
  <2>4. ASSUME Leave PROVE Shapes' /\ PathFollowsEdges' /\ CycleReal'
    <3> DEFINE l == Len(path)
    <3>0. /\ path \in Seq(System) /\ l \in Nat /\ DOMAIN path = 1 .. l
          /\ \A i \in 1 .. l : path[i] \in System
          /\ path # <<>> <=> l > 0
      BY PathSequence DEF IInv
    <3>1. /\ path # <<>> /\ path' = SubSeq(path, 1, l - 1) /\ phase' = "search"
          /\ state' = [state EXCEPT ![path[l]] = "done"]
      BY <2>4 DEF Leave, Top
    <3>2. /\ l \in Nat /\ l > 0 /\ Len(path') = l - 1 /\ DOMAIN path' = 1 .. l - 1
          /\ \A i \in 1 .. l - 1 : path'[i] = path[i]
          /\ path' \in Seq(System)
      <4>1. l - 1 \in Nat /\ \A i \in 1 .. l - 1 : path[i] \in System
        BY <3>0, <3>1
      <4>2. /\ path' \in Seq(System) /\ Len(path') = IF 1 <= l - 1 THEN l - 1 - 1 + 1 ELSE 0
            /\ \A i \in 1 .. l - 1 - 1 + 1 : path'[i] = path[1 + i - 1]
        BY <3>1, <4>1, SubSeqProperties
      <4>3. DOMAIN path' = 1 .. Len(path')
        BY <4>2, LenProperties
      <4>4. ASSUME NEW i \in 1 .. l - 1 PROVE path'[i] = path[i]
        <5>1. i \in 1 .. l - 1 - 1 + 1 /\ 1 + i - 1 = i
          BY <4>1
        <5> QED  BY <4>2, <5>1
      <4>5. l \in Nat /\ l > 0 /\ Len(path') = l - 1
        BY <3>0, <3>1, <4>2
      <4> QED  BY <4>2, <4>3, <4>4, <4>5
    <3>3. Shapes'
      BY <1>2, <3>1, <3>2 DEF IInv, Shapes
    <3>4. \A i \in 1 .. Len(path') - 1 : path'[i + 1] \in edges[path'[i]]
      <4> TAKE i \in 1 .. Len(path') - 1
      <4>1. i \in 1 .. l - 1 /\ i + 1 \in 1 .. l - 1
        BY <3>2
      <4> QED  BY <3>2, <4>1 DEF IInv, PathFollowsEdges
    <3>5. \A s \in System : state'[s] = "onPath" => \E i \in DOMAIN path' : path'[i] = s
      <4> SUFFICES ASSUME NEW s \in System, state'[s] = "onPath" PROVE \E i \in DOMAIN path' : path'[i] = s
        OBVIOUS
      <4>1. s # path[l] /\ state[s] = "onPath"
        BY <3>1, <3>2 DEF IInv, Shapes
      <4>2. PICK i \in DOMAIN path : path[i] = s
        BY <4>1 DEF IInv, PathFollowsEdges
      <4>3. i \in 1 .. l - 1
        <5>1. i # l /\ i \in 1 .. l
          BY <3>0, <4>1, <4>2
        <5> QED  BY <3>2, <5>1
      <4> QED  BY <3>2, <4>2, <4>3
    <3> QED  BY <1>2, <3>1, <3>3, <3>4, <3>5 DEF PathFollowsEdges, CycleReal
  <2> QED  BY <2>1, <2>2, <2>3, <2>4 DEF Search
<1> QED  BY <1>1, <1>3, <1>4, GraphKept DEF IInv

LEMMA NextInvariant == IInv /\ [Next]_vars => IInv'
<1> SUFFICES ASSUME IInv, [Next]_vars PROVE IInv'
  OBVIOUS
<1>1. CASE UNCHANGED vars
  <2>1. UNCHANGED <<schedule, graph, processed, levels>> /\ UNCHANGED <<phase, state, path, cycle>>
    BY <1>1 DEF vars, search
  <2> QED  BY <2>1, GraphKept DEF IInv, Shapes, EdgesDrawn, PathFollowsEdges, CycleReal
<1> QED  BY <1>1, DrawEdgesInvariant, NextLevelInvariant, PhaseInvariant,
     SearchInvariant DEF Next

----------------------------------------------------------------------------
(***************************************************************************)
(* What the invariant says of the graph.                                   *)
(***************************************************************************)

LEMMA InvariantTypes == IInv => TypeOK
<1> SUFFICES ASSUME IInv PROVE TypeOK
  OBVIOUS
<1>1. indegree \in [System -> 0 .. Cardinality(System)]
  <2>1. \A s \in System : Cardinality(Awaited(s)) \in 0 .. Cardinality(System)
    BY SystemSubset DEF Awaited
  <2> QED  BY <2>1 DEF IInv, IndegreeCounts
<1>2. processed \subseteq System /\ \A i \in DOMAIN levels : levels[i] # {} /\ levels[i] \subseteq processed
  BY LevelsSequence DEF IInv, LevelsPartition
<1>3. ASSUME NEW s \in processed PROVE Cardinality({i \in DOMAIN levels : s \in levels[i]}) = 1
  <2>1. PICK i \in DOMAIN levels : s \in levels[i]
    BY DEF IInv, LevelsPartition
  <2>2. {j \in DOMAIN levels : s \in levels[j]} = {i}
    BY <2>1 DEF IInv, LevelsPartition
  <2> QED  BY <2>2, FS_Singleton
<1>4. ToSet(path) \subseteq System
  BY PathSequence DEF IInv, ToSet
<1> QED  BY <1>1, <1>2, <1>3, <1>4 DEF IInv, Shapes, TypeOK

\* An edge between two systems of levels goes to a later level.
LEMMA EdgeEarlier ==
  ASSUME IInv, NEW a \in System, NEW b \in System, <<a, b>> \in AllEdges, phase \notin {"edges", "rejected"},
         NEW j \in DOMAIN levels, b \in levels[j]
  PROVE  \E i \in DOMAIN levels : i < j /\ a \in levels[i]
<1>1. b \in edges[a]
  BY DEF IInv, EdgesDrawn
<1> QED  BY <1>1 DEF IInv, PredecessorsEarlier

LEMMA BuiltEarlier ==
  ASSUME IInv, NEW a \in System, NEW b \in System, <<a, b>> \in AllEdges, phase = "built"
  PROVE  Earlier(a, b)
<1>1. PICK j \in DOMAIN levels : b \in levels[j]
  BY DEF IInv, EdgesDrawn, LevelsPartition
<1> QED  BY <1>1, EdgeEarlier DEF Earlier

LEMMA InvariantLevels == IInv => LevelsIndependent
<1> SUFFICES ASSUME IInv, NEW i \in DOMAIN levels, NEW a \in levels[i], NEW b \in levels[i],
                    a # b, Conflict(a, b)
             PROVE  FALSE
  BY DEF LevelsIndependent
<1>1. a \in System /\ b \in System /\ DOMAIN levels = 1 .. Len(levels) /\ Len(levels) \in Nat
  BY LevelsSequence DEF IInv
<1>2. phase \notin {"edges", "rejected"}
  BY DEF IInv, EdgesDrawn
<1>3. ASSUME NEW x \in levels[i], NEW y \in levels[i], x \in System, y \in System, <<x, y>> \in AllEdges
      PROVE  FALSE
  <2>1. PICK j \in DOMAIN levels : j < i /\ x \in levels[j]
    BY <1>2, <1>3, EdgeEarlier
  <2>2. j # i
    BY <1>1, <2>1
  <2> QED  BY <1>3, <2>1, <2>2 DEF IInv, LevelsPartition
<1> QED  BY <1>1, <1>3, ConflictsOrdered DEF IInv

LEMMA InvariantOrder == IInv => ConstraintsKept /\ PriorityDecides /\ TerminalLast
<1> SUFFICES ASSUME IInv PROVE ConstraintsKept /\ PriorityDecides /\ TerminalLast
  OBVIOUS
<1>1. ConstraintsKept
  <2> SUFFICES ASSUME phase = "built", NEW p \in before PROVE Earlier(p[1], p[2])
    BY DEF ConstraintsKept
  <2>1. p[1] \in System /\ p[2] \in System /\ <<p[1], p[2]>> = p
    BY DEF IInv, ScheduleGiven
  <2> QED  BY <2>1, BuiltEarlier DEF AllEdges
<1>2. PriorityDecides
  <2> SUFFICES ASSUME phase = "built", NEW a \in System, NEW b \in System,
                      Conflict(a, b), priority[a] < priority[b], {a, b} \subseteq Regular,
                      <<a, b>> \notin before, <<b, a>> \notin before
               PROVE  Earlier(a, b)
    BY DEF PriorityDecides
  <2>1. ~ExplicitlyOrdered(a, b)
    BY DEF ExplicitlyOrdered, Regular
  <2> QED  BY <2>1, PriorityEdge, BuiltEarlier DEF IInv
<1>3. TerminalLast
  BY DEF IInv, ScheduleGiven, EdgesDrawn, TerminalTakenLast, TerminalLast
<1> QED  BY <1>1, <1>2, <1>3

LEMMA InvariantSound == IInv => GraphSound
BY InvariantTypes, InvariantLevels, InvariantOrder DEF IInv, GraphSound

\* Every graph a Schedule of finitely many systems is given is sound: its levels
\* hold each system once, behind all it must follow and right behind one of them,
\* none with two systems that touch the same component for writing, the terminal
\* system last; a cycle that stops the program exists.
THEOREM GraphIsSound == Spec => []GraphSound
<1>1. Spec => []IInv
  BY InitInvariant, NextInvariant, PTL DEF Spec
<1> QED  BY <1>1, InvariantSound, PTL

\* A level, once made, never changes: peeling only adds levels behind it, and a
\* stall, a rejection or the search for a cycle takes none away.
THEOREM LevelsAreFinal ==
  Spec => [][\A i \in DOMAIN levels : i \in DOMAIN levels' /\ levels'[i] = levels[i]]_vars
<1>1. IInv /\ [Next]_vars => [\A i \in DOMAIN levels : i \in DOMAIN levels' /\ levels'[i] = levels[i]]_vars
  <2> SUFFICES ASSUME IInv, [Next]_vars, NEW i \in DOMAIN levels
               PROVE  i \in DOMAIN levels' /\ levels'[i] = levels[i]
    OBVIOUS
  <2>1. CASE NextLevel
    <3>1. levels' = Append(levels, Ready) /\ Ready \in SUBSET System
      BY <2>1 DEF NextLevel, Ready
    <3>2. levels \in Seq(SUBSET System) /\ Len(levels) \in Nat /\ DOMAIN levels = 1 .. Len(levels)
      BY LevelsSequence DEF IInv
    <3>3. /\ levels' \in Seq(SUBSET System) /\ Len(levels') = Len(levels) + 1
          /\ \A k \in 1 .. Len(levels) : levels'[k] = levels[k]
      BY <3>1, <3>2, AppendProperties
    <3>4. DOMAIN levels' = 1 .. Len(levels')
      BY <3>3, LenProperties
    <3> QED  BY <3>2, <3>3, <3>4
  <2>2. CASE levels' = levels
    BY <2>2
  <2> QED  BY <2>1, <2>2 DEF Next, Reject, DrawEdges, Finish, Stall, Search, StartFrom,
       Follow, Close, Leave, vars
<1>2. Spec => []IInv
  BY InitInvariant, NextInvariant, PTL DEF Spec
<1> QED  BY <1>1, <1>2, PTL DEF Spec
-----------------------------------------------------------------------------
(* What applying the buffers computes: one command after another, and one  *)
(* buffer after another.                                                   *)

LEMMA TickSizes ==
  /\ Systems \in Nat /\ MaxTicks \in Nat /\ MaxEvents \in Nat
  /\ MaxSpawns \in Nat /\ MaxCommands \in Nat
BY BoundsAssumption

\* What apply() has after some of the commands: the scene and the entities.
Done == [scene : Tick!Scene, resolved : Seq(Nat)]

\* A command makes a scene of a scene.
LEMMA EffectScene ==
  ASSUME NEW sc \in Tick!Scene, NEW kind \in Tick!Kinds \cup {"spawn"}, NEW e
  PROVE  Tick!Effect(sc, kind, e) \in Tick!Scene
<1>1. /\ sc \in [live : SUBSET Nat, with : SUBSET Nat, next : Nat \ {0}]
      /\ sc.live \subseteq 1 .. sc.next - 1 /\ sc.with \subseteq sc.live
      /\ sc.next \in Nat \ {0} /\ sc.live \in SUBSET Nat /\ sc.with \in SUBSET Nat
  BY DEF Tick!Scene
<1>2. ASSUME NEW l \in SUBSET sc.live, NEW w \in SUBSET l
      PROVE  [sc EXCEPT !.live = l, !.with = w] \in Tick!Scene
  BY <1>1 DEF Tick!Scene
<1>3. CASE kind = "spawn"
  <2>1. sc.live \cup {sc.next} \in SUBSET Nat /\ sc.next + 1 \in Nat \ {0}
        /\ sc.live \cup {sc.next} \subseteq 1 .. (sc.next + 1) - 1
    BY <1>1
  <2>2. Tick!Effect(sc, kind, e) = [sc EXCEPT !.live = sc.live \cup {sc.next}, !.next = sc.next + 1]
    BY <1>3 DEF Tick!Effect, Tick!Spawned
  <2>3. sc.with \subseteq sc.live \cup {sc.next}
    BY <1>1
  <2> QED  BY <1>1, <2>1, <2>2, <2>3 DEF Tick!Scene
<1>4. CASE kind = "despawn"
  <2>1. Tick!Effect(sc, kind, e) = [sc EXCEPT !.live = sc.live \ {e}, !.with = sc.with \ {e}]
    BY <1>4 DEF Tick!Effect, Tick!Despawned
  <2>3. sc.live \ {e} \in SUBSET sc.live /\ sc.with \ {e} \in SUBSET (sc.live \ {e})
    BY <1>1
  <2>2. PICK l, w : l = sc.live \ {e} /\ w = sc.with \ {e}
    OBVIOUS
  <2> QED  BY <1>2, <2>1, <2>2, <2>3, ZenonT(60)
<1>5. CASE kind = "remove"
  <2>1. Tick!Effect(sc, kind, e) = [sc EXCEPT !.live = sc.live, !.with = sc.with \ {e}]
    BY <1>1, <1>5 DEF Tick!Effect, Tick!Removed
  <2>2. PICK l, w : l \in SUBSET sc.live /\ w \in SUBSET l /\ l = sc.live /\ w = sc.with \ {e}
    BY <1>1
  <2> QED  BY <1>2, <2>1, <2>2
<1>6. CASE kind = "add" /\ e \in sc.live
  <2>1. Tick!Effect(sc, kind, e) = [sc EXCEPT !.live = sc.live, !.with = sc.with \cup {e}]
    BY <1>1, <1>6 DEF Tick!Effect, Tick!Added
  <2>2. PICK l, w : l \in SUBSET sc.live /\ w \in SUBSET l /\ l = sc.live /\ w = sc.with \cup {e}
    BY <1>1, <1>6
  <2> QED  BY <1>2, <2>1, <2>2
<1>7. CASE kind = "add" /\ e \notin sc.live
  BY <1>7 DEF Tick!Effect, Tick!Added
<1> QED  BY <1>3, <1>4, <1>5, <1>6, <1>7 DEF Tick!Kinds

\* One command of apply().
LEMMA StepDone ==
  ASSUME NEW d \in Done, NEW c \in Tick!Command
  PROVE  Tick!Step(d, c) \in Done
<1>1. d.scene \in Tick!Scene /\ d.resolved \in Seq(Nat) /\ d.scene.next \in Nat
      /\ d = [scene |-> d.scene, resolved |-> d.resolved]
  BY DEF Done, Tick!Scene
<1>2. c.kind \in Tick!Kinds \cup {"spawn"}
  BY DEF Tick!Command
<1>3. CASE c.kind = "spawn"
  <2>1. Tick!Step(d, c) = [scene |-> Tick!Spawned(d.scene), resolved |-> Append(d.resolved, d.scene.next)]
    BY <1>3 DEF Tick!Step
  <2>2. Tick!Spawned(d.scene) \in Tick!Scene
    BY <1>1, <1>3, EffectScene DEF Tick!Effect
  <2>3. Append(d.resolved, d.scene.next) \in Seq(Nat)
    BY <1>1, AppendProperties
  <2> QED  BY <2>1, <2>2, <2>3 DEF Done
<1>4. CASE c.kind # "spawn"
  <2>1. PICK e : Tick!Step(d, c) = [d EXCEPT !.scene = Tick!Effect(d.scene, c.kind, e)]
    BY <1>4 DEF Tick!Step
  <2>2. Tick!Effect(d.scene, c.kind, e) \in Tick!Scene
    BY <1>1, <1>2, EffectScene
  <2> QED  BY <2>1, <2>2 DEF Done
<1> QED  BY <1>3, <1>4

Start(sc) == [scene |-> sc, resolved |-> <<>>]

\* One step of the recursion of Replayed, over the first N commands.
Replays(sc, cs, N, f) == [n \in 0 .. N |-> IF n = 0 THEN Start(sc) ELSE Tick!Step(f[n - 1], cs[n])]

LEMMA StartDone == ASSUME NEW sc \in Tick!Scene PROVE Start(sc) \in Done
BY EmptySeq DEF Start, Done

\* One command after another can be applied, and in one way.
LEMMA ReplayedInOrder ==
  ASSUME NEW N \in Nat, NEW sc \in Tick!Scene, NEW cs
  PROVE  (\A k \in 1 .. N : \A d \in Done : Tick!Step(d, cs[k]) \in Done) =>
           \E g \in [0 .. N -> Done] :
             g = Replays(sc, cs, N, g) /\ \A h : h = Replays(sc, cs, N, h) => h = g
<1>1. \A step \in [1 .. N -> [Done -> Done]] :
        \E g \in [0 .. N -> Done] : g[0] = Start(sc) /\ \A k \in 1 .. N : g[k] = step[k][g[k - 1]]
  BY Iteration, StartDone
<1>2. \A g, h : g[0] = h[0] /\ (\A k \in 1 .. N : g[k - 1] = h[k - 1] => g[k] = h[k])
                => \A k \in 0 .. N : g[k] = h[k]
  BY IterationUnique
<1>3. HAVE \A k \in 1 .. N : \A d \in Done : Tick!Step(d, cs[k]) \in Done
<1>4. PICK step \in [1 .. N -> [Done -> Done]] : \A k \in 1 .. N : \A d \in Done : step[k][d] = Tick!Step(d, cs[k])
  <2>1. [k \in 1 .. N |-> [d \in Done |-> Tick!Step(d, cs[k])]] \in [1 .. N -> [Done -> Done]]
    BY <1>3
  <2> QED  BY <2>1
<1>5. PICK g \in [0 .. N -> Done] : g[0] = Start(sc) /\ \A k \in 1 .. N : g[k] = step[k][g[k - 1]]
  BY <1>1
<1>6. \A k \in 1 .. N : k - 1 \in 0 .. N /\ g[k] = Tick!Step(g[k - 1], cs[k])
  BY <1>4, <1>5
<1>7. g = Replays(sc, cs, N, g)
  <2>1. \A n \in 0 .. N : g[n] = IF n = 0 THEN Start(sc) ELSE Tick!Step(g[n - 1], cs[n])
    BY <1>5, <1>6
  <2> QED  BY <2>1 DEF Replays
<1>8. ASSUME NEW h, h = Replays(sc, cs, N, h)
      PROVE  h = g
  <2>1. h[0] = g[0] /\ \A k \in 1 .. N : h[k] = Tick!Step(h[k - 1], cs[k])
    BY <1>5, <1>8 DEF Replays
  <2>2. \A k \in 1 .. N : h[k - 1] = g[k - 1] => h[k] = g[k]
    BY <1>6, <2>1
  <2>3. \A k \in 0 .. N : h[k] = g[k]
    BY <1>2, <2>1, <2>2
  <2>4. h = [n \in 0 .. N |-> h[n]] /\ g = [n \in 0 .. N |-> g[n]]
    BY <1>8 DEF Replays
  <2> QED  BY <2>3, <2>4
<1> QED  BY <1>7, <1>8

\* apply() applies one command after another.
LEMMA ReplayedFacts ==
  ASSUME NEW sc \in Tick!Scene, NEW b \in Tick!Buffer
  PROVE  /\ Len(b.commands) \in Nat
         /\ Tick!Replayed(sc, b) \in [0 .. Len(b.commands) -> Done]
         /\ Tick!Replayed(sc, b)[0] = Start(sc)
         /\ \A k \in 1 .. Len(b.commands) :
              Tick!Replayed(sc, b)[k] = Tick!Step(Tick!Replayed(sc, b)[k - 1], b.commands[k])
         /\ Tick!Applied(sc, b) \in Done
<1> DEFINE cs == b.commands
           N == Len(b.commands)
<1>1. Tick!Replayed(sc, b) = CHOOSE f : f = Replays(sc, cs, N, f)
  BY DEF Tick!Replayed, Replays, Start
<1>2. cs \in Seq(Tick!Command)
  BY DEF Tick!Buffer
<1>3. N \in Nat /\ \A k \in 1 .. N : cs[k] \in Tick!Command
  BY <1>2, LenProperties, ElementOfSeq
<1> HIDE DEF cs, N
<1>4. \A k \in 1 .. N : \A d \in Done : Tick!Step(d, cs[k]) \in Done
  BY <1>3, StepDone
<1>5. \E g \in [0 .. N -> Done] : g = Replays(sc, cs, N, g) /\ \A h : h = Replays(sc, cs, N, h) => h = g
  BY <1>3, <1>4, ReplayedInOrder, ZenonT(30)
<1>6. /\ Tick!Replayed(sc, b) = Replays(sc, cs, N, Tick!Replayed(sc, b))
      /\ Tick!Replayed(sc, b) \in [0 .. N -> Done]
  BY <1>1, <1>5
<1>7. /\ Tick!Replayed(sc, b)[0] = Start(sc)
      /\ \A k \in 1 .. N : Tick!Replayed(sc, b)[k] = Tick!Step(Tick!Replayed(sc, b)[k - 1], cs[k])
      /\ Tick!Replayed(sc, b)[N] \in Done
  BY <1>3, <1>6 DEF Replays
<1> QED  BY <1>3, <1>6, <1>7 DEF cs, N, Tick!Applied

\* A buffer without commands leaves the scene as it is.
LEMMA AppliedNone ==
  ASSUME NEW sc \in Tick!Scene, NEW b \in Tick!Buffer, b.commands = <<>>
  PROVE  Tick!Applied(sc, b) = Start(sc)
<1>1. Len(b.commands) = 0
  BY EmptySeq
<1> QED  BY <1>1, ReplayedFacts DEF Tick!Applied

\* One more command is applied after the others.
LEMMA AppliedOneMore ==
  ASSUME NEW sc \in Tick!Scene, NEW a \in Tick!Buffer, NEW b \in Tick!Buffer,
         NEW c \in Tick!Command, b.commands = Append(a.commands, c)
  PROVE  /\ Len(b.commands) = Len(a.commands) + 1
         /\ \A k \in 1 .. Len(a.commands) : b.commands[k] = a.commands[k]
         /\ b.commands[Len(a.commands) + 1] = c
         /\ \A k \in 0 .. Len(a.commands) : Tick!Replayed(sc, b)[k] = Tick!Replayed(sc, a)[k]
         /\ Tick!Applied(sc, b) = Tick!Step(Tick!Applied(sc, a), c)
<1> DEFINE N == Len(a.commands)
           g == Tick!Replayed(sc, b)
           h == Tick!Replayed(sc, a)
<1>1. a.commands \in Seq(Tick!Command) /\ N \in Nat
  BY LenProperties DEF Tick!Buffer
<1>2. Len(b.commands) = N + 1 /\ b.commands[N + 1] = c
      /\ \A k \in 1 .. N : b.commands[k] = a.commands[k]
  BY <1>1, AppendProperties
<1>3. /\ g[0] = Start(sc)
      /\ \A k \in 1 .. N + 1 : g[k] = Tick!Step(g[k - 1], b.commands[k])
  BY <1>2, ReplayedFacts
<1>4. /\ h[0] = Start(sc)
      /\ \A k \in 1 .. N : h[k] = Tick!Step(h[k - 1], a.commands[k])
  BY ReplayedFacts
<1>5. Tick!Applied(sc, b) = g[N + 1] /\ Tick!Applied(sc, a) = h[N]
  BY <1>2 DEF Tick!Applied
<1> HIDE DEF N, g, h
<1>6. \A k \in 0 .. N : g[k] = h[k]
  <2>1. g[0] = h[0]
    BY <1>3, <1>4
  <2>2. \A k \in 1 .. N : g[k - 1] = h[k - 1] => g[k] = h[k]
    BY <1>1, <1>2, <1>3, <1>4
  <2> QED  BY <1>1, <2>1, <2>2, IterationUnique, ZenonT(60)
<1>7. g[N + 1] = Tick!Step(h[N], c)
  BY <1>1, <1>2, <1>3, <1>6
<1> QED  BY <1>2, <1>5, <1>6, <1>7 DEF N, g, h

\* How many entities a buffer spawns does not depend on the scene.
LEMMA SpawnsAsMany ==
  ASSUME NEW sc \in Tick!Scene, NEW tc \in Tick!Scene, NEW b \in Tick!Buffer
  PROVE  /\ \A k \in 0 .. Len(b.commands) :
              Len(Tick!Replayed(sc, b)[k].resolved) = Len(Tick!Replayed(tc, b)[k].resolved)
         /\ Len(Tick!Applied(sc, b).resolved) = Len(Tick!Applied(tc, b).resolved)
<1> DEFINE N == Len(b.commands)
           f == Tick!Replayed(sc, b)
           h == Tick!Replayed(tc, b)
           fs == [k \in 0 .. N |-> Len(f[k].resolved)]
           hs == [k \in 0 .. N |-> Len(h[k].resolved)]
<1>1. ASSUME NEW d \in Done, NEW c
      PROVE  Len(Tick!Step(d, c).resolved) = Len(d.resolved) + (IF c.kind = "spawn" THEN 1 ELSE 0)
  <2>1. d.resolved \in Seq(Nat) /\ d.scene.next \in Nat /\ Len(d.resolved) \in Nat
    BY LenProperties DEF Done, Tick!Scene
  <2>2. CASE c.kind = "spawn"
    <3>1. Tick!Step(d, c).resolved = Append(d.resolved, d.scene.next)
      BY <2>2 DEF Tick!Step
    <3> QED  BY <2>1, <2>2, <3>1, AppendProperties
  <2>3. CASE c.kind # "spawn"
    <3>1. Tick!Step(d, c).resolved = d.resolved
      BY <2>3 DEF Tick!Step, Done
    <3> QED  BY <2>1, <2>3, <3>1
  <2> QED  BY <2>2, <2>3
<1>2. /\ N \in Nat /\ b.commands \in Seq(Tick!Command)
      /\ f \in [0 .. N -> Done] /\ f[0] = Start(sc)
      /\ \A k \in 1 .. N : f[k] = Tick!Step(f[k - 1], b.commands[k])
      /\ h \in [0 .. N -> Done] /\ h[0] = Start(tc)
      /\ \A k \in 1 .. N : h[k] = Tick!Step(h[k - 1], b.commands[k])
  BY ReplayedFacts DEF Tick!Buffer
<1>3. Tick!Applied(sc, b) = f[N] /\ Tick!Applied(tc, b) = h[N]
  BY DEF Tick!Applied
<1> HIDE DEF N, f, h
<1>4. fs[0] = hs[0]
  BY <1>2 DEF Start
<1>5. ASSUME NEW k \in 1 .. N, fs[k - 1] = hs[k - 1]
      PROVE  fs[k] = hs[k]
  <2>1. k - 1 \in 0 .. N /\ k \in 0 .. N
    BY <1>2
  <2>2. /\ Len(f[k].resolved) = Len(f[k - 1].resolved)
                                 + (IF b.commands[k].kind = "spawn" THEN 1 ELSE 0)
        /\ Len(h[k].resolved) = Len(h[k - 1].resolved)
                                 + (IF b.commands[k].kind = "spawn" THEN 1 ELSE 0)
    BY <1>1, <1>2, <2>1
  <2>3. Len(f[k - 1].resolved) = Len(h[k - 1].resolved)
    BY <1>5, <2>1
  <2> QED  BY <2>1, <2>2, <2>3
<1>6. \A k \in 0 .. N : fs[k] = hs[k]
  <2> HIDE DEF fs, hs
  <2>1. N \in Nat
    BY <1>2
  <2>2. \A k \in 1 .. N : fs[k - 1] = hs[k - 1] => fs[k] = hs[k]
    BY <1>5
  <2> QED  BY <1>4, <2>1, <2>2, IterationUnique, ZenonT(30)
<1>7. \A k \in 0 .. N : Len(f[k].resolved) = Len(h[k].resolved)
  BY <1>6
<1> QED  BY <1>2, <1>3, <1>7 DEF N, f, h

\* One step of the recursion of ScenesAfter, over the first N buffers.
Applies(sc, bs, N, f) == [n \in 0 .. N |-> IF n = 0 THEN sc ELSE Tick!Applied(f[n - 1], bs[n]).scene]

\* One buffer after another can be applied, and in one way.
LEMMA AppliedInTurn ==
  ASSUME NEW N \in Nat, NEW sc \in Tick!Scene, NEW bs
  PROVE  (\A k \in 1 .. N : \A d \in Tick!Scene : Tick!Applied(d, bs[k]).scene \in Tick!Scene) =>
           \E g \in [0 .. N -> Tick!Scene] :
             g = Applies(sc, bs, N, g) /\ \A h : h = Applies(sc, bs, N, h) => h = g
<1>1. \A step \in [1 .. N -> [Tick!Scene -> Tick!Scene]] :
        \E g \in [0 .. N -> Tick!Scene] : g[0] = sc /\ \A k \in 1 .. N : g[k] = step[k][g[k - 1]]
  BY Iteration
<1>2. \A g, h : g[0] = h[0] /\ (\A k \in 1 .. N : g[k - 1] = h[k - 1] => g[k] = h[k])
                => \A k \in 0 .. N : g[k] = h[k]
  BY IterationUnique
<1>3. HAVE \A k \in 1 .. N : \A d \in Tick!Scene : Tick!Applied(d, bs[k]).scene \in Tick!Scene
<1>4. PICK step \in [1 .. N -> [Tick!Scene -> Tick!Scene]] :
        \A k \in 1 .. N : \A d \in Tick!Scene : step[k][d] = Tick!Applied(d, bs[k]).scene
  <2>1. [k \in 1 .. N |-> [d \in Tick!Scene |-> Tick!Applied(d, bs[k]).scene]]
          \in [1 .. N -> [Tick!Scene -> Tick!Scene]]
    BY <1>3
  <2> QED  BY <2>1
<1>5. PICK g \in [0 .. N -> Tick!Scene] : g[0] = sc /\ \A k \in 1 .. N : g[k] = step[k][g[k - 1]]
  BY <1>1
<1>6. \A k \in 1 .. N : k - 1 \in 0 .. N /\ g[k] = Tick!Applied(g[k - 1], bs[k]).scene
  BY <1>4, <1>5
<1>7. g = Applies(sc, bs, N, g)
  <2>1. \A n \in 0 .. N : g[n] = IF n = 0 THEN sc ELSE Tick!Applied(g[n - 1], bs[n]).scene
    BY <1>5, <1>6
  <2> QED  BY <2>1 DEF Applies
<1>8. ASSUME NEW h, h = Applies(sc, bs, N, h)
      PROVE  h = g
  <2>1. h[0] = g[0] /\ \A k \in 1 .. N : h[k] = Tick!Applied(h[k - 1], bs[k]).scene
    BY <1>5, <1>8 DEF Applies
  <2>2. \A k \in 1 .. N : h[k - 1] = g[k - 1] => h[k] = g[k]
    BY <1>6, <2>1
  <2>3. \A k \in 0 .. N : h[k] = g[k]
    BY <1>2, <2>1, <2>2
  <2>4. h = [n \in 0 .. N |-> h[n]] /\ g = [n \in 0 .. N |-> g[n]]
    BY <1>8 DEF Applies
  <2> QED  BY <2>3, <2>4
<1> QED  BY <1>7, <1>8

\* The barrier applies one buffer after another.
LEMMA ScenesAfterFacts ==
  ASSUME NEW sc \in Tick!Scene, NEW bs \in [Tick!Turn -> Tick!Buffer]
  PROVE  /\ Tick!ScenesAfter(sc, bs) \in [0 .. Systems -> Tick!Scene]
         /\ Tick!ScenesAfter(sc, bs)[0] = sc
         /\ \A n \in 1 .. Systems :
              Tick!ScenesAfter(sc, bs)[n] = Tick!Applied(Tick!ScenesAfter(sc, bs)[n - 1], bs[n]).scene
<1>1. Tick!ScenesAfter(sc, bs) = CHOOSE f : f = Applies(sc, bs, Systems, f)
  BY DEF Tick!ScenesAfter, Applies
<1>2. \A k \in 1 .. Systems : \A d \in Tick!Scene : Tick!Applied(d, bs[k]).scene \in Tick!Scene
  <2>1. \A k \in 1 .. Systems : bs[k] \in Tick!Buffer
    BY DEF Tick!Turn
  <2>2. \A k \in 1 .. Systems : \A d \in Tick!Scene : Tick!Applied(d, bs[k]) \in Done
    BY <2>1, ReplayedFacts
  <2> QED  BY <2>2 DEF Done
<1>3. \E g \in [0 .. Systems -> Tick!Scene] :
        g = Applies(sc, bs, Systems, g) /\ \A h : h = Applies(sc, bs, Systems, h) => h = g
  BY <1>2, AppliedInTurn, TickSizes, SMTT(30)
<1>4. /\ Tick!ScenesAfter(sc, bs) = Applies(sc, bs, Systems, Tick!ScenesAfter(sc, bs))
      /\ Tick!ScenesAfter(sc, bs) \in [0 .. Systems -> Tick!Scene]
  BY <1>1, <1>3
<1> QED  BY <1>4, TickSizes DEF Applies

\* What a buffer makes of the scene does not depend on the buffers after it.
LEMMA ScenesAgree ==
  ASSUME NEW sc \in Tick!Scene, NEW bs \in [Tick!Turn -> Tick!Buffer],
         NEW cs \in [Tick!Turn -> Tick!Buffer], NEW r \in 0 .. Systems,
         \A n \in 1 .. r : bs[n] = cs[n]
  PROVE  \A n \in 0 .. r : Tick!ScenesAfter(sc, bs)[n] = Tick!ScenesAfter(sc, cs)[n]
<1> DEFINE g == Tick!ScenesAfter(sc, bs)
           h == Tick!ScenesAfter(sc, cs)
<1>1. r \in Nat /\ \A n \in 1 .. r : n \in 1 .. Systems
  BY TickSizes
<1>2. g[0] = sc /\ \A n \in 1 .. Systems : g[n] = Tick!Applied(g[n - 1], bs[n]).scene
  BY ScenesAfterFacts
<1>3. h[0] = sc /\ \A n \in 1 .. Systems : h[n] = Tick!Applied(h[n - 1], cs[n]).scene
  BY ScenesAfterFacts
<1> HIDE DEF g, h
<1>4. \A n \in 1 .. r : g[n - 1] = h[n - 1] => g[n] = h[n]
  BY <1>1, <1>2, <1>3
<1>5. g[0] = h[0]
  BY <1>2, <1>3
<1>6. \A n \in 0 .. r : g[n] = h[n]
  BY <1>1, <1>4, <1>5, IterationUnique
<1> QED  BY <1>6 DEF g, h

\* Empty buffers leave the scene to those before them.
LEMMA ScenesEmpty ==
  ASSUME NEW sc \in Tick!Scene, NEW bs \in [Tick!Turn -> Tick!Buffer], NEW r \in 0 .. Systems,
         \A n \in r + 1 .. Systems : bs[n].commands = <<>>
  PROVE  \A n \in r .. Systems : Tick!ScenesAfter(sc, bs)[n] = Tick!ScenesAfter(sc, bs)[r]
<1> DEFINE g == Tick!ScenesAfter(sc, bs)
           N == Systems - r
           T == {k \in 0 .. N : g[r + k] = g[r]}
<1>1. r \in Nat /\ N \in Nat /\ Systems \in Nat
  BY TickSizes
<1>2. /\ g \in [0 .. Systems -> Tick!Scene]
      /\ \A n \in 1 .. Systems : g[n] = Tick!Applied(g[n - 1], bs[n]).scene
  BY ScenesAfterFacts
<1>3. ASSUME NEW n \in r + 1 .. Systems PROVE g[n] = g[n - 1]
  <2>1. n \in 1 .. Systems /\ n - 1 \in 0 .. Systems
    BY <1>1
  <2>2. bs[n] \in Tick!Buffer /\ g[n - 1] \in Tick!Scene
    BY <1>2, <2>1 DEF Tick!Turn
  <2> HIDE DEF g
  <2>3. Tick!Applied(g[n - 1], bs[n]) = Start(g[n - 1])
    BY <2>2, AppliedNone
  <2> QED  BY <1>2, <2>1, <2>3 DEF Start
<1> HIDE DEF g
<1>4. 0 \in T /\ \A k \in 1 .. N : k - 1 \in T => k \in T
  <2>1. 0 \in T
    BY <1>1
  <2>2. ASSUME NEW k \in 1 .. N, k - 1 \in T PROVE k \in T
    <3>1. r + k \in r + 1 .. Systems /\ (r + k) - 1 = r + (k - 1) /\ k \in 0 .. N
      BY <1>1
    <3>2. g[r + k] = g[r + (k - 1)]
      BY <1>3, <3>1
    <3> QED  BY <2>2, <3>1, <3>2
  <2> QED  BY <2>1, <2>2
<1> HIDE DEF T
<1>5. \A k \in 0 .. N : k \in T
  BY <1>1, <1>4, EveryNumber
<1>6. ASSUME NEW n \in r .. Systems PROVE g[n] = g[r]
  <2>1. n - r \in 0 .. N /\ r + (n - r) = n
    BY <1>1
  <2>2. n - r \in T
    BY <1>5, <2>1
  <2> QED  BY <2>1, <2>2 DEF T
<1> QED  BY <1>6 DEF g

-----------------------------------------------------------------------------
(* A tick, from its first system to the barrier.                           *)

LEMMA TickTypes ==
  ASSUME Tick!TypeOK
  PROVE  /\ buffers \in [Tick!Turn -> Tick!Buffer] /\ scene \in Tick!Scene
         /\ \A s \in Tick!Turn : s \in 1 .. Systems /\ s - 1 \in 0 .. Systems /\ s - 1 \in Nat
         /\ Tick!SceneAfter \in [0 .. Systems -> Tick!Scene]
         /\ \A s \in Tick!Turn :
              /\ buffers[s] \in Tick!Buffer
              /\ Tick!SceneAfter[s - 1] \in Tick!Scene
              /\ Tick!Outcome(s) \in Done
              /\ Tick!SceneAfter[s] = Tick!Outcome(s).scene
<1>1. buffers \in [Tick!Turn -> Tick!Buffer] /\ scene \in Tick!Scene
  BY DEF Tick!TypeOK
<1>2. \A s \in Tick!Turn : s \in 1 .. Systems /\ s - 1 \in 0 .. Systems /\ s - 1 \in Nat
  BY TickSizes DEF Tick!Turn
<1>3. /\ Tick!SceneAfter \in [0 .. Systems -> Tick!Scene]
      /\ \A n \in 1 .. Systems :
           Tick!SceneAfter[n] = Tick!Applied(Tick!SceneAfter[n - 1], buffers[n]).scene
  BY <1>1, ScenesAfterFacts DEF Tick!SceneAfter
<1>4. ASSUME NEW s \in Tick!Turn
      PROVE  /\ buffers[s] \in Tick!Buffer /\ Tick!SceneAfter[s - 1] \in Tick!Scene
             /\ Tick!SceneAfter[s] = Tick!Applied(Tick!SceneAfter[s - 1], buffers[s]).scene
  BY <1>1, <1>2, <1>3
<1>5. \A s \in Tick!Turn : Tick!Outcome(s) \in Done
  BY <1>4, ReplayedFacts DEF Tick!Outcome
<1> QED  BY <1>1, <1>2, <1>3, <1>4, <1>5 DEF Tick!Outcome

\* How many commands a buffer has, and had.
LEMMA CommandCounts ==
  /\ Tick!TypeOK  => \A s \in Tick!Turn : Len(buffers[s].commands) \in Nat /\ kept[s] \in Nat
  /\ Tick!TypeOK' => \A s \in Tick!Turn : Len(buffers'[s].commands) \in Nat /\ kept'[s] \in Nat
<1>1. \A b \in Tick!Buffer : Len(b.commands) \in Nat
  BY LenProperties DEF Tick!Buffer
<1> QED  BY <1>1 DEF Tick!TypeOK

\* A buffer that stands has as many entities to spawn whatever became of the
\* scene and of the other buffers, so its commands can still be resolved.
LEMMA BufferStands ==
  ASSUME Tick!TypeOK, buffers' \in [Tick!Turn -> Tick!Buffer], scene' \in Tick!Scene,
         NEW s \in Tick!Turn, buffers'[s] = buffers[s]
  PROVE  /\ Len(Tick!Outcome(s)'.resolved) = Len(Tick!Outcome(s).resolved)
         /\ Tick!Resolvable(s) => Tick!Resolvable(s)'
<1>1. /\ s - 1 \in 0 .. Systems
      /\ buffers[s] \in Tick!Buffer /\ Tick!SceneAfter[s - 1] \in Tick!Scene
  BY TickTypes
<1>2. Tick!SceneAfter'[s - 1] \in Tick!Scene
  <2>1. Tick!ScenesAfter(scene', buffers') \in [0 .. Systems -> Tick!Scene]
    BY ScenesAfterFacts
  <2> QED  BY <1>1, <2>1 DEF Tick!SceneAfter
<1>3. /\ \A k \in 0 .. Len(buffers[s].commands) :
           Len(Tick!Replayed(Tick!SceneAfter'[s - 1], buffers[s])[k].resolved)
             = Len(Tick!Replayed(Tick!SceneAfter[s - 1], buffers[s])[k].resolved)
      /\ Len(Tick!Applied(Tick!SceneAfter'[s - 1], buffers[s]).resolved)
           = Len(Tick!Applied(Tick!SceneAfter[s - 1], buffers[s]).resolved)
  BY <1>1, <1>2, SpawnsAsMany
<1>4. ASSUME Tick!Resolvable(s) PROVE Tick!Resolvable(s)'
  <2>1. \A i \in DOMAIN buffers[s].commands : i - 1 \in 0 .. Len(buffers[s].commands)
    <3>1. buffers[s].commands \in Seq(Tick!Command)
      BY <1>1 DEF Tick!Buffer
    <3>2. DOMAIN buffers[s].commands = 1 .. Len(buffers[s].commands) /\ Len(buffers[s].commands) \in Nat
      BY <3>1, LenProperties
    <3> QED  BY <3>2
  <2>2. \A i \in DOMAIN buffers[s].commands :
           Len(Tick!Replayed(Tick!SceneAfter'[s - 1], buffers[s])[i - 1].resolved)
             = Len(Tick!Replayed(Tick!SceneAfter[s - 1], buffers[s])[i - 1].resolved)
    BY <1>3, <2>1
  <2> QED  BY <1>4, <2>2 DEF Tick!Resolvable, Tick!Accepted
<1> QED  BY <1>3, <1>4 DEF Tick!Outcome

\* Nothing is recorded, and the scene is as it was.
LEMMA BuffersKept ==
  ASSUME Tick!TickSound, UNCHANGED <<buffers, kept, handed, meant, scene>>,
         Tick!TypeOK', Tick!TurnsInOrder', Tick!RecordedInTurn'
  PROVE  Tick!TickSound'
<1>1. Tick!BuffersMean'
  BY DEF Tick!TickSound, Tick!BuffersMean, Tick!SceneAfter, Tick!Torn
<1>2. Tick!PendingSpawned' /\ Tick!PendingMeant'
  BY DEF Tick!TickSound, Tick!PendingSpawned, Tick!PendingMeant, Tick!Outcome,
         Tick!SceneAfter, Tick!Torn
<1>3. Tick!PendingResolvable'
  BY DEF Tick!TickSound, Tick!PendingResolvable, Tick!Resolvable, Tick!Accepted,
       Tick!SceneAfter
<1>4. Tick!NothingOutlivesTick'
  <2>1. \A s \in Tick!Turn : Len(buffers'[s].commands) \in Nat /\ kept'[s] \in Nat
    BY CommandCounts
  <2> QED  BY <2>1 DEF Tick!NothingOutlivesTick, Tick!RecordedInTurn
<1> QED  BY <1>1, <1>2, <1>3, <1>4 DEF Tick!TickSound

(***************************************************************************)
(* The system whose turn it is records a command: its own buffer gains     *)
(* what the scene meant gains, and the buffers after it are still empty.   *)
(***************************************************************************)
LEMMA CommandRecorded ==
  ASSUME Tick!TickSound, NEW r \in Tick!Turn, r = running,
         NEW kind \in Tick!Kinds \cup {"spawn"}, NEW target \in Tick!Target,
         Tick!Record(kind, target), UNCHANGED <<scene, kept>>
  PROVE  /\ buffers' \in [Tick!Turn -> Tick!Buffer]
         /\ \A s \in Tick!Turn : s # r => buffers'[s] = buffers[s]
         /\ buffers'[r].epoch = buffers[r].epoch
         /\ buffers'[r].nextPending =
              IF kind = "spawn" THEN buffers[r].nextPending + 1 ELSE buffers[r].nextPending
         /\ Len(buffers'[r].commands) = Len(buffers[r].commands) + 1
         /\ Tick!Outcome(r) \in Done
         /\ Tick!Outcome(r)' = Tick!Step(Tick!Outcome(r), [kind |-> kind, target |-> target])
         /\ \A s \in Tick!Turn : s # r =>
              Len(Tick!Outcome(s)'.resolved) = Len(Tick!Outcome(s).resolved)
         /\ ~Tick!Torn =>
              /\ \A s \in Tick!Turn : s # r => Tick!Outcome(s)'.resolved = Tick!Outcome(s).resolved
              /\ meant.scene = Tick!Outcome(r).scene
              /\ Tick!SceneAfter'[Systems] = Tick!Outcome(r)'.scene
         /\ \A s \in Tick!Turn : s # r => Tick!Resolvable(s)'
         /\ \/ kind = "spawn" \/ target.buffer = 0
            \/ Tick!Accepted(r, target) /\ target.index < Len(Tick!Outcome(r).resolved)
            => Tick!Resolvable(r)'
<1> DEFINE c == [kind |-> kind, target |-> target]
<1>1. /\ Tick!TypeOK
      /\ buffers \in [Tick!Turn -> Tick!Buffer] /\ scene \in Tick!Scene
      /\ r \in 1 .. Systems /\ r - 1 \in 0 .. Systems /\ r - 1 \in Nat /\ r \in 0 .. Systems
      /\ buffers[r] \in Tick!Buffer /\ Tick!Outcome(r) \in Done
      /\ Tick!SceneAfter[r] = Tick!Outcome(r).scene
      /\ c \in Tick!Command
  BY TickTypes, TickSizes DEF Tick!TickSound, Tick!Command
<1>2. /\ \A s \in Tick!Turn : s # r => buffers'[s] = buffers[s]
      /\ buffers'[r].commands = Append(buffers[r].commands, c)
      /\ buffers'[r].epoch = buffers[r].epoch
      /\ buffers'[r].nextPending =
           IF kind = "spawn" THEN buffers[r].nextPending + 1 ELSE buffers[r].nextPending
      /\ buffers'[r] \in Tick!Buffer
      /\ buffers' \in [Tick!Turn -> Tick!Buffer]
  <2>1. PICK b : b = buffers[r]
    OBVIOUS
  <2>2. b \in [epoch : Nat, nextPending : Nat, commands : Seq(Tick!Command)]
    BY <1>1, <2>1 DEF Tick!Buffer
  <2>3. Append(b.commands, c) \in Seq(Tick!Command)
    BY <1>1, <2>2, AppendProperties
  <2>4. PICK cs : cs = Append(b.commands, c)
    OBVIOUS
  <2>5. PICK m \in Nat : m = IF kind = "spawn" THEN b.nextPending + 1 ELSE b.nextPending
    <3>1. b.nextPending \in Nat /\ b.nextPending + 1 \in Nat
      BY <2>2
    <3> QED  BY <3>1
  <2>6. buffers' = [buffers EXCEPT ![r] = [b EXCEPT !.commands = cs, !.nextPending = m]]
    BY <1>1, <2>1, <2>2, <2>4, <2>5 DEF Tick!Record
  <2>7. PICK v : v = [b EXCEPT !.commands = cs, !.nextPending = m]
    OBVIOUS
  <2>8. cs \in Seq(Tick!Command)
    BY <2>3, <2>4
  <2>9. v \in Tick!Buffer /\ v.commands = cs /\ v.epoch = b.epoch /\ v.nextPending = m
    BY <2>2, <2>5, <2>7, <2>8 DEF Tick!Buffer
  <2>10. buffers' = [buffers EXCEPT ![r] = v]
    BY <2>6, <2>7
  <2>11. buffers' \in [Tick!Turn -> Tick!Buffer] /\ buffers'[r] = v
         /\ \A s \in Tick!Turn : s # r => buffers'[s] = buffers[s]
    BY <1>1, <2>9, <2>10
  <2> QED  BY <2>1, <2>4, <2>5, <2>9, <2>11
<1> HIDE DEF c
<1>3. /\ \A n \in r + 1 .. Systems : n \in Tick!Turn /\ n # r /\ n > r
      /\ ~Tick!Torn => \A n \in Tick!Turn : n > r => buffers[n].commands = <<>>
      /\ \A n \in 1 .. r - 1 : n \in Tick!Turn /\ n # r
  <2>1. /\ \A n \in r + 1 .. Systems : n \in Tick!Turn /\ n # r /\ n > r
        /\ \A n \in 1 .. r - 1 : n \in Tick!Turn /\ n # r
    BY <1>1, TickSizes DEF Tick!Turn
  <2>2. ASSUME ~Tick!Torn, NEW n \in Tick!Turn, n > r
        PROVE  buffers[n].commands = <<>>
    <3>1. kept[n] = 0 /\ Len(buffers[n].commands) \in Nat
      BY <1>1, <2>2, CommandCounts DEF Tick!Torn, Tick!NoneKept
    <3>2. n \in Int /\ r # 0
      BY <1>1, TickTypes
    <3>3. ~(0 < Len(buffers[n].commands))
      BY <1>1, <2>2, <3>1, <3>2 DEF Tick!TickSound, Tick!RecordedInTurn
    <3>4. buffers[n].commands \in Seq(Tick!Command)
      BY <1>1 DEF Tick!Buffer
    <3> QED  BY <3>1, <3>3, <3>4, EmptySeq
  <2> QED  BY <2>1, <2>2
<1>4. \A n \in 0 .. r - 1 : Tick!SceneAfter'[n] = Tick!SceneAfter[n]
  <2>1. \A n \in 1 .. r - 1 : buffers'[n] = buffers[n]
    BY <1>2, <1>3
  <2>2. \A n \in 0 .. r - 1 : Tick!ScenesAfter(scene, buffers')[n] = Tick!ScenesAfter(scene, buffers)[n]
    BY <1>1, <1>2, <2>1, ScenesAgree
  <2> QED  BY <2>2 DEF Tick!SceneAfter
<1>5. /\ Tick!Outcome(r)' = Tick!Step(Tick!Outcome(r), c)
      /\ Len(buffers'[r].commands) = Len(buffers[r].commands) + 1
      /\ Len(buffers[r].commands) \in Nat
      /\ \A i \in 1 .. Len(buffers[r].commands) : buffers'[r].commands[i] = buffers[r].commands[i]
      /\ buffers'[r].commands[Len(buffers[r].commands) + 1] = c
      /\ \A i \in 0 .. Len(buffers[r].commands) :
           Tick!Replayed(Tick!SceneAfter[r - 1], buffers'[r])[i]
              = Tick!Replayed(Tick!SceneAfter[r - 1], buffers[r])[i]
      /\ Tick!SceneAfter'[r - 1] = Tick!SceneAfter[r - 1]
  <2>1. Tick!SceneAfter'[r - 1] = Tick!SceneAfter[r - 1] /\ Tick!SceneAfter[r - 1] \in Tick!Scene
    BY <1>1, <1>4, TickTypes
  <2>2. PICK sc \in Tick!Scene : sc = Tick!SceneAfter[r - 1]
    BY <2>1
  <2>3. PICK a \in Tick!Buffer, b \in Tick!Buffer :
           a = buffers[r] /\ b = buffers'[r] /\ b.commands = Append(a.commands, c)
    BY <1>1, <1>2
  <2>4. Tick!Outcome(r) = Tick!Applied(sc, a) /\ Tick!Outcome(r)' = Tick!Applied(sc, b)
    BY <2>1, <2>2, <2>3 DEF Tick!Outcome
  <2>5. /\ Len(b.commands) = Len(a.commands) + 1
        /\ \A k \in 1 .. Len(a.commands) : b.commands[k] = a.commands[k]
        /\ b.commands[Len(a.commands) + 1] = c
        /\ \A k \in 0 .. Len(a.commands) : Tick!Replayed(sc, b)[k] = Tick!Replayed(sc, a)[k]
        /\ Tick!Applied(sc, b) = Tick!Step(Tick!Applied(sc, a), c)
    BY <1>1, <2>3, AppliedOneMore, SMTT(30)
  <2>6. Len(a.commands) \in Nat
    BY <2>2, ReplayedFacts
  <2> QED  BY <2>1, <2>2, <2>3, <2>4, <2>5, <2>6
<1>6. ASSUME NEW bs \in [Tick!Turn -> Tick!Buffer],
             \A n \in r + 1 .. Systems : bs[n].commands = <<>>
      PROVE  /\ Tick!ScenesAfter(scene, bs)[Systems] = Tick!ScenesAfter(scene, bs)[r]
             /\ Tick!ScenesAfter(scene, bs)[r]
                  = Tick!Applied(Tick!ScenesAfter(scene, bs)[r - 1], bs[r]).scene
  <2>1. Systems \in r .. Systems
    BY <1>1, TickSizes
  <2> QED  BY <1>1, <1>6, <2>1, ScenesEmpty, ScenesAfterFacts
<1>7. ASSUME ~Tick!Torn
      PROVE  /\ meant.scene = Tick!Outcome(r).scene
             /\ Tick!SceneAfter'[Systems] = Tick!Outcome(r)'.scene
  <2>1. Tick!SceneAfter[Systems] = Tick!SceneAfter[r]
    BY <1>1, <1>3, <1>6, <1>7 DEF Tick!SceneAfter
  <2>2. meant.scene = Tick!SceneAfter[Systems]
    BY <1>7 DEF Tick!TickSound, Tick!BuffersMean
  <2>3. \A n \in r + 1 .. Systems : buffers'[n].commands = <<>>
    BY <1>2, <1>3, <1>7
  <2>4. Tick!SceneAfter'[Systems] = Tick!Applied(Tick!SceneAfter'[r - 1], buffers'[r]).scene
    BY <1>2, <1>6, <2>3 DEF Tick!SceneAfter
  <2> QED  BY <1>1, <2>1, <2>2, <2>4 DEF Tick!Outcome
<1>8. ASSUME NEW s \in Tick!Turn, s # r
      PROVE  /\ Len(Tick!Outcome(s)'.resolved) = Len(Tick!Outcome(s).resolved)
             /\ Tick!Resolvable(s)'
  <2>1. Tick!Resolvable(s) /\ buffers'[s] = buffers[s] /\ scene' \in Tick!Scene
    BY <1>1, <1>2, <1>8 DEF Tick!TickSound, Tick!PendingResolvable
  <2> QED  BY <1>1, <1>2, <2>1, BufferStands
<1>10. ASSUME ~Tick!Torn, NEW s \in Tick!Turn, s # r
       PROVE  Tick!Outcome(s)'.resolved = Tick!Outcome(s).resolved
  <2>1. CASE s < r
    <3>1. s - 1 \in 0 .. r - 1
      <4>1. s \in 1 .. Systems
        BY <1>1, TickTypes
      <4> QED  BY <1>1, <2>1, <4>1, TickSizes
    <3>2. Tick!SceneAfter'[s - 1] = Tick!SceneAfter[s - 1]
      BY <1>4, <3>1
    <3> QED  BY <1>2, <1>10, <3>2 DEF Tick!Outcome
  <2>2. CASE s > r
    <3>1. buffers'[s] = buffers[s] /\ buffers[s].commands = <<>> /\ buffers[s] \in Tick!Buffer
      BY <1>1, <1>2, <1>3, <1>10, <2>2, TickTypes
    <3>3. Tick!SceneAfter[s - 1] \in Tick!Scene /\ Tick!SceneAfter'[s - 1] \in Tick!Scene
      <4>1. Tick!ScenesAfter(scene, buffers') \in [0 .. Systems -> Tick!Scene]
        BY <1>1, <1>2, ScenesAfterFacts
      <4>2. s - 1 \in 0 .. Systems
        BY <1>1, TickTypes
      <4> QED  BY <1>1, <4>1, <4>2, TickTypes DEF Tick!SceneAfter
    <3>4. Tick!Outcome(s)' = Start(Tick!SceneAfter'[s - 1]) /\ Tick!Outcome(s) = Start(Tick!SceneAfter[s - 1])
      BY <3>1, <3>3, AppliedNone DEF Tick!Outcome
    <3> QED  BY <3>4 DEF Start
  <2> QED  BY <1>1, <1>10, <2>1, <2>2, TickTypes
<1>9. ASSUME \/ kind = "spawn" \/ target.buffer = 0
             \/ Tick!Accepted(r, target) /\ target.index < Len(Tick!Outcome(r).resolved)
      PROVE  Tick!Resolvable(r)'
  <2> DEFINE n == Len(buffers[r].commands)
  <2>1. Tick!Outcome(r) = Tick!Replayed(Tick!SceneAfter[r - 1], buffers[r])[n]
    BY DEF Tick!Outcome, Tick!Applied
  <2>2. DOMAIN buffers'[r].commands = 1 .. n + 1 /\ DOMAIN buffers[r].commands = 1 .. n
    BY <1>1, <1>2, <1>5, LenProperties DEF Tick!Buffer
  <2> DEFINE Known(t) == t.buffer = 0 \/ (t.buffer = r /\ t.epoch = buffers'[r].epoch)
  <2>3. \A t : Known(t) <=> Tick!Accepted(r, t)
    BY <1>2 DEF Tick!Accepted
  <2>4. Tick!Resolvable(r)
    BY DEF Tick!TickSound, Tick!PendingResolvable
  <2> HIDE DEF Known, n
  <2>5. ASSUME NEW i \in 1 .. n + 1,
               buffers'[r].commands[i].kind # "spawn", buffers'[r].commands[i].target.buffer # 0
        PROVE  /\ Known(buffers'[r].commands[i].target)
               /\ buffers'[r].commands[i].target.index
                    < Len(Tick!Replayed(Tick!SceneAfter'[r - 1], buffers'[r])[i - 1].resolved)
    <3>1. CASE i = n + 1
      <4>1. i - 1 = n /\ n \in 0 .. n
        BY <1>5, <3>1 DEF n
      <4>2. buffers'[r].commands[i] = c
        BY <1>5, <3>1 DEF n
      <4>3. Tick!Replayed(Tick!SceneAfter'[r - 1], buffers'[r])[i - 1] = Tick!Outcome(r)
        BY <1>5, <2>1, <4>1 DEF n
      <4>4. Tick!Accepted(r, target) /\ target.index < Len(Tick!Outcome(r).resolved)
        BY <1>9, <2>5, <4>2 DEF c
      <4> QED  BY <2>3, <4>2, <4>3, <4>4 DEF c
    <3>2. CASE i # n + 1
      <4>1. i \in 1 .. n /\ i - 1 \in 0 .. n
        BY <1>5, <3>2 DEF n
      <4>2. buffers'[r].commands[i] = buffers[r].commands[i]
        BY <1>5, <4>1 DEF n
      <4>3. Tick!Replayed(Tick!SceneAfter'[r - 1], buffers'[r])[i - 1]
              = Tick!Replayed(Tick!SceneAfter[r - 1], buffers[r])[i - 1]
        BY <1>5, <4>1 DEF n
      <4>4. /\ Tick!Accepted(r, buffers[r].commands[i].target)
            /\ buffers[r].commands[i].target.index
                 < Len(Tick!Replayed(Tick!SceneAfter[r - 1], buffers[r])[i - 1].resolved)
        BY <2>2, <2>4, <2>5, <4>1, <4>2 DEF Tick!Resolvable
      <4> QED  BY <2>3, <4>2, <4>3, <4>4
    <3> QED  BY <3>1, <3>2
  <2> QED  BY <2>2, <2>5 DEF Known, Tick!Resolvable, Tick!Accepted
<1> QED  BY <1>1, <1>2, <1>5, <1>7, <1>8, <1>9, <1>10 DEF c

\* The buffer that has gained a command is the one whose turn it is.
LEMMA RecordedAtTurn ==
  ASSUME Tick!TypeOK, Tick!RecordedInTurn, inTick, NEW r \in Tick!Turn, r = running,
         UNCHANGED <<running, ended, inTick, kept>>,
         Len(buffers'[r].commands) = Len(buffers[r].commands) + 1,
         \A s \in Tick!Turn : s # r => buffers'[s] = buffers[s]
  PROVE  Tick!RecordedInTurn'
<1>1. r \in Nat /\ r # 0 /\ kept[r] \in Nat /\ Len(buffers[r].commands) \in Nat
      /\ kept[r] <= Len(buffers[r].commands)
  BY TickTypes, CommandCounts DEF Tick!RecordedInTurn
<1>2. ASSUME NEW s \in Tick!Turn
      PROVE  /\ kept[s] <= Len(buffers'[s].commands)
             /\ kept[s] < Len(buffers'[s].commands) => s <= running
  <2>1. CASE s = r
    BY <1>1, <2>1
  <2>2. CASE s # r
    BY <1>1, <2>2 DEF Tick!RecordedInTurn
  <2> QED  BY <2>1, <2>2
<1> QED  BY <1>1, <1>2 DEF Tick!RecordedInTurn

(***************************************************************************)
(* A system spawns: the pending entity it is handed has the index of the   *)
(* next entity its buffer will make, which is the one meant.               *)
(***************************************************************************)
LEMMA SpawnSound ==
  ASSUME Tick!TickSound, Tick!Spawn
  PROVE  Tick!TickSound'
<1>1. PICK r \in Tick!Turn : r = running
  BY DEF Tick!Spawn, Tick!TickSound, Tick!TypeOK
<1>2. PICK p : p = Tick!Pending(r, buffers[r].epoch, buffers[r].nextPending, Len(meant.of) + 1)
  OBVIOUS
<1> DEFINE Res == Tick!Outcome(r).resolved
           n == Len(meant.of)
<1>3. /\ Tick!TypeOK /\ inTick /\ n < MaxSpawns /\ n \in Nat /\ meant.of \in Seq(Nat)
      /\ DOMAIN meant.of = 1 .. n /\ r \in 1 .. Systems
      /\ meant.scene \in Tick!Scene /\ meant.scene.next \in Nat
      /\ buffers[r].epoch \in Nat /\ buffers[r].nextPending \in Nat
      /\ Systems \in Nat /\ MaxSpawns \in Nat
  <2>1. Tick!TypeOK /\ inTick /\ n < MaxSpawns
    BY <1>1, TickSizes DEF Tick!TickSound, Tick!TurnsInOrder, Tick!Spawn, Tick!Turn
  <2>2. meant.of \in Seq(Nat) /\ meant.scene \in Tick!Scene
    BY <2>1 DEF Tick!TypeOK
  <2> QED  BY <1>1, <2>1, <2>2, TickTypes, LenProperties, TickSizes DEF Tick!Scene,
       Tick!Buffer
<1>4. p \in Tick!Target /\ p.buffer = r /\ p.epoch = buffers[r].epoch
      /\ p.index = buffers[r].nextPending /\ p.spawn = n + 1 /\ p.buffer # 0
  BY <1>2, <1>3, TickSizes DEF Tick!Pending, Tick!Target
<1>5. /\ Tick!Record("spawn", p) /\ handed' = handed \cup {p}
      /\ meant' = [scene |-> Tick!Spawned(meant.scene), of |-> Append(meant.of, meant.scene.next)]
      /\ UNCHANGED <<running, ended, inTick, ticks, barriers, scene, kept>>
  BY <1>1, <1>2 DEF Tick!Spawn, Tick!execution
<1>6. /\ buffers' \in [Tick!Turn -> Tick!Buffer]
      /\ \A s \in Tick!Turn : s # r => buffers'[s] = buffers[s]
      /\ buffers'[r].epoch = buffers[r].epoch
      /\ buffers'[r].nextPending = buffers[r].nextPending + 1
      /\ Len(buffers'[r].commands) = Len(buffers[r].commands) + 1
      /\ Tick!Outcome(r) \in Done
      /\ Tick!Outcome(r)' = Tick!Step(Tick!Outcome(r), [kind |-> "spawn", target |-> p])
      /\ \A s \in Tick!Turn : s # r =>
           Len(Tick!Outcome(s)'.resolved) = Len(Tick!Outcome(s).resolved)
      /\ ~Tick!Torn =>
           /\ \A s \in Tick!Turn : s # r => Tick!Outcome(s)'.resolved = Tick!Outcome(s).resolved
           /\ meant.scene = Tick!Outcome(r).scene
           /\ Tick!SceneAfter'[Systems] = Tick!Outcome(r)'.scene
      /\ Tick!Torn' = Tick!Torn
      /\ \A s \in Tick!Turn : Tick!Resolvable(s)'
  <2>1. "spawn" \in Tick!Kinds \cup {"spawn"}
    OBVIOUS
  <2>2. UNCHANGED <<scene, kept>> /\ Tick!Torn' = Tick!Torn
    BY <1>5 DEF Tick!Torn
  <2>3. Tick!Record("spawn", p)
    BY <1>5
  <2> QED  BY <1>1, <1>4, <2>1, <2>2, <2>3, CommandRecorded
<1> DEFINE next == Tick!Outcome(r).scene.next
<1>7. /\ Tick!Outcome(r)'.resolved = Append(Res, next)
      /\ Res \in Seq(Nat) /\ next \in Nat
      /\ ~Tick!Torn => /\ Tick!Outcome(r)'.scene = Tick!Spawned(meant.scene)
                       /\ next = meant.scene.next
  <2>1. Tick!Outcome(r)' = [scene |-> Tick!Spawned(Tick!Outcome(r).scene),
                            resolved |-> Append(Res, next)]
    BY <1>6 DEF Tick!Step
  <2>2. Res \in Seq(Nat) /\ next \in Nat
    BY <1>6 DEF Done, Tick!Scene
  <2>3. /\ Tick!Outcome(r)'.scene = Tick!Spawned(Tick!Outcome(r).scene)
        /\ Tick!Outcome(r)'.resolved = Append(Res, next)
    BY <2>1
  <2> QED  BY <1>6, <2>2, <2>3
<1>8. /\ meant'.scene = Tick!Spawned(meant.scene) /\ meant'.scene \in Tick!Scene
      /\ meant'.of = Append(meant.of, meant.scene.next)
      /\ meant'.of \in Seq(Nat) /\ Len(meant'.of) = n + 1 /\ DOMAIN meant'.of = 1 .. n + 1
      /\ \A i \in 1 .. n : meant'.of[i] = meant.of[i]
      /\ meant'.of[n + 1] = meant.scene.next
  <2>1. Tick!Spawned(meant.scene) \in Tick!Scene
    BY <1>3, EffectScene DEF Tick!Effect
  <2>2. meant'.of = Append(meant.of, meant.scene.next) /\ meant'.scene = Tick!Spawned(meant.scene)
    BY <1>5
  <2> QED  BY <1>3, <2>1, <2>2, AppendProperties, LenProperties
<1>9. \A s \in Tick!Turn : /\ buffers[s].nextPending = Len(Tick!Outcome(s).resolved)
                           /\ buffers[s].nextPending <= n /\ buffers[s].nextPending \in Nat
  <2>1. \A s \in Tick!Turn : buffers[s].nextPending \in Nat
    BY <1>3, TickTypes DEF Tick!Buffer
  <2> QED  BY <2>1 DEF Tick!TickSound, Tick!PendingSpawned
<1>10. /\ Len(Append(Res, next)) = buffers[r].nextPending + 1
       /\ \A i \in 1 .. buffers[r].nextPending : Append(Res, next)[i] = Res[i]
       /\ Append(Res, next)[buffers[r].nextPending + 1] = next
  BY <1>1, <1>3, <1>7, <1>9, AppendProperties
<1> HIDE DEF Res, n, next
<1>11. Tick!TypeOK'
  <2>1. \A s \in Tick!Turn : buffers'[s].nextPending \in 0 .. MaxSpawns
    <3>1. \A s \in Tick!Turn : s # r => buffers'[s].nextPending \in 0 .. MaxSpawns
      BY <1>3, <1>6 DEF Tick!TypeOK
    <3>2. buffers'[r].nextPending \in 0 .. MaxSpawns
      BY <1>3, <1>6, <1>9, <1>1
    <3> QED  BY <3>1, <3>2
  <2>2. handed' \subseteq {q \in Tick!Target : q.buffer # 0}
    BY <1>3, <1>4, <1>5 DEF Tick!TypeOK
  <2>3. Len(meant'.of) <= MaxSpawns
    BY <1>3, <1>8
  <2>4. UNCHANGED <<running, ended, inTick, ticks, barriers, scene, kept>>
    BY <1>5
  <2>5. meant' \in [scene : Tick!Scene, of : Seq(Nat)]
    BY <1>5, <1>8
  <2> QED  BY <1>3, <1>6, <2>1, <2>2, <2>3, <2>4, <2>5 DEF Tick!TypeOK
<1>12. Tick!TurnsInOrder' /\ Tick!RecordedInTurn' /\ Tick!NothingOutlivesTick'
  <2>1. Tick!TurnsInOrder'
    BY <1>5 DEF Tick!TickSound, Tick!TurnsInOrder
  <2>2. Tick!RecordedInTurn /\ r \in Int /\ running # 0
    BY <1>1, <1>3, TickSizes DEF Tick!TickSound
  <2>3. Tick!RecordedInTurn'
    BY <1>1, <1>3, <1>5, <1>6, <2>2, RecordedAtTurn
  <2>4. Tick!NothingOutlivesTick'
    BY <1>3, <1>5 DEF Tick!NothingOutlivesTick
  <2> QED  BY <2>1, <2>3, <2>4
<1>13. Tick!BuffersMean'
  BY <1>6, <1>7, <1>8 DEF Tick!BuffersMean
<1>14. Tick!PendingSpawned' /\ Tick!PendingMeant'
  <2>1. ASSUME NEW s \in Tick!Turn
        PROVE  /\ buffers'[s].nextPending = Len(Tick!Outcome(s)'.resolved)
               /\ buffers'[s].nextPending <= Len(meant'.of)
    <3>1. CASE s = r
      BY <1>3, <1>6, <1>7, <1>8, <1>9, <1>10, <3>1
    <3>2. CASE s # r
      <4>1. /\ buffers'[s] = buffers[s]
            /\ Len(Tick!Outcome(s)'.resolved) = Len(Tick!Outcome(s).resolved)
        BY <1>6, <3>2
      <4> QED  BY <1>3, <1>8, <1>9, <4>1
    <3> QED  BY <3>1, <3>2
  <2>2. ASSUME NEW q \in handed
        PROVE  /\ q.spawn \in DOMAIN meant'.of
               /\ q.epoch <= buffers'[q.buffer].epoch
               /\ q.epoch = buffers'[q.buffer].epoch =>
                     /\ q.index < buffers'[q.buffer].nextPending
                     /\ ~Tick!Torn => Tick!Outcome(q.buffer)'.resolved[q.index + 1] = meant'.of[q.spawn]
    <3>1. q.buffer \in Tick!Turn /\ q.index \in Nat
      BY <1>3, TickSizes DEF Tick!TypeOK, Tick!Target, Tick!Turn
    <3>2. /\ q.spawn \in 1 .. n /\ q.epoch <= buffers[q.buffer].epoch
          /\ q.epoch = buffers[q.buffer].epoch =>
                /\ q.index < buffers[q.buffer].nextPending
                /\ ~Tick!Torn => Tick!Outcome(q.buffer).resolved[q.index + 1] = meant.of[q.spawn]
      BY <1>3 DEF Tick!TickSound, Tick!PendingSpawned, Tick!PendingMeant
    <3>3. q.spawn \in DOMAIN meant'.of /\ meant'.of[q.spawn] = meant.of[q.spawn]
      BY <1>3, <1>8, <3>2
    <3>4. CASE q.buffer # r
      <4>1. /\ buffers'[q.buffer] = buffers[q.buffer]
            /\ ~Tick!Torn => Tick!Outcome(q.buffer)'.resolved = Tick!Outcome(q.buffer).resolved
        BY <1>6, <3>1, <3>4
      <4> QED  BY <3>2, <3>3, <4>1
    <3>5. CASE q.buffer = r
      <4>1. q.epoch <= buffers'[r].epoch
        BY <1>6, <3>2, <3>5
      <4>2. ASSUME q.epoch = buffers'[r].epoch
            PROVE  /\ q.index < buffers'[r].nextPending
                   /\ ~Tick!Torn => Append(Res, next)[q.index + 1] = meant.of[q.spawn]
        <5>1. /\ q.index < buffers[r].nextPending
              /\ ~Tick!Torn => Res[q.index + 1] = meant.of[q.spawn]
          BY <1>6, <3>2, <3>5, <4>2 DEF Res
        <5>2. q.index + 1 \in 1 .. buffers[r].nextPending
          BY <1>3, <3>1, <5>1
        <5> QED  BY <1>3, <1>6, <1>10, <3>1, <5>1, <5>2
      <4> QED  BY <1>7, <3>3, <3>5, <4>1, <4>2
    <3> QED  BY <3>4, <3>5
  <2>3. /\ p.spawn \in DOMAIN meant'.of
        /\ p.epoch <= buffers'[p.buffer].epoch
        /\ p.index < buffers'[p.buffer].nextPending
        /\ ~Tick!Torn => Tick!Outcome(p.buffer)'.resolved[p.index + 1] = meant'.of[p.spawn]
    <3>1. p.spawn \in DOMAIN meant'.of /\ meant'.of[p.spawn] = meant.scene.next
      BY <1>3, <1>4, <1>8
    <3>2. p.epoch <= buffers'[r].epoch /\ p.index < buffers'[r].nextPending
      BY <1>3, <1>4, <1>6
    <3>3. Tick!Outcome(r)'.resolved[p.index + 1] = next
      BY <1>4, <1>7, <1>10
    <3> QED  BY <1>4, <1>7, <3>1, <3>2, <3>3
  <2>4. handed' = handed \cup {p}
    BY <1>5
  <2>5. Tick!PendingSpawned'
    BY <2>1, <2>2, <2>3, <2>4 DEF Tick!PendingSpawned
  <2>6. Tick!PendingMeant'
    BY <1>6, <2>2, <2>3, <2>4 DEF Tick!PendingMeant
  <2> QED  BY <2>5, <2>6
<1>15. Tick!PendingResolvable'
  BY <1>6 DEF Tick!PendingResolvable
<1> QED  BY <1>11, <1>12, <1>13, <1>14, <1>15 DEF Tick!TickSound

(***************************************************************************)
(* A system records another command: its buffer accepts a pending entity   *)
(* only for the entity meant, which an earlier command of it makes.        *)
(***************************************************************************)
LEMMA QueueSound ==
  ASSUME Tick!TickSound, NEW kind \in Tick!Kinds, NEW target \in Tick!Targets,
         Tick!Queue(kind, target)
  PROVE  Tick!TickSound'
<1>1. PICK r \in Tick!Turn : r = running
  BY DEF Tick!Queue, Tick!TickSound, Tick!TypeOK
<1> DEFINE Res == Tick!Outcome(r).resolved
<1>2. /\ Tick!TypeOK /\ inTick /\ r \in 1 .. Systems
      /\ meant \in [scene : Tick!Scene, of : Seq(Nat)]
      /\ kind \in Tick!Kinds \cup {"spawn"} /\ kind # "spawn"
  BY <1>1, TickSizes DEF Tick!TickSound, Tick!TypeOK, Tick!TurnsInOrder, Tick!Queue,
       Tick!Turn, Tick!Kinds
<1>3. target \in Tick!Target /\ (target.buffer # 0 => target \in handed)
  <2>1. CASE target \in handed
    BY <1>2, <2>1 DEF Tick!TypeOK
  <2>2. CASE target \in {Tick!Direct(e) : e \in 1 .. scene.next - 1}
    <3>1. PICK e \in 1 .. scene.next - 1 : target = Tick!Direct(e)
      BY <2>2
    <3>2. e \in Nat /\ 0 \in 0 .. Systems /\ 0 \in Nat
      BY <1>2, <3>1, TickSizes DEF Tick!TypeOK, Tick!Scene
    <3> QED  BY <3>1, <3>2 DEF Tick!Direct, Tick!Target
  <2> QED  BY <2>1, <2>2 DEF Tick!Targets
<1>4. PICK e : e = IF target.buffer = 0 THEN target.entity ELSE meant.of[target.spawn]
  OBVIOUS
<1>5. /\ Tick!Accepted(r, target) /\ Tick!Record(kind, target)
      /\ meant' = [meant EXCEPT !.scene = Tick!Effect(meant.scene, kind, e)]
      /\ UNCHANGED <<running, ended, inTick, ticks, barriers, handed, scene, kept>>
  BY <1>1, <1>4 DEF Tick!Queue, Tick!execution
<1>6. target.buffer # 0 =>
        target.index < Len(Res) /\ (~Tick!Torn => e = Res[target.index + 1])
  <2>1. ASSUME target.buffer # 0
        PROVE  target.index < Len(Res) /\ (~Tick!Torn => e = Res[target.index + 1])
    <3>1. target.buffer = r /\ target.epoch = buffers[r].epoch /\ target \in handed
      BY <1>3, <1>5, <2>1 DEF Tick!Accepted
    <3>2. /\ target.index < buffers[r].nextPending
          /\ ~Tick!Torn => Res[target.index + 1] = meant.of[target.spawn]
          /\ buffers[r].nextPending = Len(Res)
      BY <1>1, <3>1 DEF Tick!TickSound, Tick!PendingSpawned, Tick!PendingMeant
    <3> QED  BY <1>4, <2>1, <3>2
  <2> QED  BY <2>1
<1> HIDE DEF Res
<1>7. /\ buffers' \in [Tick!Turn -> Tick!Buffer]
      /\ \A s \in Tick!Turn : s # r => buffers'[s] = buffers[s]
      /\ buffers'[r].epoch = buffers[r].epoch
      /\ buffers'[r].nextPending = buffers[r].nextPending
      /\ Len(buffers'[r].commands) = Len(buffers[r].commands) + 1
      /\ Tick!Outcome(r) \in Done
      /\ Tick!Outcome(r)' = Tick!Step(Tick!Outcome(r), [kind |-> kind, target |-> target])
      /\ \A s \in Tick!Turn : s # r =>
           Len(Tick!Outcome(s)'.resolved) = Len(Tick!Outcome(s).resolved)
      /\ ~Tick!Torn =>
           /\ \A s \in Tick!Turn : s # r => Tick!Outcome(s)'.resolved = Tick!Outcome(s).resolved
           /\ meant.scene = Tick!Outcome(r).scene
           /\ Tick!SceneAfter'[Systems] = Tick!Outcome(r)'.scene
      /\ Tick!Torn' = Tick!Torn
      /\ \A s \in Tick!Turn : Tick!Resolvable(s)'
  <2>1. UNCHANGED <<scene, kept>> /\ Tick!Torn' = Tick!Torn
    BY <1>5 DEF Tick!Torn
  <2>2. Tick!Record(kind, target)
    BY <1>5
  <2>3. target.buffer = 0 \/ (Tick!Accepted(r, target) /\ target.index < Len(Tick!Outcome(r).resolved))
    BY <1>5, <1>6 DEF Res
  <2> QED  BY <1>1, <1>2, <1>3, <2>1, <2>2, <2>3, CommandRecorded
<1>8. PICK d : /\ Tick!Outcome(r)' = [Tick!Outcome(r) EXCEPT !.scene = Tick!Effect(Tick!Outcome(r).scene, kind, d)]
               /\ d = IF target.buffer = 0 THEN target.entity
                      ELSE Tick!Outcome(r).resolved[target.index + 1]
  BY <1>2, <1>7 DEF Tick!Step
<1>9. /\ \A s \in Tick!Turn : Len(Tick!Outcome(s)'.resolved) = Len(Tick!Outcome(s).resolved)
      /\ ~Tick!Torn =>
           /\ Tick!Outcome(r)'.scene = Tick!Effect(meant.scene, kind, e)
           /\ \A s \in Tick!Turn : Tick!Outcome(s)'.resolved = Tick!Outcome(s).resolved
  <2>1. /\ Tick!Outcome(r)'.resolved = Tick!Outcome(r).resolved
        /\ Tick!Outcome(r)'.scene = Tick!Effect(Tick!Outcome(r).scene, kind, d)
    BY <1>7, <1>8 DEF Done
  <2>2. ~Tick!Torn => d = e
    BY <1>4, <1>6, <1>8 DEF Res
  <2> QED  BY <1>7, <2>1, <2>2
<1>10. /\ meant'.scene = Tick!Effect(meant.scene, kind, e) /\ meant'.of = meant.of
       /\ meant' \in [scene : Tick!Scene, of : Seq(Nat)]
  <2>1. Tick!Effect(meant.scene, kind, e) \in Tick!Scene
    BY <1>2, EffectScene
  <2> QED  BY <1>2, <1>5, <2>1
<1>11. \A s \in Tick!Turn : /\ buffers'[s].nextPending = buffers[s].nextPending
                            /\ buffers'[s].epoch = buffers[s].epoch
  BY <1>7
<1>12. Tick!TypeOK'
  BY <1>2, <1>5, <1>7, <1>10, <1>11 DEF Tick!TypeOK
<1>13. Tick!TurnsInOrder' /\ Tick!RecordedInTurn' /\ Tick!NothingOutlivesTick'
  <2>1. Tick!TurnsInOrder'
    BY <1>5 DEF Tick!TickSound, Tick!TurnsInOrder
  <2>2. Tick!RecordedInTurn /\ r \in Int /\ running # 0
    BY <1>1, <1>2, TickSizes DEF Tick!TickSound
  <2>3. Tick!RecordedInTurn'
    BY <1>1, <1>2, <1>5, <1>7, <2>2, RecordedAtTurn
  <2>4. Tick!NothingOutlivesTick'
    BY <1>2, <1>5 DEF Tick!NothingOutlivesTick
  <2> QED  BY <2>1, <2>3, <2>4
<1>14. Tick!BuffersMean'
  BY <1>7, <1>9, <1>10 DEF Tick!BuffersMean
<1>15. Tick!PendingSpawned' /\ Tick!PendingMeant'
  <2>1. \A p \in handed : p.buffer \in Tick!Turn
    BY <1>2, TickSizes DEF Tick!TypeOK, Tick!Target, Tick!Turn
  <2>2. Tick!PendingSpawned /\ Tick!PendingMeant
    BY DEF Tick!TickSound
  <2>3. \A p \in handed :
           /\ buffers'[p.buffer].nextPending = buffers[p.buffer].nextPending
           /\ buffers'[p.buffer].epoch = buffers[p.buffer].epoch
           /\ ~Tick!Torn => Tick!Outcome(p.buffer)'.resolved = Tick!Outcome(p.buffer).resolved
    BY <1>9, <1>11, <2>1
  <2>4. handed' = handed
    BY <1>5
  <2>5. Tick!PendingSpawned'
    BY <1>9, <1>10, <1>11, <2>2, <2>3, <2>4 DEF Tick!PendingSpawned
  <2>6. Tick!PendingMeant'
    BY <1>7, <1>10, <2>2, <2>3, <2>4 DEF Tick!PendingMeant
  <2> QED  BY <2>5, <2>6
<1>16. Tick!PendingResolvable'
  BY <1>7 DEF Tick!PendingResolvable
<1> QED  BY <1>12, <1>13, <1>14, <1>15, <1>16 DEF Tick!TickSound

(***************************************************************************)
(* The tick ends, and some buffers start anew: no pending entity of theirs *)
(* is of the next execution.  The others, which a barrier that threw had   *)
(* not finished with, stand.                                               *)
(***************************************************************************)
LEMMA TickEnds ==
  ASSUME Tick!TickSound, NEW D \in SUBSET Tick!Turn,
         buffers' = [s \in Tick!Turn |-> IF s \in D THEN Tick!Discarded(buffers[s]) ELSE buffers[s]],
         kept' = [s \in Tick!Turn |-> Len(buffers'[s].commands)],
         UNCHANGED <<handed, ended, ticks>>,
         inTick, inTick' = FALSE, running' = 0,
         barriers' \in barriers .. barriers + 1,
         meant' \in [scene : Tick!Scene, of : Seq(Nat)], meant'.of = meant.of,
         scene' \in Tick!Scene,
         IF D = Tick!Turn THEN scene' = meant'.scene ELSE Tick!Torn'
  PROVE  Tick!TickSound'
<1>1. Tick!TypeOK /\ Tick!TurnsInOrder /\ Tick!PendingSpawned /\ Tick!PendingResolvable
  BY DEF Tick!TickSound
<1>2. ASSUME NEW s \in D
      PROVE  /\ s \in Tick!Turn /\ buffers[s].epoch \in Nat /\ buffers'[s] \in Tick!Buffer
             /\ buffers'[s].epoch = buffers[s].epoch + 1
             /\ buffers'[s].nextPending = 0 /\ buffers'[s].commands = <<>>
  <2>1. PICK n : n = buffers[s].epoch + 1
    OBVIOUS
  <2>2. buffers[s].epoch \in Nat /\ n \in Nat /\ s \in Tick!Turn
    BY <1>1, <2>1, TickTypes DEF Tick!Buffer
  <2>3. buffers'[s] = [epoch |-> n, nextPending |-> 0, commands |-> <<>>]
    BY <2>1, <2>2 DEF Tick!Discarded, Tick!NextEpoch, Tick!FirstPending
  <2>4. PICK none \in Seq(Tick!Command) : none = <<>>
    BY EmptySeq
  <2>5. PICK v : v = [epoch |-> n, nextPending |-> 0, commands |-> none]
    OBVIOUS
  <2>6. v \in Tick!Buffer /\ v.epoch = n /\ v.nextPending = 0 /\ v.commands = none
    BY <2>2, <2>4, <2>5 DEF Tick!Buffer
  <2>7. buffers'[s] = v
    BY <2>3, <2>4, <2>5
  <2> QED  BY <2>1, <2>2, <2>4, <2>6, <2>7
<1>3. ASSUME NEW s \in Tick!Turn, s \notin D
      PROVE  /\ buffers'[s] = buffers[s] /\ buffers'[s] \in Tick!Buffer
             /\ buffers'[s].nextPending \in 0 .. MaxSpawns
  <2>1. buffers'[s] = buffers[s]
    BY <1>3
  <2> QED  BY <1>1, <2>1 DEF Tick!TypeOK
<1>4. Systems \in Nat /\ MaxSpawns \in Nat /\ MaxTicks \in Nat
  BY TickSizes
<1>5. /\ buffers' \in [Tick!Turn -> Tick!Buffer]
      /\ \A s \in Tick!Turn : buffers'[s].nextPending \in 0 .. MaxSpawns
  <2>1. buffers' = [s \in Tick!Turn |-> buffers'[s]]
    OBVIOUS
  <2>2. ASSUME NEW s \in Tick!Turn
        PROVE  buffers'[s] \in Tick!Buffer /\ buffers'[s].nextPending \in 0 .. MaxSpawns
    <3>1. CASE s \in D
      <4>1. buffers'[s] \in Tick!Buffer /\ buffers'[s].nextPending = 0
        BY <1>2, <3>1
      <4> QED  BY <1>4, <4>1
    <3>2. CASE s \notin D
      BY <1>3, <3>2
    <3> QED  BY <3>1, <3>2
  <2>3. \A s \in Tick!Turn : buffers'[s] \in Tick!Buffer
    BY <2>2
  <2>4. buffers' \in [Tick!Turn -> Tick!Buffer]
    BY <2>1, <2>3
  <2> QED  BY <2>2, <2>4
<1>6. Tick!TypeOK' /\ Tick!TurnsInOrder'
  <2>1. {ticks, barriers} \subseteq 0 .. MaxTicks /\ barriers + 1 <= ticks
    BY <1>1, <1>4 DEF Tick!TypeOK, Tick!TurnsInOrder
  <2>2. {ticks', barriers'} \subseteq 0 .. MaxTicks /\ barriers' <= ticks'
    BY <1>4, <2>1
  <2>3. kept' \in [Tick!Turn -> Nat]
    <3>1. \A b \in Tick!Buffer : Len(b.commands) \in Nat
      BY LenProperties DEF Tick!Buffer
    <3>2. \A s \in Tick!Turn : Len(buffers'[s].commands) \in Nat
      BY <1>5, <3>1
    <3> QED  BY <3>2
  <2>4. running' \in Tick!Turn \cup {0} /\ ended' \in 0 .. Systems /\ inTick' \in BOOLEAN
    BY <1>1 DEF Tick!TypeOK
  <2>5. handed' \subseteq {p \in Tick!Target : p.buffer # 0} /\ Len(meant'.of) <= MaxSpawns
    BY <1>1 DEF Tick!TypeOK
  <2>6. Tick!TypeOK'
    BY <1>5, <2>2, <2>3, <2>4, <2>5 DEF Tick!TypeOK
  <2>7. Tick!TurnsInOrder'
    BY <1>4, <2>2 DEF Tick!TurnsInOrder
  <2> QED  BY <2>6, <2>7
<1>7. Tick!RecordedInTurn' /\ Tick!NothingOutlivesTick'
  <2>1. \A s \in Tick!Turn : kept'[s] = Len(buffers'[s].commands) /\ kept'[s] \in Nat
    BY <1>6, CommandCounts
  <2> QED  BY <2>1 DEF Tick!RecordedInTurn, Tick!NothingOutlivesTick
<1>8. ASSUME NEW s \in Tick!Turn
      PROVE  Tick!Resolvable(s)' /\ Len(Tick!Outcome(s)'.resolved) = buffers'[s].nextPending
  <2>1. CASE s \in D
    <3>1. Tick!ScenesAfter(scene', buffers') \in [0 .. Systems -> Tick!Scene] /\ s - 1 \in 0 .. Systems
      BY <1>1, <1>5, ScenesAfterFacts, TickTypes
    <3>2. Tick!SceneAfter'[s - 1] \in Tick!Scene
      BY <3>1 DEF Tick!SceneAfter
    <3>3. Tick!Outcome(s)' = Start(Tick!SceneAfter'[s - 1])
      BY <1>2, <2>1, <3>2, AppliedNone DEF Tick!Outcome
    <3>4. Len(Tick!Outcome(s)'.resolved) = 0
      BY <3>3, EmptySeq DEF Start
    <3>5. buffers'[s].commands = <<>> /\ buffers'[s].nextPending = 0
      BY <1>2, <2>1
    <3>6. \A cs : cs = <<>> => DOMAIN cs = {}
      OBVIOUS
    <3>7. DOMAIN buffers'[s].commands = {}
      BY <3>5, <3>6, Zenon
    <3>8. Tick!Resolvable(s)'
      BY <3>7, Zenon DEF Tick!Resolvable
    <3> QED  BY <3>4, <3>5, <3>8
  <2>2. CASE s \notin D
    <3>1. Tick!Resolvable(s) /\ Len(Tick!Outcome(s).resolved) = buffers[s].nextPending
      BY <1>1 DEF Tick!PendingResolvable, Tick!PendingSpawned
    <3> QED  BY <1>1, <1>3, <1>5, <2>2, <3>1, BufferStands
  <2> QED  BY <2>1, <2>2
<1>9. Tick!PendingResolvable'
  BY <1>8 DEF Tick!PendingResolvable
<1>10. Tick!BuffersMean'
  <2>1. CASE D # Tick!Turn
    BY <2>1 DEF Tick!BuffersMean
  <2>2. CASE D = Tick!Turn
    <3>1. \A n \in 0 + 1 .. Systems : buffers'[n].commands = <<>>
      BY <1>2, <1>4, <2>2 DEF Tick!Turn
    <3>2. 0 \in 0 .. Systems /\ Systems \in 0 .. Systems
      BY <1>4
    <3>3. ASSUME NEW sc \in Tick!Scene, NEW bs \in [Tick!Turn -> Tick!Buffer],
                 \A n \in 0 + 1 .. Systems : bs[n].commands = <<>>
          PROVE  Tick!ScenesAfter(sc, bs)[Systems] = sc
      <4>1. Tick!ScenesAfter(sc, bs)[Systems] = Tick!ScenesAfter(sc, bs)[0]
        BY <3>2, <3>3, ScenesEmpty
      <4>2. Tick!ScenesAfter(sc, bs)[0] = sc
        BY ScenesAfterFacts
      <4> QED  BY <4>1, <4>2
    <3>5. Tick!ScenesAfter(scene', buffers')[Systems] = scene'
      BY <1>5, <3>1, <3>3
    <3>4. meant'.scene = scene'
      BY <2>2
    <3> QED  BY <3>4, <3>5 DEF Tick!BuffersMean, Tick!SceneAfter
  <2> QED  BY <2>1, <2>2
<1>11. Tick!PendingSpawned' /\ Tick!PendingMeant'
  <2>1. Len(meant'.of) \in Nat
    BY LenProperties
  <2>2. ASSUME NEW p \in handed
        PROVE  /\ p.spawn \in DOMAIN meant'.of
               /\ p.epoch <= buffers'[p.buffer].epoch
               /\ p.epoch = buffers'[p.buffer].epoch =>
                     p.buffer \notin D /\ p.index < buffers'[p.buffer].nextPending
    <3>1. p.buffer \in Tick!Turn /\ p.epoch \in Nat
      BY <1>1, <1>4 DEF Tick!TypeOK, Tick!Target, Tick!Turn
    <3>2. /\ p.spawn \in DOMAIN meant.of /\ p.epoch <= buffers[p.buffer].epoch
          /\ p.epoch = buffers[p.buffer].epoch => p.index < buffers[p.buffer].nextPending
      BY <1>1 DEF Tick!PendingSpawned
    <3>3. CASE p.buffer \in D
      <4>1. buffers'[p.buffer].epoch = buffers[p.buffer].epoch + 1 /\ buffers[p.buffer].epoch \in Nat
        BY <1>2, <3>3
      <4> QED  BY <3>1, <3>2, <4>1
    <3>4. CASE p.buffer \notin D
      BY <1>3, <3>1, <3>2, <3>4
    <3> QED  BY <3>3, <3>4
  <2>3. ASSUME NEW s \in Tick!Turn
        PROVE  buffers'[s].nextPending <= Len(meant'.of)
    <3>1. CASE s \in D
      <4>1. buffers'[s].nextPending = 0
        BY <1>2, <3>1
      <4> QED  BY <2>1, <4>1
    <3>2. CASE s \notin D
      <4>1. buffers'[s] = buffers[s]
        BY <1>3, <3>2
      <4>2. buffers[s].nextPending <= Len(meant.of)
        BY <1>1 DEF Tick!PendingSpawned
      <4> QED  BY <4>1, <4>2
    <3> QED  BY <3>1, <3>2
  <2>4. Tick!PendingSpawned'
    BY <1>8, <2>2, <2>3 DEF Tick!PendingSpawned
  <2>5. ASSUME ~Tick!Torn', NEW p \in handed
        PROVE  p.epoch # buffers'[p.buffer].epoch
    <3>1. p.buffer \in Tick!Turn
      BY <1>1, <1>4 DEF Tick!TypeOK, Tick!Target, Tick!Turn
    <3> QED  BY <2>2, <2>5, <3>1
  <2>6. Tick!PendingMeant'
    BY <2>5 DEF Tick!PendingMeant
  <2> QED  BY <2>4, <2>6
<1> QED  BY <1>6, <1>7, <1>9, <1>10, <1>11 DEF Tick!TickSound

\* Nothing is recorded before the first tick.
LEMMA TickStart == Tick!Init => Tick!TickSound
<1> SUFFICES ASSUME Tick!Init PROVE Tick!TickSound
  OBVIOUS
<1>1. /\ running = 0 /\ ended = 0 /\ inTick = FALSE /\ ticks = 0 /\ barriers = 0
      /\ handed = {} /\ kept = [s \in Tick!Turn |-> 0]
      /\ scene = [live |-> {}, with |-> {}, next |-> 1]
      /\ meant = [scene |-> scene, of |-> <<>>]
      /\ buffers = [s \in Tick!Turn |-> [epoch |-> 1, nextPending |-> 0, commands |-> <<>>]]
  BY DEF Tick!Init, Tick!EmptyScene, Tick!EmptyBuffer, Tick!NoneKept
<1>2. Systems \in Nat /\ MaxSpawns \in Nat /\ MaxTicks \in Nat
  BY TickSizes
<1>3. scene \in Tick!Scene /\ meant.scene = scene /\ meant.of = <<>>
  BY <1>1 DEF Tick!Scene
<1>4. meant \in [scene : Tick!Scene, of : Seq(Nat)] /\ Len(meant.of) = 0
  BY <1>1, <1>3, EmptySeq
<1>5. /\ buffers \in [Tick!Turn -> Tick!Buffer]
      /\ \A s \in Tick!Turn : buffers[s].commands = <<>> /\ buffers[s].nextPending = 0
  <2>1. PICK none \in Seq(Tick!Command) : none = <<>>
    BY EmptySeq
  <2>2. PICK v : v = [epoch |-> 1, nextPending |-> 0, commands |-> none]
    OBVIOUS
  <2>3. v \in Tick!Buffer /\ v.commands = none /\ v.nextPending = 0
    BY <2>2 DEF Tick!Buffer
  <2>4. buffers = [s \in Tick!Turn |-> v]
    BY <1>1, <2>1, <2>2
  <2> QED  BY <2>1, <2>3, <2>4
<1>6. Tick!TypeOK
  <2>1. {ticks, barriers} \subseteq 0 .. MaxTicks /\ ended \in 0 .. Systems
    BY <1>1, <1>2
  <2>2. \A s \in Tick!Turn : buffers[s].nextPending \in 0 .. MaxSpawns
    BY <1>2, <1>5
  <2>3. running \in Tick!Turn \cup {0} /\ inTick \in BOOLEAN
    BY <1>1
  <2>4. handed \subseteq {p \in Tick!Target : p.buffer # 0} /\ Len(meant.of) <= MaxSpawns
    <3>1. Len(meant.of) <= MaxSpawns
      BY <1>2, <1>4
    <3> QED  BY <1>1, <3>1
  <2>5. kept \in [Tick!Turn -> Nat]
    BY <1>1
  <2> QED  BY <1>3, <1>4, <1>5, <2>1, <2>2, <2>3, <2>4, <2>5 DEF Tick!TypeOK
<1>7. Tick!TurnsInOrder /\ Tick!RecordedInTurn /\ Tick!NothingOutlivesTick /\ Tick!PendingResolvable
  BY <1>1, <1>5, EmptySeq DEF Tick!TurnsInOrder, Tick!RecordedInTurn, Tick!NothingOutlivesTick,
                    Tick!PendingResolvable, Tick!Resolvable
<1>8. Tick!BuffersMean
  <2>1. \A n \in 0 + 1 .. Systems : buffers[n].commands = <<>>
    BY <1>2, <1>5 DEF Tick!Turn
  <2>2. 0 \in 0 .. Systems /\ Systems \in 0 .. Systems
    BY <1>2
  <2>3. /\ Tick!ScenesAfter(scene, buffers)[Systems] = Tick!ScenesAfter(scene, buffers)[0]
        /\ Tick!ScenesAfter(scene, buffers)[0] = scene
    BY <1>3, <1>5, <2>1, <2>2, ScenesEmpty, ScenesAfterFacts
  <2> QED  BY <1>3, <2>3 DEF Tick!BuffersMean, Tick!SceneAfter
<1>9. Tick!PendingSpawned /\ Tick!PendingMeant
  <2>1. \A s \in Tick!Turn : Len(Tick!Outcome(s).resolved) = 0
    BY <1>5, <1>6, AppliedNone, TickTypes, EmptySeq DEF Tick!Outcome, Start
  <2> QED  BY <1>1, <1>4, <1>5, <2>1 DEF Tick!PendingSpawned, Tick!PendingMeant
<1> QED  BY <1>6, <1>7, <1>8, <1>9 DEF Tick!TickSound

\* The actions that record nothing.
LEMMA QuietTick ==
  ASSUME Tick!TickSound, Tick!BeginTick \/ Tick!BeginSystem \/ Tick!EndSystem \/ Tick!Publish
  PROVE  Tick!TickSound'
<1>1. /\ Tick!TypeOK /\ Tick!TurnsInOrder /\ Tick!RecordedInTurn /\ Tick!NothingOutlivesTick
      /\ running \in 0 .. Systems /\ ended \in 0 .. Systems
      /\ ticks \in 0 .. MaxTicks /\ barriers \in 0 .. MaxTicks
      /\ MaxTicks \in Nat /\ Systems \in Nat
      /\ \A s \in Tick!Turn : s \in Nat
      /\ \A s \in Tick!Turn : kept[s] \in Nat /\ Len(buffers[s].commands) \in Nat
  <2>1. /\ Tick!TypeOK /\ Tick!TurnsInOrder /\ Tick!RecordedInTurn /\ Tick!NothingOutlivesTick
        /\ MaxTicks \in Nat /\ Systems \in Nat
    BY TickSizes DEF Tick!TickSound
  <2>2. /\ running \in 0 .. Systems /\ ended \in 0 .. Systems
        /\ ticks \in 0 .. MaxTicks /\ barriers \in 0 .. MaxTicks
        /\ \A s \in Tick!Turn : s \in Nat
    BY <2>1 DEF Tick!TypeOK, Tick!Turn
  <2>3. \A s \in Tick!Turn : kept[s] \in Nat /\ Len(buffers[s].commands) \in Nat
    BY <2>1, CommandCounts
  <2> QED  BY <2>1, <2>2, <2>3
<1>2. UNCHANGED <<buffers, kept, handed, meant, scene, barriers>>
  BY DEF Tick!BeginTick, Tick!BeginSystem, Tick!EndSystem, Tick!Publish, Tick!commands,
       Tick!execution
<1>3. Tick!TypeOK' /\ Tick!TurnsInOrder' /\ Tick!RecordedInTurn'
  <2>1. CASE Tick!BeginTick
    <3>1. /\ inTick' = TRUE /\ ~inTick /\ ticks' = ticks + 1 /\ ticks < MaxTicks
          /\ ended' = 0 /\ running' = running /\ running = 0
      BY <1>1, <2>1 DEF Tick!BeginTick, Tick!TurnsInOrder
    <3>2. {ticks', barriers'} \subseteq 0 .. MaxTicks /\ ended' \in 0 .. Systems
      BY <1>1, <1>2, <3>1
    <3>3. Tick!TypeOK'
      BY <1>1, <1>2, <3>1, <3>2 DEF Tick!TypeOK
    <3>4. Tick!TurnsInOrder'
      BY <1>1, <1>2, <3>1 DEF Tick!TurnsInOrder
    <3>5. Tick!RecordedInTurn'
      BY <1>1, <1>2, <3>1 DEF Tick!RecordedInTurn, Tick!NothingOutlivesTick
    <3> QED  BY <3>3, <3>4, <3>5
  <2>2. CASE Tick!BeginSystem
    <3>1. /\ inTick /\ inTick' = inTick /\ running = 0 /\ ended < Systems /\ running' = ended + 1
          /\ ended' = ended /\ ticks' = ticks
      BY <2>2 DEF Tick!BeginSystem
    <3>2. running' \in Tick!Turn /\ running' # 0
      BY <1>1, <3>1 DEF Tick!Turn
    <3>3. Tick!TypeOK'
      BY <1>1, <1>2, <3>1, <3>2 DEF Tick!TypeOK
    <3>4. Tick!TurnsInOrder'
      BY <1>1, <1>2, <3>1 DEF Tick!TurnsInOrder
    <3>5. Tick!RecordedInTurn'
      <4>1. \A s \in Tick!Turn : s <= ended => s <= running'
        BY <1>1, <3>1
      <4>2. \A s \in Tick!Turn : /\ kept[s] <= Len(buffers[s].commands)
                                 /\ kept[s] < Len(buffers[s].commands) => s <= ended
        BY <1>1, <3>1 DEF Tick!RecordedInTurn
      <4>3. kept' = kept /\ buffers' = buffers /\ inTick'
        BY <1>2, <3>1
      <4>4. (IF running' = 0 THEN ended' ELSE running') = running'
        BY <3>2
      <4> QED  BY <4>1, <4>2, <4>3, <4>4 DEF Tick!RecordedInTurn
    <3> QED  BY <3>3, <3>4, <3>5
  <2>3. CASE Tick!EndSystem
    <3>1. /\ running # 0 /\ ended' = running /\ running' = 0 /\ inTick' = inTick /\ ticks' = ticks
          /\ inTick
      BY <1>1, <2>3 DEF Tick!EndSystem, Tick!TurnsInOrder
    <3>3. Tick!TypeOK'
      BY <1>1, <1>2, <3>1 DEF Tick!TypeOK
    <3>4. Tick!TurnsInOrder'
      BY <1>1, <1>2, <3>1 DEF Tick!TurnsInOrder
    <3>5. Tick!RecordedInTurn'
      BY <1>1, <1>2, <3>1 DEF Tick!RecordedInTurn
    <3> QED  BY <3>3, <3>4, <3>5
  <2>4. CASE Tick!Publish
    <3>1. UNCHANGED <<running, ended, inTick, ticks>>
      BY <2>4 DEF Tick!Publish, Tick!execution
    <3>3. Tick!TypeOK'
      BY <1>1, <1>2, <3>1 DEF Tick!TypeOK
    <3>4. Tick!TurnsInOrder'
      BY <1>1, <1>2, <3>1 DEF Tick!TurnsInOrder
    <3>5. Tick!RecordedInTurn'
      BY <1>1, <1>2, <3>1 DEF Tick!RecordedInTurn
    <3> QED  BY <3>3, <3>4, <3>5
  <2> QED  BY <2>1, <2>2, <2>3, <2>4
<1> QED  BY <1>2, <1>3, BuffersKept

\* Every buffer is discarded.
LEMMA AllDiscarded ==
  ASSUME Tick!TickSound, inTick, inTick' = FALSE, running' = 0,
         buffers' = [s \in Tick!Turn |-> Tick!Discarded(buffers[s])],
         kept' = Tick!NoneKept, UNCHANGED <<handed, ended, ticks>>,
         barriers' \in barriers .. barriers + 1,
         meant' \in [scene : Tick!Scene, of : Seq(Nat)], meant'.of = meant.of,
         scene' = meant'.scene
  PROVE  Tick!TickSound'
<1>1. buffers' = [s \in Tick!Turn |-> IF s \in Tick!Turn THEN Tick!Discarded(buffers[s]) ELSE buffers[s]]
  OBVIOUS
<1>2. \A s \in Tick!Turn : Len(buffers'[s].commands) = 0
  BY EmptySeq DEF Tick!Discarded
<1>3. kept' = [s \in Tick!Turn |-> Len(buffers'[s].commands)]
  BY <1>2 DEF Tick!NoneKept
<1>4. Tick!Turn \in SUBSET Tick!Turn /\ scene' \in Tick!Scene
  OBVIOUS
<1> QED  BY <1>1, <1>3, <1>4, TickEnds

\* A system throws: the scene meant is the scene again.
LEMMA ThrowSound ==
  ASSUME Tick!TickSound, Tick!Throw
  PROVE  Tick!TickSound'
<1>1. /\ inTick /\ barriers \in Nat /\ scene \in Tick!Scene
      /\ meant \in [scene : Tick!Scene, of : Seq(Nat)]
  BY TickSizes DEF Tick!TickSound, Tick!TypeOK, Tick!TurnsInOrder, Tick!Throw
<1>2. /\ inTick' = FALSE /\ running' = 0
      /\ buffers' = [s \in Tick!Turn |-> Tick!Discarded(buffers[s])]
      /\ kept' = Tick!NoneKept
      /\ meant' = [meant EXCEPT !.scene = scene]
      /\ UNCHANGED <<handed, ended, ticks, barriers, scene>>
  BY DEF Tick!Throw, Tick!AfterThrow
<1>3. meant' \in [scene : Tick!Scene, of : Seq(Nat)] /\ meant'.of = meant.of /\ scene' = meant'.scene
  BY <1>1, <1>2
<1>4. barriers' \in barriers .. barriers + 1 /\ UNCHANGED <<handed, ended, ticks>>
  BY <1>1, <1>2
<1> QED  BY <1>1, <1>2, <1>3, <1>4, AllDiscarded

\* Every buffer was applied: the scene is the one meant, or is from now on.
LEMMA AppliedSound ==
  ASSUME Tick!TickSound, Tick!AtBarrier, Tick!AllApplied,
         UNCHANGED <<running, ended, ticks, handed>>, barriers' \in {barriers, barriers + 1}
  PROVE  Tick!TickSound'
<1>1. /\ inTick /\ running' = 0 /\ barriers \in Nat
      /\ meant \in [scene : Tick!Scene, of : Seq(Nat)]
      /\ Tick!SceneAfter \in [0 .. Systems -> Tick!Scene] /\ Systems \in 0 .. Systems
  BY TickSizes, TickTypes DEF Tick!TickSound, Tick!TypeOK, Tick!AtBarrier
<1>2. /\ inTick' = FALSE
      /\ buffers' = [s \in Tick!Turn |-> Tick!Discarded(buffers[s])]
      /\ kept' = Tick!NoneKept
      /\ scene' = Tick!SceneAfter[Systems]
      /\ meant' = IF Tick!Torn THEN [meant EXCEPT !.scene = scene'] ELSE meant
  BY DEF Tick!AllApplied
<1>3. meant' \in [scene : Tick!Scene, of : Seq(Nat)] /\ meant'.of = meant.of /\ scene' = meant'.scene
  <2>1. scene' \in Tick!Scene
    BY <1>1, <1>2
  <2>2. CASE Tick!Torn
    BY <1>1, <1>2, <2>1, <2>2
  <2>3. CASE ~Tick!Torn
    BY <1>1, <1>2, <2>3 DEF Tick!TickSound, Tick!BuffersMean
  <2> QED  BY <2>2, <2>3
<1>4. barriers' \in barriers .. barriers + 1
  BY <1>1
<1> QED  BY <1>1, <1>2, <1>3, <1>4, AllDiscarded

LEMMA BarrierSound ==
  ASSUME Tick!TickSound, Tick!Barrier \/ Tick!ServicesThrow
  PROVE  Tick!TickSound'
<1>1. /\ Tick!AtBarrier /\ Tick!AllApplied
      /\ UNCHANGED <<running, ended, ticks, handed>> /\ barriers' \in {barriers, barriers + 1}
  BY DEF Tick!Barrier, Tick!ServicesThrow
<1> QED  BY <1>1, AppliedSound

(***************************************************************************)
(* apply throws: the buffers before the one that failed start anew, and    *)
(* the others stand, as resolvable as they were.                           *)
(***************************************************************************)
LEMMA ApplyThrowsSound ==
  ASSUME Tick!TickSound, NEW s \in Tick!Turn, NEW i \in DOMAIN buffers[s].commands,
         Tick!ApplyThrows(s, i)
  PROVE  Tick!TickSound'
<1> DEFINE D == {r \in Tick!Turn : r < s}
           done == Tick!Replayed(Tick!SceneAfter[s - 1], buffers[s])
<1>1. /\ inTick /\ inTick' = FALSE /\ running' = 0
      /\ scene' = done[i - 1].scene \/ scene' = done[i].scene
      /\ buffers' = [r \in Tick!Turn |-> IF r < s THEN Tick!Discarded(buffers[r]) ELSE buffers[r]]
      /\ kept' = [r \in Tick!Turn |-> Len(buffers'[r].commands)]
      /\ UNCHANGED <<handed, ended, ticks, barriers, meant>>
  BY DEF Tick!ApplyThrows, Tick!AtBarrier, Tick!AfterFailure
<1>2. /\ Tick!TypeOK /\ barriers \in Nat /\ meant \in [scene : Tick!Scene, of : Seq(Nat)]
      /\ s \in Nat /\ buffers[s] \in Tick!Buffer /\ Tick!SceneAfter[s - 1] \in Tick!Scene
  BY TickSizes, TickTypes DEF Tick!TickSound, Tick!TypeOK, Tick!Turn
<1>3. i \in 1 .. Len(buffers[s].commands) /\ Len(buffers[s].commands) \in Nat
  BY <1>2, LenProperties DEF Tick!Buffer
<1>4. scene' \in Tick!Scene
  <2>1. done \in [0 .. Len(buffers[s].commands) -> Done]
    BY <1>2, ReplayedFacts
  <2>2. i \in 0 .. Len(buffers[s].commands) /\ i - 1 \in 0 .. Len(buffers[s].commands)
    BY <1>3
  <2> HIDE DEF done
  <2>3. done[i].scene \in Tick!Scene /\ done[i - 1].scene \in Tick!Scene
    BY <2>1, <2>2 DEF Done
  <2> QED  BY <1>1, <2>3
<1>5. buffers' = [r \in Tick!Turn |-> IF r \in D THEN Tick!Discarded(buffers[r]) ELSE buffers[r]]
  BY <1>1
<1>6. Tick!Torn' /\ D # Tick!Turn
  <2>1. ~(s < s) /\ s \notin D
    BY <1>2
  <2>2. buffers'[s] = buffers[s]
    BY <1>1, <2>1
  <2>3. kept'[s] = Len(buffers[s].commands) /\ kept'[s] # 0
    BY <1>1, <1>3, <2>2
  <2> QED  BY <2>1, <2>3 DEF Tick!Torn, Tick!NoneKept
<1>7. D \in SUBSET Tick!Turn /\ barriers' \in barriers .. barriers + 1 /\ meant'.of = meant.of
      /\ meant' \in [scene : Tick!Scene, of : Seq(Nat)]
  BY <1>1, <1>2
<1> HIDE DEF D, done
<1> QED  BY <1>1, <1>4, <1>5, <1>6, <1>7, TickEnds

(***************************************************************************)
(* In every reachable state the buffers, applied now, make the scene their *)
(* commands meant, and every pending entity a buffer still accepts is the  *)
(* entity its own spawn makes: the barrier aborts on none of them, and     *)
(* nothing is in a buffer between two ticks.  Where a barrier threw, its   *)
(* buffers have what it left, mean what they make when applied again, and  *)
(* can be, without an abort.                                               *)
(***************************************************************************)
THEOREM TickIsSound == Tick!Spec => []TickSound
<1>1. Tick!Init => Tick!TickSound
  BY TickStart
<1>2. Tick!TickSound /\ [Tick!Next]_Tick!vars => Tick!TickSound'
  <2> SUFFICES ASSUME Tick!TickSound, [Tick!Next]_Tick!vars PROVE Tick!TickSound'
    OBVIOUS
  <2>1. CASE \E kind \in Tick!Kinds, target \in Tick!Targets : Tick!Queue(kind, target)
    BY <2>1, QueueSound
  <2>2. CASE UNCHANGED Tick!vars
    <3>1. UNCHANGED <<buffers, kept, handed, meant, scene, running, ended, inTick, ticks, barriers>>
      BY <2>2 DEF Tick!vars, Tick!execution, Tick!commands
    <3>2. Tick!TypeOK' /\ Tick!TurnsInOrder' /\ Tick!RecordedInTurn'
      BY <3>1 DEF Tick!TickSound, Tick!TypeOK, Tick!TurnsInOrder, Tick!RecordedInTurn
    <3> QED  BY <3>1, <3>2, BuffersKept
  <2>3. CASE \E s \in Tick!Turn : \E i \in DOMAIN buffers[s].commands : Tick!ApplyThrows(s, i)
    BY <2>3, ApplyThrowsSound
  <2> QED  BY <2>1, <2>2, <2>3, QuietTick, SpawnSound, ThrowSound, BarrierSound DEF Tick!Next
<1> QED  BY <1>1, <1>2, PTL DEF Tick!Spec, TickSound

(***************************************************************************)
(* Between two ticks the scene is the one the recorded commands would have *)
(* made at once, in the order of the systems, unless a barrier threw and   *)
(* what it left is still in the buffers.                                   *)
(***************************************************************************)
THEOREM AsIfImmediateCorrect == Tick!Spec => []AsIfImmediate
<1>1. Tick!TickSound => Tick!AsIfImmediate
  <2> SUFFICES ASSUME Tick!TickSound, ~inTick, ~Tick!Torn PROVE scene = meant.scene
    BY DEF Tick!AsIfImmediate
  <2>1. /\ Tick!TypeOK /\ \A s \in Tick!Turn : buffers[s].commands = <<>>
        /\ meant.scene = Tick!SceneAfter[Systems] /\ Systems \in Nat
    <3>1. Tick!TypeOK /\ meant.scene = Tick!SceneAfter[Systems] /\ Systems \in Nat
      BY TickSizes DEF Tick!TickSound, Tick!BuffersMean
    <3>2. \A s \in Tick!Turn : Len(buffers[s].commands) = 0
      BY DEF Tick!TickSound, Tick!NothingOutlivesTick, Tick!Torn, Tick!NoneKept
    <3>3. \A s \in Tick!Turn : buffers[s].commands \in Seq(Tick!Command)
      BY <3>1 DEF Tick!TypeOK, Tick!Buffer
    <3> QED  BY <3>1, <3>2, <3>3, EmptySeq
  <2>2. buffers \in [Tick!Turn -> Tick!Buffer] /\ scene \in Tick!Scene
    BY <2>1, TickTypes
  <2>3. \A n \in 0 + 1 .. Systems : buffers[n].commands = <<>>
    BY <2>1 DEF Tick!Turn
  <2>4. 0 \in 0 .. Systems /\ Systems \in 0 .. Systems
    BY <2>1
  <2>5. /\ Tick!ScenesAfter(scene, buffers)[Systems] = Tick!ScenesAfter(scene, buffers)[0]
        /\ Tick!ScenesAfter(scene, buffers)[0] = scene
    BY <2>2, <2>3, <2>4, ScenesEmpty, ScenesAfterFacts
  <2> QED  BY <2>1, <2>5 DEF Tick!SceneAfter
<1> QED  BY <1>1, TickIsSound, PTL DEF AsIfImmediate, TickSound

-----------------------------------------------------------------------------
(* Events.                                                                 *)

\* An event was published before the barrier to come, at a place of its own.
EventsKept ==
    /\ published \in Seq(Nat) /\ visible \in Seq(Nat) /\ staging \in Seq(Nat)
    /\ barriers \in Nat
    /\ \A e \in DOMAIN published : published[e] <= barriers
    /\ Tick!EventsOneTickLater

\* A batch gains an event at its end.
LEMMA BatchGains ==
  ASSUME NEW batch \in Seq(Nat), NEW e \in Nat
  PROVE  /\ Append(batch, e) \in Seq(Nat)
         /\ Tick!ToSet(Append(batch, e)) = Tick!ToSet(batch) \cup {e}
         /\ (\A i, j \in DOMAIN batch : i < j => batch[i] < batch[j])
              /\ (\A d \in Tick!ToSet(batch) : d < e)
              => \A i, j \in DOMAIN Append(batch, e) : i < j => Append(batch, e)[i] < Append(batch, e)[j]
<1> DEFINE n == Len(batch)
           longer == Append(batch, e)
<1>1. /\ longer \in Seq(Nat) /\ n \in Nat /\ Len(longer) = n + 1
      /\ DOMAIN batch = 1 .. n /\ DOMAIN longer = 1 .. n + 1
      /\ \A i \in 1 .. n : longer[i] = batch[i]
      /\ longer[n + 1] = e
      /\ \A i \in 1 .. n : batch[i] \in Nat
  BY AppendProperties, LenProperties, ElementOfSeq
<1> HIDE DEF longer, n
<1>2. Tick!ToSet(longer) = Tick!ToSet(batch) \cup {e}
  <2>1. \A i \in 1 .. n + 1 : i \in 1 .. n \/ i = n + 1
    BY <1>1
  <2>2. \A i \in 1 .. n : i \in 1 .. n + 1
    BY <1>1
  <2>3. n + 1 \in 1 .. n + 1
    BY <1>1
  <2> QED  BY <1>1, <2>1, <2>2, <2>3 DEF Tick!ToSet
<1>3. ASSUME \A i, j \in DOMAIN batch : i < j => batch[i] < batch[j],
             \A d \in Tick!ToSet(batch) : d < e,
             NEW i \in DOMAIN longer, NEW j \in DOMAIN longer, i < j
      PROVE  longer[i] < longer[j]
  <2>1. i \in 1 .. n /\ (j \in 1 .. n \/ j = n + 1)
    BY <1>1, <1>3
  <2>2. batch[i] \in Tick!ToSet(batch)
    BY <1>1, <2>1 DEF Tick!ToSet
  <2> QED  BY <1>1, <1>3, <2>1, <2>2
<1> QED  BY <1>1, <1>2, <1>3 DEF longer

(***************************************************************************)
(* Every system sees the events of a tick in the tick after the next       *)
(* barrier, in their order, and in no tick after that.                     *)
(***************************************************************************)
THEOREM EventsOneTickLaterCorrect == Tick!Spec => []EventsOneTickLater
<1>1. Tick!Init => EventsKept
  <2> SUFFICES ASSUME Tick!Init PROVE EventsKept
    OBVIOUS
  <2>1. published = <<>> /\ visible = <<>> /\ staging = <<>> /\ barriers = 0
    BY DEF Tick!Init
  <2>2. DOMAIN published = {} /\ published \in Seq(Nat) /\ visible \in Seq(Nat) /\ staging \in Seq(Nat)
    BY <2>1, EmptySeq
  <2> QED  BY <2>1, <2>2 DEF EventsKept, Tick!EventsOneTickLater, Tick!ToSet
<1>2. EventsKept /\ [Tick!Next]_Tick!vars => EventsKept'
  <2> SUFFICES ASSUME EventsKept, [Tick!Next]_Tick!vars PROVE EventsKept'
    OBVIOUS
  <2>1. CASE UNCHANGED <<published, visible, staging, barriers>>
    BY <2>1 DEF EventsKept, Tick!EventsOneTickLater
  <2>2. CASE Tick!Publish
    <3> DEFINE n == Len(published)
    <3>1. /\ published' = Append(published, barriers) /\ staging' = Append(staging, Len(published'))
          /\ UNCHANGED <<visible, barriers>>
      BY <2>2 DEF Tick!Publish, Tick!execution
    <3>2. /\ published \in Seq(Nat) /\ barriers \in Nat /\ n \in Nat
          /\ published' \in Seq(Nat) /\ Len(published') = n + 1
          /\ DOMAIN published = 1 .. n /\ DOMAIN published' = 1 .. n + 1
          /\ \A e \in 1 .. n : published'[e] = published[e] /\ published[e] \in Nat
          /\ published'[n + 1] = barriers
      BY <3>1, AppendProperties, LenProperties, ElementOfSeq DEF EventsKept
    <3>3. /\ Tick!ToSet(staging) = {e \in 1 .. n : published[e] = barriers}
          /\ Tick!ToSet(visible) = {e \in 1 .. n : published[e] + 1 = barriers}
          /\ \A i, j \in DOMAIN staging : i < j => staging[i] < staging[j]
          /\ \A i, j \in DOMAIN visible : i < j => visible[i] < visible[j]
          /\ staging \in Seq(Nat) /\ visible \in Seq(Nat)
          /\ \A e \in 1 .. n : published[e] <= barriers
      BY <3>2 DEF EventsKept, Tick!EventsOneTickLater
    <3>4. PICK last \in Nat : last = n + 1 /\ staging' = Append(staging, last)
      BY <3>1, <3>2
    <3> HIDE DEF n
    <3>5. \A d \in Tick!ToSet(staging) : d < last
      BY <3>2, <3>3, <3>4
    <3>6. /\ staging' \in Seq(Nat)
          /\ Tick!ToSet(staging') = {e \in 1 .. n : published[e] = barriers} \cup {last}
          /\ \A i, j \in DOMAIN staging' : i < j => staging'[i] < staging'[j]
      BY <3>3, <3>4, <3>5, BatchGains
    <3>7. \A e \in 1 .. n + 1 : e \in 1 .. n \/ e = n + 1
      BY <3>2
    <3>8. \A e \in 1 .. n : e \in 1 .. n + 1
      BY <3>2
    <3>9. n + 1 \in 1 .. n + 1 /\ barriers + 1 # barriers
      BY <3>2
    <3>10. \A e \in DOMAIN published' : published'[e] <= barriers'
      BY <3>1, <3>2, <3>3, <3>7
    <3>11. Tick!ToSet(staging') = {e \in 1 .. n + 1 : published'[e] = barriers}
      BY <3>2, <3>4, <3>6, <3>7, <3>8, <3>9
    <3>12. Tick!ToSet(visible) = {e \in 1 .. n + 1 : published'[e] + 1 = barriers}
      BY <3>2, <3>3, <3>7, <3>8, <3>9
    <3>13. Tick!EventsOneTickLater'
      BY <3>1, <3>2, <3>3, <3>6, <3>11, <3>12 DEF Tick!EventsOneTickLater
    <3> QED  BY <3>1, <3>2, <3>3, <3>6, <3>10, <3>13 DEF EventsKept
  <2>3. CASE Tick!Barrier
    <3>1. /\ published' = published /\ barriers' = barriers + 1
          /\ visible' = staging /\ staging' = <<>>
      BY <2>3 DEF Tick!Barrier, Tick!AfterBarrier, Tick!MadeVisible, Tick!Retired
    <3>2. /\ published \in Seq(Nat) /\ barriers \in Nat /\ staging \in Seq(Nat)
          /\ \A e \in DOMAIN published : published[e] \in Nat /\ published[e] <= barriers
          /\ Tick!ToSet(staging) = {e \in DOMAIN published : published[e] = barriers}
          /\ \A i, j \in DOMAIN staging : i < j => staging[i] < staging[j]
      BY LenProperties, ElementOfSeq DEF EventsKept, Tick!EventsOneTickLater
    <3>3. DOMAIN staging' = {} /\ staging' \in Seq(Nat) /\ Tick!ToSet(staging') = {}
      BY <3>1, EmptySeq DEF Tick!ToSet
    <3>4. \A e \in DOMAIN published : /\ published[e] # barriers'
                                      /\ published[e] <= barriers'
                                      /\ published[e] = barriers <=> published[e] + 1 = barriers'
      BY <3>1, <3>2
    <3>5. Tick!EventsOneTickLater'
      BY <3>1, <3>2, <3>3, <3>4 DEF Tick!EventsOneTickLater
    <3> QED  BY <3>1, <3>2, <3>3, <3>4, <3>5 DEF EventsKept
  <2> QED  BY <2>1, <2>2, <2>3 DEF Tick!Next, Tick!vars, Tick!execution, Tick!events,
       Tick!BeginTick,
             Tick!BeginSystem, Tick!EndSystem, Tick!Spawn, Tick!Queue, Tick!Throw,
             Tick!ApplyThrows, Tick!ServicesThrow
<1>3. EventsKept => Tick!EventsOneTickLater
  BY DEF EventsKept
<1> QED  BY <1>1, <1>2, <1>3, PTL DEF Tick!Spec, EventsOneTickLater
=============================================================================
