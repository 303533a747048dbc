----------------------------- MODULE TaskGraph ------------------------------
(***************************************************************************)
(* engine/core TaskGraph: the order in which the systems of a Schedule run *)
(* in every tick.  The constructor draws an edge for each ordering         *)
(* constraint, from every regular system to the terminal one, and between  *)
(* the remaining pairs whose accesses conflict by priority; it then peels  *)
(* the graph into levels, or names a cycle.                                *)
(***************************************************************************)
EXTENDS Naturals, FiniteSets, SequencesExt

CONSTANTS
    System,         \* the indices of the entries
    Component,      \* the component types
    Priority,       \* the priorities registration hands out
    MaxConstraints  \* bound: ordering constraints of a schedule

ASSUME SystemAssumption == IsFiniteSet(System) /\ System \subseteq Nat
ASSUME PriorityAssumption == Priority \subseteq Nat

VARIABLES
    reads,      \* ScheduleAccess of each entry
    writes,
    priority,   \* of each entry
    terminal,   \* the entries of Slot::Terminal: one at most
    before,     \* the ordering constraints, Before and After alike
    edges,      \* the successors of each entry
    indegree,   \* of each entry
    processed,  \* the entries already in a level
    levels,     \* m_levels
    phase,      \* where the constructor is, or how it ended
    state,      \* findCycle's state of each entry
    path,       \* findCycle's path
    cycle       \* what findCycle returns

schedule == <<reads, writes, priority, terminal, before>>
graph == <<edges, indegree>>
search == <<state, path, cycle>>
vars == <<schedule, graph, processed, levels, phase, search>>

\* ScheduleAccess::conflicts.
Conflict(a, b) ==
    \/ writes[a] \cap (reads[b] \cup writes[b]) # {}
    \/ writes[b] \cap (reads[a] \cup writes[a]) # {}

Regular == System \ terminal

ExplicitlyOrdered(a, b) ==
    \/ <<a, b>> \in before \/ <<b, a>> \in before
    \/ {a, b} \cap terminal # {} /\ {a, b} \cap Regular # {}

\* Mutant: an entry is compared with its neighbour only.
ContestedMutant ==
    {p \in System \X System :
        p[2] = p[1] + 1 /\ Conflict(p[1], p[2])
                        /\ ~ExplicitlyOrdered(p[1], p[2])}

\* The pairs that priorities have to order.
Contested ==
    {p \in System \X System :
        p[1] < p[2] /\ Conflict(p[1], p[2])
                    /\ ~ExplicitlyOrdered(p[1], p[2])}

\* Mutant: the higher priority runs first.
ByPriorityMutant(p) ==
    IF priority[p[1]] < priority[p[2]] THEN <<p[2], p[1]>> ELSE p

ByPriority(p) ==
    IF priority[p[1]] < priority[p[2]] THEN p ELSE <<p[2], p[1]>>

\* Mutant: the terminal system waits for those it conflicts with.
TerminalEdgesMutant ==
    {p \in Regular \X terminal : Conflict(p[1], p[2])}

TerminalEdges == Regular \X terminal

\* Mutant: a constraint on an entry added earlier draws nothing.
AllEdgesMutant ==
    {p \in before : p[1] <= p[2]} \cup TerminalEdges
    \cup {ByPriority(p) : p \in Contested}

AllEdges == before \cup TerminalEdges \cup {ByPriority(p) : p \in Contested}

Init ==
    /\ reads \in [System -> SUBSET Component]
    /\ writes \in [System -> SUBSET Component]
    /\ \A s \in System : reads[s] \cap writes[s] = {}
    /\ priority \in [System -> Priority]
    /\ terminal \in {t \in SUBSET System : Cardinality(t) <= 1}
    /\ before \in {b \in SUBSET (System \X System) :
                      Cardinality(b) <= MaxConstraints}
    /\ edges = [s \in System |-> {}]
    /\ indegree = [s \in System |-> 0]
    /\ processed = {}
    /\ levels = <<>>
    /\ phase = "edges"
    /\ state = [s \in System |-> "new"]
    /\ path = <<>>
    /\ cycle = <<>>

\* Two conflicting systems of one priority: the TE_CHECK aborts.
Reject ==
    /\ phase = "edges"
    /\ \E p \in Contested : priority[p[1]] = priority[p[2]]
    /\ phase' = "rejected"
    /\ UNCHANGED <<schedule, graph, processed, levels, search>>

\* Mutant: an edge drawn twice counts twice.
IndegreeMutant(E, s) ==
    Cardinality({a \in System : <<a, s>> \in before})
    + Cardinality({a \in System : <<a, s>> \in E \ before})
    + Cardinality({a \in System : <<a, s>> \in before \cap TerminalEdges})

\* addEdge counts an edge once, however often it is drawn.
Indegree(E, s) == Cardinality({a \in System : <<a, s>> \in E})

DrawEdges ==
    /\ phase = "edges"
    /\ \A p \in Contested : priority[p[1]] # priority[p[2]]
    /\ edges' = [a \in System |-> {b \in System : <<a, b>> \in AllEdges}]
    /\ indegree' = [s \in System |-> Indegree(AllEdges, s)]
    /\ phase' = "levels"
    /\ UNCHANGED <<schedule, processed, levels, search>>

\* Mutant: an entry of an earlier level is ready again.
ReadyMutant == {s \in System : indegree[s] = 0}

\* Mutant: a level holds the first ready entry only.
FirstReadyMutant ==
    LET ready == {s \in System \ processed : indegree[s] = 0}
    IN  {s \in ready : \A r \in ready : s <= r}

Ready == {s \in System \ processed : indegree[s] = 0}

\* One turn of the loop: every entry that waits for nothing is a level.
NextLevel ==
    /\ phase = "levels" /\ processed # System /\ Ready # {}
    /\ processed' = processed \cup Ready
    /\ levels' = Append(levels, Ready)
    /\ indegree' = [s \in System |->
                      indegree[s] - Cardinality({r \in Ready : s \in edges[r]})]
    /\ UNCHANGED <<schedule, edges, phase, search>>

Finish ==
    /\ phase = "levels" /\ processed = System
    /\ phase' = "built"
    /\ UNCHANGED <<schedule, graph, processed, levels, search>>

Stall ==
    /\ phase = "levels" /\ processed # System /\ Ready = {}
    /\ phase' = "search"
    /\ UNCHANGED <<schedule, graph, processed, levels, search>>

----------------------------------------------------------------------------
\* findCycle and findCycleFrom.  The order of a system's edges is left open.

Top == path[Len(path)]

StartFrom(s) ==
    /\ phase = "search" /\ path = <<>>
    /\ state[s] = "new" /\ \A a \in System : a < s => state[a] # "new"
    /\ path' = <<s>>
    /\ state' = [state EXCEPT ![s] = "onPath"]
    /\ UNCHANGED <<schedule, graph, processed, levels, phase, cycle>>

Follow(t) ==
    /\ phase = "search" /\ path # <<>>
    /\ t \in edges[Top] /\ state[t] = "new"
    /\ path' = Append(path, t)
    /\ state' = [state EXCEPT ![t] = "onPath"]
    /\ UNCHANGED <<schedule, graph, processed, levels, phase, cycle>>

\* Mutant: the whole path, from where the search began.
CycleAtMutant(t) == path

CycleAt(t) == SubSeq(path, CHOOSE n \in DOMAIN path : path[n] = t, Len(path))

Close(t) ==
    /\ phase = "search" /\ path # <<>>
    /\ t \in edges[Top] /\ state[t] = "onPath"
    /\ cycle' = CycleAt(t)
    /\ phase' = "cyclic"
    /\ UNCHANGED <<schedule, graph, processed, levels, state, path>>

Leave ==
    /\ phase = "search" /\ path # <<>>
    /\ \A t \in edges[Top] : state[t] = "done"
    /\ state' = [state EXCEPT ![Top] = "done"]
    /\ path' = SubSeq(path, 1, Len(path) - 1)
    /\ UNCHANGED <<schedule, graph, processed, levels, phase, cycle>>

Search ==
    \/ \E s \in System : StartFrom(s) \/ Follow(s) \/ Close(s)
    \/ Leave

Next == Reject \/ DrawEdges \/ NextLevel \/ Finish \/ Stall \/ Search

\* The constructor runs to its end.
Spec == Init /\ [][Next]_vars /\ WF_vars(Next)

----------------------------------------------------------------------------
\* Properties.

\* The types, with counters that never go below zero and levels that hold
\* every processed system once.
TypeOK ==
    /\ phase \in {"edges", "rejected", "levels", "built", "search", "cyclic"}
    /\ edges \in [System -> SUBSET System]
    /\ indegree \in [System -> 0 .. Cardinality(System)]
    /\ processed \subseteq System
    /\ \A i \in DOMAIN levels : levels[i] # {} /\ levels[i] \subseteq processed
    /\ \A s \in processed :
         Cardinality({i \in DOMAIN levels : s \in levels[i]}) = 1
    /\ state \in [System -> {"new", "onPath", "done"}]
    /\ ToSet(path) \subseteq System

\* Two systems of one level touch no component that one of them writes: the
\* levels could run in parallel without a data race.
LevelsIndependent ==
    \A i \in DOMAIN levels : \A a, b \in levels[i] :
        a # b => ~Conflict(a, b)

Earlier(a, b) ==
    \E i, j \in DOMAIN levels : i < j /\ a \in levels[i] /\ b \in levels[j]

\* A graph that was built keeps every ordering constraint of the schedule.
ConstraintsKept == phase = "built" => \A p \in before : Earlier(p[1], p[2])

\* Of two conflicting systems that no constraint orders, the one of the lower
\* priority runs first.
PriorityDecides ==
    phase = "built" => \A a, b \in System :
        (/\ Conflict(a, b) /\ priority[a] < priority[b]
         /\ {a, b} \subseteq Regular
         /\ <<a, b>> \notin before /\ <<b, a>> \notin before)
        => Earlier(a, b)

\* The terminal system runs after all the others, by itself.
TerminalLast ==
    phase = "built" => \A t \in terminal : levels[Len(levels)] = {t}

\* No system waits for nothing: each has, one level above, a system it is
\* ordered behind.
NoIdleLevel ==
    \A i \in DOMAIN levels : i > 1 =>
        \A s \in levels[i] : \E r \in levels[i - 1] : s \in edges[r]

\* When no level can be peeled off, the cycle that is reported is one: each
\* entry has an edge to the next and the last to the first.
CycleReal ==
    phase = "cyclic" =>
        /\ cycle # <<>>
        /\ \A n \in DOMAIN cycle :
             cycle[IF n = Len(cycle) THEN 1 ELSE n + 1] \in edges[cycle[n]]

\* The types, and the order of the levels: what must come before does, the
\* terminal system last, and nothing later than it has to;
\* no two systems of a level in conflict, and a cycle that is reported is one.
GraphSound ==
    /\ TypeOK
    /\ LevelsIndependent
    /\ ConstraintsKept
    /\ PriorityDecides
    /\ TerminalLast
    /\ NoIdleLevel
    /\ CycleReal

----------------------------------------------------------------------------
\* Why the graph is sound.

\* What the constructor is given, and the types of what it makes of it.
ScheduleGiven ==
    /\ priority \in [System -> Priority]
    /\ terminal \subseteq System /\ \A a, b \in terminal : a = b
    /\ before \subseteq System \X System

Shapes ==
    /\ phase \in {"edges", "rejected", "levels", "built", "search", "cyclic"}
    /\ edges \in [System -> SUBSET System]
    /\ levels \in Seq(SUBSET System)
    /\ state \in [System -> {"new", "onPath", "done"}]
    /\ path \in Seq(System)

\* Edges are all drawn before the first level, and a graph is built when every
\* system is in a level.
EdgesDrawn ==
    /\ IF phase \in {"edges", "rejected"} THEN levels = <<>> /\ edges = [s \in System |-> {}]
       ELSE edges = [a \in System |-> {b \in System : <<a, b>> \in AllEdges}]
    /\ phase \notin {"search", "cyclic"} => path = <<>>
    /\ phase = "built" => processed = System

\* An indegree counts those of a system's predecessors that are in no level.
Awaited(s) == {a \in System \ processed : s \in edges[a]}
IndegreeCounts == indegree = [s \in System |-> Cardinality(Awaited(s))]

\* The levels share out the processed systems, each behind its predecessors.
LevelsPartition ==
    /\ processed = UNION {levels[i] : i \in DOMAIN levels}
    /\ \A i \in DOMAIN levels : levels[i] # {}
    /\ \A i, j \in DOMAIN levels : i # j => levels[i] \cap levels[j] = {}
PredecessorsEarlier ==
    \A a, s \in System, j \in DOMAIN levels :
        s \in levels[j] /\ s \in edges[a] => \E i \in DOMAIN levels : i < j /\ a \in levels[i]

\* A system that is in no level yet waits for one of the last level or for one
\* that is in no level either.
StillWaiting ==
    \A s \in System \ processed :
        levels # <<>> => \E a \in System : s \in edges[a] /\ (a \in levels[Len(levels)] \/ a \notin processed)

\* The terminal system is taken when nothing else is left.
TerminalTakenLast == \A t \in terminal \cap processed : processed = System /\ levels[Len(levels)] = {t}

\* The path of the search follows the edges, and has every entry marked so.
PathFollowsEdges ==
    /\ \A n \in 1 .. Len(path) - 1 : path[n + 1] \in edges[path[n]]
    /\ \A s \in System : state[s] = "onPath" => \E n \in DOMAIN path : path[n] = s

\* The inductive invariant behind GraphSound.
IInv ==
    /\ ScheduleGiven /\ Shapes /\ EdgesDrawn
    /\ IndegreeCounts /\ LevelsPartition /\ PredecessorsEarlier
    /\ NoIdleLevel /\ StillWaiting /\ TerminalTakenLast
    /\ PathFollowsEdges /\ CycleReal

----------------------------------------------------------------------------
\* The constructor ends, with a graph, a rejection or a cycle: a stalled
\* peeling always has a cycle for the search to find.
Ends == <>(phase \in {"built", "rejected", "cyclic"})
=============================================================================
