--------------------------- MODULE HierarchyTree ----------------------------
(***************************************************************************)
(* What engine/core's Scene promises of its hierarchy: a forest of         *)
(* entities whose children are ordered, where a subtree moves, leaves its  *)
(* parent and dies as a whole.  Links between siblings do not appear here; *)
(* SceneHierarchy is shown to implement this.                              *)
(***************************************************************************)
EXTENDS Naturals, FiniteSets, SequencesExt

CONSTANT Entity     \* the handles of a run; none is given out twice

VARIABLES
    live,   \* the entities of the scene
    spent,  \* the entities destroyed so far
    kids    \* the children of each, in order

vars == <<live, spent, kids>>

\* e and everything below it: what every set has that has e and, with a
\* parent, its children.
Subtree(e) ==
    LET bonds == UNION {{p} \X ToSet(kids[p]) : p \in Entity}
        closed == {T \in SUBSET Entity : e \in T /\ \A b \in bonds : b[1] \in T => b[2] \in T}
    IN  {x \in Entity : \A T \in closed : x \in T}

Orphan(c) == \A p \in live : c \notin ToSet(kids[p])

\* The children of p without c.
Others(p, c) == RemoveFirst(kids[p], c)

\* c may become the child of p with pos of p's other children before it.
Legal(c, p, pos) ==
    /\ c \in live /\ p \in live
    /\ p \notin Subtree(c)
    /\ pos \in 0 .. Len(Others(p, c))

Init ==
    /\ live = {}
    /\ spent = {}
    /\ kids = [e \in Entity |-> <<>>]

Create(e) ==
    /\ e \in Entity \ (live \cup spent)
    /\ live' = live \cup {e}
    /\ UNCHANGED <<spent, kids>>

CreateUnder(e, p) ==
    /\ e \in Entity \ (live \cup spent)
    /\ p \in live
    /\ live' = live \cup {e}
    /\ kids' = [kids EXCEPT ![p] = Append(@, e)]
    /\ UNCHANGED spent

Attach(c, p, pos) ==
    /\ UNCHANGED <<live, spent>>
    /\ Legal(c, p, pos)
    /\ kids' = [q \in Entity |->
                  IF q = p THEN InsertAt(Others(p, c), pos + 1, c)
                           ELSE Others(q, c)]

Detach(c) ==
    /\ c \in live /\ ~Orphan(c)
    /\ kids' = [q \in Entity |-> Others(q, c)]
    /\ UNCHANGED <<live, spent>>

Destroy(e) ==
    /\ e \in live
    /\ live' = live \ Subtree(e)
    /\ spent' = spent \cup Subtree(e)
    /\ kids' = [q \in Entity |->
                  IF q \in Subtree(e) THEN <<>> ELSE Others(q, e)]

Clear ==
    /\ live' = {}
    /\ spent' = spent \cup live
    /\ kids' = [e \in Entity |-> <<>>]

Next ==
    \/ \E e \in Entity : Create(e) \/ Detach(e) \/ Destroy(e)
    \/ \E e, p \in Entity : CreateUnder(e, p)
    \/ \E c, p \in Entity, pos \in 0 .. Cardinality(Entity) : Attach(c, p, pos)
    \/ Clear

Spec == Init /\ [][Next]_vars
=============================================================================
