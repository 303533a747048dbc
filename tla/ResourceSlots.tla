--------------------------- MODULE ResourceSlots ----------------------------
(***************************************************************************)
(* engine/core ResourceSlots: entries in numbered slots, a free list       *)
(* threaded through the slots by nextFree, and a generation per slot that  *)
(* tells the lives of a slot apart.  A slot whose generation cannot        *)
(* advance is retired.  What an entry holds is ResourceCache's business.   *)
(***************************************************************************)
EXTENDS HandleLimits, FiniteSets

VARIABLES
    slotCount,      \* m_slotCount: the slots that exist are 0 .. slotCount - 1
    generation,     \* of each slot
    occupied,       \* of each slot
    nextFree,       \* of each slot
    freeHead,       \* m_freeHead
    liveCount,      \* m_liveCount
    issued          \* history: every handle create() has returned

vars == <<slotCount, generation, occupied, nextFree, freeHead, liveCount, issued>>

Exists == {i \in Index : i < slotCount}
Occupied == {i \in Exists : occupied[i]}

\* isSlotValid(): what find() resolves.
IsSlotValid(h) ==
    /\ h[1] \in Exists
    /\ occupied[h[1]]
    /\ generation[h[1]] = h[2]

Live == {h \in Handle : IsSlotValid(h)}

\* The handle the next create() returns.
NextSlot == IF freeHead # Null THEN freeHead ELSE slotCount
NextHandle == <<NextSlot, generation[NextSlot]>>

Init ==
    /\ slotCount = 0
    /\ generation = [i \in Index |-> 0]
    /\ occupied = [i \in Index |-> FALSE]
    /\ nextFree = [i \in Index |-> Null]
    /\ freeHead = Null
    /\ liveCount = 0
    /\ issued = {}

\* Mutant: the rest of the list is dropped with the head.
ReuseMutant ==
    /\ freeHead # Null
    /\ freeHead' = Null
    /\ nextFree' = [nextFree EXCEPT ![freeHead] = Null]
    /\ occupied' = [occupied EXCEPT ![freeHead] = TRUE]
    /\ UNCHANGED slotCount

\* The head of the free list, unlinked.
Reuse ==
    /\ freeHead # Null
    /\ freeHead' = nextFree[freeHead]
    /\ nextFree' = [nextFree EXCEPT ![freeHead] = Null]
    /\ occupied' = [occupied EXCEPT ![freeHead] = TRUE]
    /\ UNCHANGED slotCount

\* A slot that never existed; past the limit the TE_CHECK aborts the process.
Grow ==
    /\ freeHead = Null
    /\ slotCount < SlotLimit
    /\ slotCount' = slotCount + 1
    /\ occupied' = [occupied EXCEPT ![slotCount] = TRUE]
    /\ UNCHANGED <<freeHead, nextFree>>

Create ==
    /\ Reuse \/ Grow
    /\ liveCount' = liveCount + 1
    /\ issued' = issued \cup {NextHandle}
    /\ UNCHANGED generation

\* Mutant: the last generation advances like any other.
RetiringMutant(i) == FALSE

Retiring(i) == generation[i] = GenerationLimit

\* Mutant: a freed slot keeps its generation.
NextGenerationMutant(i) == generation[i]

NextGeneration(i) == generation[i] + 1

\* destroy() of a handle that resolves; of any other it does nothing.
Destroy(h) ==
    LET i == h[1] IN
    /\ IsSlotValid(h)
    /\ occupied' = [occupied EXCEPT ![i] = FALSE]
    /\ IF Retiring(i)
         THEN /\ nextFree' = [nextFree EXCEPT ![i] = Null]
              /\ UNCHANGED <<generation, freeHead>>
         ELSE /\ generation' = [generation EXCEPT ![i] = NextGeneration(i)]
              /\ nextFree' = [nextFree EXCEPT ![i] = freeHead]
              /\ freeHead' = i
    /\ liveCount' = liveCount - 1
    /\ UNCHANGED <<slotCount, issued>>

Next == Create \/ \E h \in Handle : Destroy(h)

Spec == Init /\ [][Next]_vars

----------------------------------------------------------------------------
(* Properties. *)

TypeOK ==
    /\ slotCount \in 0 .. SlotLimit
    /\ generation \in [Index -> Generations]
    /\ occupied \in [Index -> BOOLEAN]
    /\ nextFree \in [Index -> Index \cup {Null}]
    /\ freeHead \in Index \cup {Null}
    /\ liveCount \in Nat
    /\ issued \subseteq Handle

\* Slots reached from the head within n links.
FreeList[n \in Nat] ==
    IF n = 0 THEN {freeHead} \ {Null}
    ELSE FreeList[n - 1] \cup ({nextFree[i] : i \in FreeList[n - 1]} \ {Null})

CountIsOccupied == liveCount = Cardinality(Occupied)

\* The last life of the slot has been lived.
Retired(i) == ~occupied[i] /\ <<i, GenerationLimit>> \in issued

(* No slot leaks and none is in two places: each is occupied, reachable    *)
(* from the free list's head, or retired, and size() counts the occupied   *)
(* ones (create() and destroy() keep links, flags and the count by hand).  *)
NoSlotLost ==
    /\ \A i \in Exists :
         /\ occupied[i] \/ i \in FreeList[SlotLimit] \/ Retired(i)
         /\ ~(occupied[i] /\ i \in FreeList[SlotLimit])
         /\ ~(Retired(i) /\ i \in FreeList[SlotLimit])
    /\ FreeList[SlotLimit] \subseteq Exists
    /\ CountIsOccupied

(* A handle is never given out twice and never resolves after its entry is *)
(* destroyed, in whatever order slots are freed and reused and however     *)
(* often: the retirement of destroy() is what keeps the last generation    *)
(* from coming back.                                                       *)
Table == INSTANCE HandleTable WITH alive <- Live
ImplementsTable == Table!Spec

(* What makes it so: a slot on the free list, or never used, is about to   *)
(* be given out under a generation nobody has seen.                        *)
OnList(i) == i = freeHead \/ \E j \in Index : nextFree[j] = i
FreshGeneration ==
    /\ \A h \in issued : h[1] \in Exists /\ h[2] <= generation[h[1]]
    /\ \A i \in Index : OnList(i) => <<i, generation[i]>> \notin issued
FreeAreFree ==
    \A i \in Index : OnList(i) => i \in Exists /\ ~occupied[i]
\* The links form one list without sharing.
ListShape ==
    /\ \A i, j \in Index : nextFree[i] = nextFree[j] /\ nextFree[i] # Null => i = j
    /\ freeHead # Null => \A i \in Index : nextFree[i] # freeHead
OccupiedIssued == \A i \in Occupied : <<i, generation[i]>> \in issued

IInv ==
    /\ TypeOK
    /\ FreshGeneration
    /\ FreeAreFree
    /\ ListShape
    /\ OccupiedIssued
    /\ CountIsOccupied

(* Every slot is where it should be, and in an order that gives each       *)
(* handle out once.                                                        *)
SlotsSound == NoSlotLost /\ IInv
=============================================================================
