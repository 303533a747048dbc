----------------------------- MODULE MCStorage ------------------------------
(***************************************************************************)
(* The storage of a scene, for TLC: the slot tables (EntitySlots, and      *)
(* ResourceSlots of the resource cache) and the archetypes                 *)
(* (ArchetypeStorage).  They meet only through handles, of which each uses *)
(* what HandleTable promises, so a behaviour is one of one of the machines,*)
(* chosen at the start.                                                    *)
(***************************************************************************)
EXTENDS ArchetypeStorage, HandleLimits

CONSTANTS
    intrinsic,  \* the types every entity has (Hierarchy, Transform, Name), as one
    added       \* a type that comes and goes

VARIABLES
    machine,    \* the machine this behaviour is of
    slotCount, generation, occupied, nextFree, freeHead, retired, size, issued,
    rSlotCount, rGeneration, rOccupied, rNextFree, rFreeHead, rLiveCount, rIssued

\* A query for the entities that have the added type.
RequiredAdded == [q \in {added} |-> {q}]

Entity == INSTANCE EntitySlots

Resource == INSTANCE ResourceSlots WITH
    slotCount <- rSlotCount, generation <- rGeneration, occupied <- rOccupied,
    nextFree <- rNextFree, freeHead <- rFreeHead, liveCount <- rLiveCount,
    issued <- rIssued

eVars == <<slotCount, generation, occupied, nextFree, freeHead, retired, size, issued>>
rVars == <<rSlotCount, rGeneration, rOccupied, rNextFree, rFreeHead, rLiveCount, rIssued>>
allVars == <<machine, vars, eVars, rVars>>

StorageInit ==
    /\ machine \in {"entity slots", "resource slots", "archetypes"}
    /\ Init /\ Entity!Init /\ Resource!Init
StorageNext ==
    /\ UNCHANGED machine
    /\ \/ machine = "entity slots" /\ Entity!Next /\ UNCHANGED <<vars, rVars>>
       \/ machine = "resource slots" /\ Resource!Next /\ UNCHANGED <<vars, eVars>>
       \/ machine = "archetypes" /\ Next /\ UNCHANGED <<eVars, rVars>>
\* The bound: types are marked while there are two entities.
FewMarked == tick > 0 => created <= 2

StorageSpec == StorageInit /\ [][StorageNext]_allVars

\* In both slot tables no slot leaks, none is in two places, and the inductive
\* invariants of the proofs hold.
SlotTablesSound == Entity!SlotsSound /\ Resource!SlotsSound

\* A handle of an entity is given out once and resolves from create() to
\* destroy() or clear() and at no other time.
EntityTable == INSTANCE HandleTable WITH alive <- Entity!Live
EntityImplementsTable == EntityTable!Spec

\* The same of the resources.
ResourceTable == INSTANCE HandleTable WITH alive <- Resource!Live, issued <- rIssued
ResourceImplementsTable == ResourceTable!Spec
=============================================================================
