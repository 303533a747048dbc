---------------------------- MODULE HandleLimits ----------------------------
(***************************************************************************)
(* The handles of ResourceSlots and EntitySlots: the number of a slot and  *)
(* the generation that tells the lives of the slot apart, both bounded.    *)
(***************************************************************************)
EXTENDS Naturals

CONSTANTS
    SlotLimit,          \* m_slotLimit: 2^32 - 1 in the engine
    GenerationLimit,    \* m_generationLimit: 2^32 - 1 in the engine
    Null                \* NULL_INDEX

ASSUME LimitsAssumption == SlotLimit \in Nat /\ GenerationLimit \in Nat
ASSUME NullAssumption == Null \notin Nat

Index == 0 .. SlotLimit - 1
Generations == 0 .. GenerationLimit
Handle == Index \X Generations
=============================================================================
