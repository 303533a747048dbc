---------------------------- MODULE HandleTable -----------------------------
(***************************************************************************)
(* What a slot allocator promises the holders of its handles: a handle is  *)
(* given out once and never again, and it resolves from its creation to    *)
(* its destruction and at no other time.  Slots, generations and the free  *)
(* list do not appear here; ResourceSlots and EntitySlots are shown to     *)
(* implement this.                                                         *)
(***************************************************************************)
CONSTANT Handle

VARIABLES
    alive,      \* the handles that resolve
    issued      \* the handles given out so far

Init == alive = {} /\ issued = {}

Create ==
    \E h \in Handle \ issued :
        /\ issued' = issued \cup {h}
        /\ alive' = alive \cup {h}

Destroy ==
    /\ \E h \in alive : alive' = alive \ {h}
    /\ UNCHANGED issued

Clear ==
    /\ alive' = {}
    /\ UNCHANGED issued

Next == Create \/ Destroy \/ Clear

Spec == Init /\ [][Next]_<<alive, issued>>
=============================================================================
