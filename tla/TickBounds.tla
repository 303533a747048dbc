----------------------------- MODULE TickBounds -----------------------------
(***************************************************************************)
(* The size of the ticks that TickBarrier runs.                            *)
(***************************************************************************)
EXTENDS Naturals

CONSTANTS
    Systems,        \* how many systems the graph has, in graph order
    MaxTicks,       \* bound: executions, failed ones included
    MaxEvents,      \* bound: events published
    MaxSpawns,      \* bound: spawns recorded
    MaxCommands     \* bound: commands in the buffers at once

ASSUME BoundsAssumption ==
    {Systems, MaxTicks, MaxEvents, MaxSpawns, MaxCommands} \subseteq Nat
=============================================================================
