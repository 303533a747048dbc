------------------------------ MODULE MCInput ------------------------------
(***************************************************************************)
(* What reaches a frame, for TLC: the input from the window to the screen  *)
(* (PresentedInput) and the snapshots from the ticks to the screen         *)
(* (SnapshotFlow).  The renderer reads both on its way, but neither looks  *)
(* at the other, so a behaviour is one of one of the two, chosen at the    *)
(* start.  Keys are told apart by nothing but their names.                 *)
(***************************************************************************)
EXTENDS PresentedInput, TLC

CONSTANTS FixedDelta, MaxElapsed, MaxTime

VARIABLES
    machine,    \* the machine this behaviour is of
    now, sRuns, simulation, accumulator, origin, tick, tickTime, timeline, sampled,
    mailbox, renderer, started, previous, current, sShown

Flow == INSTANCE SnapshotFlow WITH runs <- sRuns, shown <- sShown

\* The clock and the deltas of the simulation, and that an empty optional is no
\* tick's time and no snapshot.
ASSUME FlowSettings == Flow!SettingsAssumption
ASSUME NoneAssumption == None \notin Nat /\ None \notin Flow!Snapshot

flowVars == <<now, sRuns, simulation, accumulator, origin, tick, tickTime, timeline, sampled,
              mailbox, renderer, started, previous, current, sShown>>

MCInit == machine \in {"input", "snapshots"} /\ PInit /\ Flow!Init
MCNext ==
    /\ UNCHANGED machine
    /\ \/ machine = "input" /\ PNext /\ UNCHANGED flowVars
       \/ machine = "snapshots" /\ Flow!Next /\ UNCHANGED allVars
MCSpec == MCInit /\ [][MCNext]_<<machine, allVars, flowVars>>

\* The bound: the last two events are there for the second overflow.
LastForOverflow == sequence >= MaxEvents - 1 => recoveryGeneration > 0

KeySymmetry == Permutations(Keys)

\* Snapshots are of ticks at multiples of the delta, of one timeline at a
\* time, and the history blends two of the same, the older first.
TimelineSound == Flow!TimelineSound

\* The time on the screen never runs backward.
ShownForward == Flow!ShownForward
=============================================================================
