----------------------------- MODULE MCSchedule -----------------------------
(***************************************************************************)
(* A schedule from end to end, for TLC: TaskGraph orders the systems once  *)
(* and for all, and the ticks of TickBarrier follow.  The executor keeps   *)
(* nothing of the graph but an order of its systems, so the ticks follow   *)
(* one of the graphs only, which stands for all of them.                   *)
(***************************************************************************)
EXTENDS TaskGraph, TickBounds

VARIABLES running, ended, inTick, ticks, barriers, buffers, kept, handed, scene,
          meant, visible, staging, published

Tick == INSTANCE TickBarrier

tickVars == <<running, ended, inTick, ticks, barriers, buffers, kept, handed, scene,
              meant, visible, staging, published>>

\* The finished graph of systems that nothing orders.
Ordered ==
    /\ reads = [s \in System |-> {}] /\ writes = reads
    /\ priority = [s \in System |-> 0]
    /\ terminal = {} /\ before = {}
    /\ edges = reads
    /\ indegree = [s \in System |-> 0]
    /\ processed = System /\ levels = <<System>>
    /\ phase = "built"
    /\ state = [s \in System |-> "new"] /\ path = <<>> /\ cycle = <<>>

MCInit == Init /\ Tick!Init

MCNext ==
    \/ Next /\ UNCHANGED tickVars
    \/ Ordered /\ Tick!Next /\ UNCHANGED vars

MCSpec == MCInit /\ [][MCNext]_<<vars, tickVars>> /\ WF_vars(Next)

\* The properties of TickBarrier.
TickSound == Tick!TickSound
AsIfImmediate == Tick!AsIfImmediate
EventsOneTickLater == Tick!EventsOneTickLater
=============================================================================
