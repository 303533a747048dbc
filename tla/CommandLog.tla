----------------------------- MODULE CommandLog -----------------------------
(***************************************************************************)
(* What App promises about the commands submitted to it: an accepted       *)
(* command gets exactly one outcome, applied or discarded; outcomes are    *)
(* given in the order of acceptance; every accepted command gets one.      *)
(* Which thread does what, the queue and the wakeups do not appear here;   *)
(* AppLifecycle is shown to implement this.                                *)
(***************************************************************************)
EXTENDS Naturals, Sequences

CONSTANT MaxCommands    \* bound: number of commands ever accepted

VARIABLE outcome        \* the fate of each accepted command, in order

Outcomes == {"Pending", "Applied", "Discarded"}

\* The oldest commands have their outcome, the newest wait for theirs.
Resolved == {k \in DOMAIN outcome : outcome[k] # "Pending"}

Init == outcome = <<>>

Accept ==
    /\ Len(outcome) < MaxCommands
    /\ outcome' = Append(outcome, "Pending")

Apply ==
    \E k \in DOMAIN outcome :
        /\ outcome[k] = "Pending"
        /\ 1 .. k - 1 \subseteq Resolved
        /\ outcome' = [outcome EXCEPT ![k] = "Applied"]

\* All the commands up to some point are discarded together.
Discard ==
    \E k \in DOMAIN outcome :
        outcome' = [j \in DOMAIN outcome |->
                      IF j <= k /\ j \notin Resolved THEN "Discarded" ELSE outcome[j]]

Next == Accept \/ Apply \/ Discard

SafeSpec == Init /\ [][Next]_outcome
\* Pending commands eventually get their outcome.
Spec == SafeSpec /\ WF_outcome(Apply \/ Discard)
=============================================================================
