---------------------------- MODULE BatchBarrier ----------------------------
(***************************************************************************)
(* What the job system promises the rest of the engine: work is submitted  *)
(* in batches, every accepted task runs, wait(batch) comes back only when  *)
(* the whole batch has run, and shutdown() comes back only when everything *)
(* accepted before it has run.  Queues, workers, locks and condition       *)
(* variables do not appear here; JobSystem is shown to implement this.     *)
(***************************************************************************)
EXTENDS Naturals, Sequences

CONSTANTS
    Callers,       \* threads that submit, wait and shut down
    MaxBatches,    \* bound: number of batches ever submitted
    MaxTasks       \* bound: tasks in one batch

VARIABLES
    batchSize,     \* sequence: the number of tasks of each accepted batch
    done,          \* the tasks that have run, as <<batch, index>>
    accepting,     \* is new work still accepted?
    caller,        \* what each caller is doing
    batch          \* the batch each caller submitted or waits for, 0 for none

vars == <<batchSize, done, accepting, caller, batch>>

CallerStates == {"Idle", "Waiting", "Released", "Stopping", "Stopped"}

Tasks(b) == {b} \X (1 .. batchSize[b])
AllTasks == UNION {Tasks(b) : b \in 1 .. Len(batchSize)}
BatchDone(b) == b # 0 => Tasks(b) \subseteq done

AtRest(c) == caller[c] \in {"Idle", "Released", "Stopped"}

Init ==
    /\ batchSize = <<>>
    /\ done = {}
    /\ accepting = TRUE
    /\ caller = [c \in Callers |-> "Idle"]
    /\ batch = [c \in Callers |-> 0]

\* A batch of n tasks is accepted, from a caller or from inside a task.
Accept(n) ==
    /\ accepting
    /\ Len(batchSize) < MaxBatches
    /\ batchSize' = Append(batchSize, n)
    /\ UNCHANGED <<done, accepting>>

Submit(c, n) ==
    /\ AtRest(c)
    /\ Accept(n)
    /\ batch' = [batch EXCEPT ![c] = Len(batchSize) + 1]
    /\ caller' = [caller EXCEPT ![c] = "Idle"]

NestedSubmit(n) == Accept(n) /\ UNCHANGED <<batch, caller>>

Refuse(c) ==
    /\ AtRest(c)
    /\ ~accepting
    /\ batch' = [batch EXCEPT ![c] = 0]
    /\ caller' = [caller EXCEPT ![c] = "Idle"]
    /\ UNCHANGED <<batchSize, done, accepting>>

Run(t) ==
    /\ t \in AllTasks \ done
    /\ done' = done \cup {t}
    /\ UNCHANGED <<batchSize, accepting, caller, batch>>

BeginWait(c, b) ==
    /\ AtRest(c)
    /\ b \in 0 .. Len(batchSize)
    /\ batch' = [batch EXCEPT ![c] = b]
    /\ caller' = [caller EXCEPT ![c] = IF b = 0 THEN "Released" ELSE "Waiting"]
    /\ UNCHANGED <<batchSize, done, accepting>>

\* The barrier itself.
Release(c) ==
    /\ caller[c] = "Waiting"
    /\ BatchDone(batch[c])
    /\ caller' = [caller EXCEPT ![c] = "Released"]
    /\ UNCHANGED <<batchSize, done, accepting, batch>>

BeginStop(c) ==
    /\ AtRest(c)
    /\ caller' = [caller EXCEPT ![c] = "Stopping"]
    /\ UNCHANGED <<batchSize, done, accepting, batch>>

Close ==
    /\ \E c \in Callers : caller[c] = "Stopping"
    /\ accepting' = FALSE
    /\ UNCHANGED <<batchSize, done, caller, batch>>

\* shutdown() returns: nothing accepted is left to run.
EndStop(c) ==
    /\ caller[c] = "Stopping"
    /\ ~accepting
    /\ AllTasks \subseteq done
    /\ caller' = [caller EXCEPT ![c] = "Stopped"]
    /\ UNCHANGED <<batchSize, done, accepting, batch>>

Next ==
    \/ \E c \in Callers, n \in 1 .. MaxTasks : Submit(c, n)
    \/ \E n \in 1 .. MaxTasks : NestedSubmit(n)
    \/ \E t \in AllTasks : Run(t)
    \/ \E c \in Callers, b \in 0 .. MaxBatches : BeginWait(c, b)
    \/ \E c \in Callers : Refuse(c) \/ Release(c) \/ BeginStop(c) \/ EndStop(c)
    \/ Close

\* Every accepted task runs, a completed barrier opens, a shutdown returns.
Fairness ==
    /\ \A b \in 1 .. MaxBatches, i \in 1 .. MaxTasks : WF_vars(Run(<<b, i>>))
    /\ \A c \in Callers : WF_vars(Release(c)) /\ WF_vars(EndStop(c))

SafeSpec == Init /\ [][Next]_vars
Spec == SafeSpec /\ Fairness
=============================================================================
