------------------------------ MODULE JobSystem ------------------------------
(***************************************************************************)
(* engine/core JobSystem: a pool of workers taking tasks from one queue,   *)
(* submit / wait / shutdown called from any thread, submit also from       *)
(* inside a task.  One step is one critical section of m_mutex (or of      *)
(* m_shutdownMutex, m_registryMutex), one notify_all outside it, or one    *)
(* task body; between two steps every other thread may run.  A condition   *)
(* variable is the set of the threads blocked on it: notify_all sends them *)
(* back to re-test their predicate, and any of them may wake spuriously.   *)
(*                                                                         *)
(* A task that throws reaches TE_CHECK: the process aborts (the behaviour  *)
(* ends) or, under an assert handler that declines, the worker continues   *)
(* as if the task had returned.  Neither needs a step of its own.          *)
(***************************************************************************)
EXTENDS Naturals, Sequences, FiniteSets, Functions

CONSTANTS
    Workers,       \* the pool threads
    Callers,       \* every other thread that uses the pool
    Owner,         \* the caller that constructs the pool
    NoThread,      \* m_shutdownMutex is free
    NoTask,        \* a worker's hands are empty
    MaxBatches,    \* bound: number of batches ever submitted
    MaxTasks       \* bound: number of tasks ever submitted

Threads == Workers \cup Callers

ASSUME ThreadsAssumption ==
    /\ IsFiniteSet(Workers) /\ Workers # {}
    /\ Owner \in Callers
    /\ Workers \cap Callers = {}
    /\ NoThread \notin Callers
ASSUME BoundsAssumption == MaxBatches \in Nat /\ MaxTasks \in Nat
ASSUME NoTaskAssumption == NoTask \notin Nat \X Nat

VARIABLES
    built,             \* the constructor has returned normally
    running,           \* m_running
    queue,             \* m_queue: the tasks not taken yet, as <<batch, index>>
    pendingBatches,    \* m_pendingBatches: batch id -> tasks not accounted for
    nextBatchId,       \* m_nextBatchId
    registered,        \* the pool workers in m_registeredThreads
    shutdownMutex,     \* the caller that holds m_shutdownMutex, or NoThread
    pc,                \* where each thread is
    hand,              \* the task each worker has taken, or NoTask
    batch,             \* the BatchId each thread last got or passed, 0 invalid
    batchSize,         \* history: the size of each accepted batch
    ran                \* history: the tasks whose body has finished

poolVars == <<queue, pendingBatches, nextBatchId, batchSize>>
vars == <<built, running, queue, pendingBatches, nextBatchId, registered,
          shutdownMutex, pc, hand, batch, batchSize, ran>>

WorkerStates == {"Unborn", "Starting", "Take", "BlockedWork", "Running",
                 "Account", "NotifyBatch", "Unregister", "Exited"}
CallerStates == {"Construct", "Free", "Returned", "Stop", "NotifyStop",
                 "Join", "Stopped"}
CallStates == {"NotifyWork", "WaitBatch", "BlockedBatch"}   \* inside submit, wait

Tasks(b) == {b} \X (1 .. batchSize[b])
AllTasks == UNION {Tasks(b) : b \in 1 .. Len(batchSize)}
Held == {hand[w] : w \in Workers} \ {NoTask}
Queued == Range(queue)

Goto(t, label) == pc' = [pc EXCEPT ![t] = label]
\* notify_all on the condition variable whose blocked threads are at `from`.
NotifyAll(from, to, t, label) ==
    pc' = [u \in Threads |-> IF u = t THEN label
                             ELSE IF pc[u] = from THEN to ELSE pc[u]]

\* Mutant: the refusal is forgotten.
isWorkerThreadMutant(t) == FALSE
isWorkerThread(t) == t \in registered

\* A caller between two calls, or a worker inside a task.
CanCall(t) ==
    /\ built
    /\ pc[t] \in {"Free", "Returned", "Stopped", "Running"}
\* Where a call returns to.
Back(t, label) == IF t \in Workers THEN "Running" ELSE label

PcOK ==
    /\ pc \in [Threads -> WorkerStates \cup CallerStates \cup CallStates]
    /\ \A w \in Workers : pc[w] \in WorkerStates \cup CallStates
    /\ \A c \in Callers : pc[c] \in CallerStates \cup CallStates

TypeOK ==
    /\ built \in BOOLEAN
    /\ running \in BOOLEAN
    /\ batchSize \in Seq(Nat \ {0})
    /\ nextBatchId = Len(batchSize) + 1
    /\ queue \in Seq(Nat \X Nat)
    /\ DOMAIN pendingBatches \subseteq 1 .. Len(batchSize)
    /\ pendingBatches \in [DOMAIN pendingBatches -> Nat]
    /\ registered \subseteq Workers
    /\ shutdownMutex \in Callers \cup {NoThread}
    /\ PcOK
    /\ hand \in [Workers -> (Nat \X Nat) \cup {NoTask}]
    /\ batch \in [Threads -> 0 .. Len(batchSize)]
    /\ ran \subseteq Nat \X Nat

Init ==
    /\ built = FALSE
    /\ running = TRUE
    /\ queue = <<>>
    /\ pendingBatches = [b \in {} |-> 0]
    /\ nextBatchId = 1
    /\ registered = {}
    /\ shutdownMutex = NoThread
    /\ pc = [t \in Threads |-> IF t \in Workers THEN "Unborn"
                               ELSE IF t = Owner THEN "Construct" ELSE "Free"]
    /\ hand = [w \in Workers |-> NoTask]
    /\ batch = [t \in Threads |-> 0]
    /\ batchSize = <<>>
    /\ ran = {}

(***************************************************************************)
(* Construction: one worker at a time, each registered before the next one *)
(* is created; a worker that cannot register is joined and the workers     *)
(* that did start are shut down before the constructor rethrows.           *)
(***************************************************************************)

CreateWorker(w) ==
    /\ pc[Owner] = "Construct"
    /\ pc[w] = "Unborn"
    /\ \A v \in Workers : pc[v] # "Starting"
    /\ Goto(w, "Starting")
    /\ UNCHANGED <<built, running, poolVars, registered, shutdownMutex, hand,
                   batch, ran>>

Register(w) ==
    /\ pc[w] = "Starting"
    /\ registered' = registered \cup {w}
    /\ Goto(w, "Take")
    /\ UNCHANGED <<built, running, poolVars, shutdownMutex, hand, batch, ran>>

RegisterFails(w) ==
    /\ pc[w] = "Starting"
    /\ pc' = [pc EXCEPT ![w] = "Exited", ![Owner] = "Stop"]
    /\ UNCHANGED <<built, running, poolVars, registered, shutdownMutex, hand,
                   batch, ran>>

FinishConstruction ==
    /\ pc[Owner] = "Construct"
    /\ \A w \in Workers : pc[w] \notin {"Unborn", "Starting"}
    /\ built' = TRUE
    /\ Goto(Owner, "Free")
    /\ UNCHANGED <<running, poolVars, registered, shutdownMutex, hand, batch, ran>>

(***************************************************************************)
(* workerMain                                                              *)
(***************************************************************************)

\* Mutant: the front is read, the back is popped.
TakeTaskMutant(w) ==
    /\ pc[w] = "Take"
    /\ queue # <<>>
    /\ hand' = [hand EXCEPT ![w] = Head(queue)]
    /\ queue' = SubSeq(queue, 1, Len(queue) - 1)
    /\ Goto(w, "Running")
    /\ UNCHANGED <<built, running, pendingBatches, nextBatchId, batchSize,
                   registered, shutdownMutex, batch, ran>>

\* Mutant: a stack instead of a queue.
TakeTaskLifo(w) ==
    /\ pc[w] = "Take"
    /\ queue # <<>>
    /\ hand' = [hand EXCEPT ![w] = queue[Len(queue)]]
    /\ queue' = SubSeq(queue, 1, Len(queue) - 1)
    /\ Goto(w, "Running")
    /\ UNCHANGED <<built, running, pendingBatches, nextBatchId, batchSize,
                   registered, shutdownMutex, batch, ran>>

TakeTask(w) ==
    /\ pc[w] = "Take"
    /\ queue # <<>>
    /\ hand' = [hand EXCEPT ![w] = Head(queue)]
    /\ queue' = Tail(queue)
    /\ Goto(w, "Running")
    /\ UNCHANGED <<built, running, pendingBatches, nextBatchId, batchSize,
                   registered, shutdownMutex, batch, ran>>

\* The predicate is false: the worker releases m_mutex and blocks in one step.
BlockForWork(w) ==
    /\ pc[w] = "Take"
    /\ queue = <<>> /\ running
    /\ Goto(w, "BlockedWork")
    /\ UNCHANGED <<built, running, poolVars, registered, shutdownMutex, hand,
                   batch, ran>>

\* Mutant: a stopping pool drops what is queued.
LeaveLoopMutant(w) ==
    /\ pc[w] = "Take"
    /\ ~running
    /\ Goto(w, "Unregister")
    /\ UNCHANGED <<built, running, poolVars, registered, shutdownMutex, hand,
                   batch, ran>>

LeaveLoop(w) ==
    /\ pc[w] = "Take"
    /\ queue = <<>> /\ ~running
    /\ Goto(w, "Unregister")
    /\ UNCHANGED <<built, running, poolVars, registered, shutdownMutex, hand,
                   batch, ran>>

\* The task body, run outside the lock, ends.
FinishTask(w) ==
    /\ pc[w] = "Running"
    /\ ran' = ran \cup {hand[w]}
    /\ Goto(w, "Account")
    /\ UNCHANGED <<built, running, poolVars, registered, shutdownMutex, hand, batch>>

\* Mutant: the batch leaves the map one task early.
CountDownMutant(pending, b) ==
    IF b \notin DOMAIN pending THEN pending
    ELSE IF pending[b] <= 2
         THEN [d \in DOMAIN pending \ {b} |-> pending[d]]
         ELSE [pending EXCEPT ![b] = @ - 1]

\* One task fewer in a batch; the batch leaves the map with its last task.
CountDown(pending, b) ==
    IF b \notin DOMAIN pending THEN pending
    ELSE IF pending[b] = 1
         THEN [d \in DOMAIN pending \ {b} |-> pending[d]]
         ELSE [pending EXCEPT ![b] = @ - 1]

AccountTask(w) ==
    LET b == hand[w][1] IN
    /\ pc[w] = "Account"
    /\ pendingBatches' = CountDown(pendingBatches, b)
    /\ hand' = [hand EXCEPT ![w] = NoTask]
    /\ Goto(w, IF b \in DOMAIN pendingBatches \ DOMAIN pendingBatches'
               THEN "NotifyBatch" ELSE "Take")
    /\ UNCHANGED <<built, running, queue, nextBatchId, batchSize, registered,
                   shutdownMutex, batch, ran>>

\* Mutant: notify_one, where several threads may wait for the batch.
NotifyBatchCompleteMutant(w) ==
    /\ pc[w] = "NotifyBatch"
    /\ \E c \in Callers \cup {w} :
        /\ c = w => \A d \in Callers : pc[d] # "BlockedBatch"
        /\ c # w => pc[c] = "BlockedBatch"
        /\ pc' = [pc EXCEPT ![c] = "WaitBatch", ![w] = "Take"]
    /\ UNCHANGED <<built, running, poolVars, registered, shutdownMutex, hand,
                   batch, ran>>

NotifyBatchComplete(w) ==
    /\ pc[w] = "NotifyBatch"
    /\ NotifyAll("BlockedBatch", "WaitBatch", w, "Take")
    /\ UNCHANGED <<built, running, poolVars, registered, shutdownMutex, hand,
                   batch, ran>>

\* Mutant: the registration outlives its thread.
UnregisterMutant(w) ==
    /\ pc[w] = "Unregister"
    /\ Goto(w, "Exited")
    /\ UNCHANGED <<built, running, poolVars, registered, shutdownMutex, hand,
                   batch, ran>>

Unregister(w) ==
    /\ pc[w] = "Unregister"
    /\ registered' = registered \ {w}
    /\ Goto(w, "Exited")
    /\ UNCHANGED <<built, running, poolVars, shutdownMutex, hand, batch, ran>>

(***************************************************************************)
(* submit                                                                  *)
(***************************************************************************)

SubmitAccepted(t, n) ==
    /\ CanCall(t)
    /\ running
    /\ nextBatchId <= MaxBatches
    /\ Cardinality(AllTasks) + n <= MaxTasks
    /\ batch' = [batch EXCEPT ![t] = nextBatchId]
    /\ nextBatchId' = nextBatchId + 1
    /\ pendingBatches' = [b \in DOMAIN pendingBatches \cup {nextBatchId} |->
                            IF b = nextBatchId THEN n ELSE pendingBatches[b]]
    /\ queue' = queue \o [i \in 1 .. n |-> <<nextBatchId, i>>]
    /\ batchSize' = Append(batchSize, n)
    /\ Goto(t, "NotifyWork")
    /\ UNCHANGED <<built, running, registered, shutdownMutex, hand, ran>>

SubmitRefused(t) ==
    /\ CanCall(t)
    /\ ~running
    /\ batch' = [batch EXCEPT ![t] = 0]
    /\ Goto(t, Back(t, "Free"))
    /\ UNCHANGED <<built, running, poolVars, registered, shutdownMutex, hand, ran>>

NotifyWorkAvailable(t) ==
    /\ pc[t] = "NotifyWork"
    /\ NotifyAll("BlockedWork", "Take", t, Back(t, "Free"))
    /\ UNCHANGED <<built, running, poolVars, registered, shutdownMutex, hand,
                   batch, ran>>

(***************************************************************************)
(* wait                                                                    *)
(***************************************************************************)

\* Mutant: an id that was never given out is waited for.
WaitMutant(t, b) ==
    /\ CanCall(t)
    /\ b <= nextBatchId
    /\ batch' = [batch EXCEPT ![t] = b]
    /\ Goto(t, IF b = 0 \/ isWorkerThread(t) THEN Back(t, "Returned")
               ELSE "WaitBatch")
    /\ UNCHANGED <<built, running, poolVars, registered, shutdownMutex, hand, ran>>

Wait(t, b) ==
    /\ CanCall(t)
    /\ b < nextBatchId
    /\ batch' = [batch EXCEPT ![t] = b]
    /\ Goto(t, IF b = 0 \/ isWorkerThread(t) THEN Back(t, "Returned")
               ELSE "WaitBatch")
    /\ UNCHANGED <<built, running, poolVars, registered, shutdownMutex, hand, ran>>

TestBatch(t) ==
    /\ pc[t] = "WaitBatch"
    /\ Goto(t, IF batch[t] \in DOMAIN pendingBatches THEN "BlockedBatch"
               ELSE Back(t, "Returned"))
    /\ UNCHANGED <<built, running, poolVars, registered, shutdownMutex, hand,
                   batch, ran>>

SpuriousWakeup(t) ==
    /\ pc[t] \in {"BlockedWork", "BlockedBatch"}
    /\ Goto(t, IF pc[t] = "BlockedWork" THEN "Take" ELSE "WaitBatch")
    /\ UNCHANGED <<built, running, poolVars, registered, shutdownMutex, hand,
                   batch, ran>>

(***************************************************************************)
(* shutdown: m_shutdownMutex is held until every worker has been joined.   *)
(***************************************************************************)

CallShutdown(c) ==
    /\ CanCall(c)
    /\ Goto(c, "Stop")
    /\ UNCHANGED <<built, running, poolVars, registered, shutdownMutex, hand,
                   batch, ran>>

StopRunning(c) ==
    /\ pc[c] = "Stop"
    /\ shutdownMutex = NoThread
    /\ running
    /\ shutdownMutex' = c
    /\ running' = FALSE
    /\ Goto(c, "NotifyStop")
    /\ UNCHANGED <<built, poolVars, registered, hand, batch, ran>>

\* Mutant: shutdown without m_shutdownMutex.
AlreadyStoppedMutant(c) ==
    /\ pc[c] = "Stop"
    /\ ~running
    /\ Goto(c, "Stopped")
    /\ UNCHANGED <<built, running, poolVars, registered, shutdownMutex, hand,
                   batch, ran>>

AlreadyStopped(c) ==
    /\ pc[c] = "Stop"
    /\ shutdownMutex = NoThread
    /\ ~running
    /\ Goto(c, "Stopped")
    /\ UNCHANGED <<built, running, poolVars, registered, shutdownMutex, hand,
                   batch, ran>>

\* Mutant: the blocked workers are not told.
NotifyStopMutant(c) ==
    /\ pc[c] = "NotifyStop"
    /\ Goto(c, "Join")
    /\ UNCHANGED <<built, running, poolVars, registered, shutdownMutex, hand,
                   batch, ran>>

NotifyStop(c) ==
    /\ pc[c] = "NotifyStop"
    /\ NotifyAll("BlockedWork", "Take", c, "Join")
    /\ UNCHANGED <<built, running, poolVars, registered, shutdownMutex, hand,
                   batch, ran>>

JoinWorkers(c) ==
    /\ pc[c] = "Join"
    /\ \A w \in Workers : pc[w] \in {"Unborn", "Exited"}
    /\ shutdownMutex' = NoThread
    /\ Goto(c, "Stopped")
    /\ UNCHANGED <<built, running, poolVars, registered, hand, batch, ran>>

-----------------------------------------------------------------------------

Construction ==
    \/ \E w \in Workers : CreateWorker(w) \/ Register(w) \/ RegisterFails(w)
    \/ FinishConstruction

WorkerStep(w) ==
    \/ TakeTask(w)
    \/ BlockForWork(w)
    \/ LeaveLoop(w)
    \/ FinishTask(w)
    \/ AccountTask(w)
    \/ NotifyBatchComplete(w)
    \/ Unregister(w)

\* The rest of a call that has begun.
CallStep(t) == NotifyWorkAvailable(t) \/ TestBatch(t)
ShutdownStep(c) ==
    \/ StopRunning(c)
    \/ AlreadyStopped(c)
    \/ NotifyStop(c)
    \/ JoinWorkers(c)

BeginCall(t) ==
    \/ \E n \in 1 .. MaxTasks : SubmitAccepted(t, n)
    \/ SubmitRefused(t)
    \/ \E b \in 0 .. MaxBatches : Wait(t, b)

Next ==
    \/ Construction
    \/ \E w \in Workers : WorkerStep(w)
    \/ \E t \in Threads : BeginCall(t) \/ CallStep(t) \/ SpuriousWakeup(t)
    \/ \E c \in Callers : CallShutdown(c) \/ ShutdownStep(c)

(***************************************************************************)
(* A runnable thread is eventually scheduled and tasks terminate; whether  *)
(* a thread calls anything is its own affair.  m_shutdownMutex is released *)
(* for good after the one shutdown that joins, so weak fairness is enough  *)
(* to acquire it.                                                          *)
(***************************************************************************)
Fairness ==
    /\ WF_vars(Construction)
    /\ \A w \in Workers : WF_vars(WorkerStep(w))
    /\ \A t \in Threads : WF_vars(CallStep(t))
    /\ \A c \in Callers : WF_vars(ShutdownStep(c))

SafeSpec == Init /\ [][Next]_vars
Spec == SafeSpec /\ Fairness
-----------------------------------------------------------------------------

\* The tasks whose batch has already been counted down for them.
Accounted == ran \ Held
Unaccounted(b) == Tasks(b) \ Accounted

(***************************************************************************)
(* A batch's counter is exactly the number of its tasks that some worker   *)
(* has yet to account for, whether queued or in a worker's hands, and only *)
(* finished batches are out of the map (JobSystem.cpp submit, workerMain). *)
(***************************************************************************)
PendingAccounting ==
    \A b \in 1 .. Len(batchSize) :
        IF b \in DOMAIN pendingBatches
        THEN pendingBatches[b] = Cardinality(Unaccounted(b)) /\ pendingBatches[b] > 0
        ELSE Unaccounted(b) = {}

(***************************************************************************)
(* wait(batch) on a thread outside the pool returns only after every task  *)
(* of the batch has run, whichever workers ran them and however the        *)
(* notifications and the re-tests interleave.                              *)
(***************************************************************************)
BarrierHolds ==
    \A c \in Callers : pc[c] = "Returned" /\ batch[c] # 0 => Tasks(batch[c]) \subseteq ran

(***************************************************************************)
(* No task is lost, duplicated or run a second time on the way from submit *)
(* to a worker: each accepted task is in one place only - once in the      *)
(* queue, in one worker's hands, or accounted for.                         *)
(***************************************************************************)
InOnePlace ==
    /\ AllTasks = Queued \cup Held \cup Accounted
    /\ IsInjective(queue)
    /\ \A v, w \in Workers : hand[v] = hand[w] /\ hand[v] # NoTask => v = w
    /\ Queued \cap (Held \cup ran) = {}
EachTaskOnce ==
    /\ InOnePlace
    /\ \A w \in Workers : pc[w] = "Running" => hand[w] \notin ran

(***************************************************************************)
(* Tasks are started in the order they were submitted: all that is still   *)
(* queued comes, batch by batch and index by index, after all that was     *)
(* taken.                                                                  *)
(***************************************************************************)
Earlier(s, t) == s[1] < t[1] \/ (s[1] = t[1] /\ s[2] < t[2])
SubmissionOrder ==
    /\ \A i, j \in 1 .. Len(queue) : i < j => Earlier(queue[i], queue[j])
    /\ \A s \in Held \cup ran, t \in Queued : Earlier(s, t)

(***************************************************************************)
(* Every accepted task is handed to one worker, once, in the order of      *)
(* submission.                                                             *)
(***************************************************************************)
EachTaskOnceInOrder == EachTaskOnce /\ SubmissionOrder

(***************************************************************************)
(* When a shutdown() has returned to any caller - also to one that only    *)
(* found the pool already stopping - no accepted task is left unrun, no    *)
(* batch is pending, and no worker is running or registered.               *)
(***************************************************************************)
Drained ==
    /\ queue = <<>>
    /\ DOMAIN pendingBatches = {}
    /\ AllTasks \subseteq ran
    /\ registered = {}
ShutdownDrains ==
    \A c \in Callers : pc[c] = "Stopped" => Drained

(***************************************************************************)
(* A pool worker inside a task never waits for a batch, so a batch never   *)
(* waits for a worker that waits for it: wait() refuses registered workers.*)
(***************************************************************************)
WorkersNeverWait ==
    \A w \in Workers : pc[w] \notin {"WaitBatch", "BlockedBatch"}

(***************************************************************************)
(* The inductive invariant: besides the properties above, what a worker    *)
(* holds, when it is registered, how far construction is, and that workers *)
(* leave only a stopped, empty pool.                                       *)
(***************************************************************************)
HandInv ==
    \A w \in Workers :
        /\ hand[w] # NoTask <=> pc[w] \in {"Running", "NotifyWork", "Account"}
        /\ pc[w] \in {"Running", "NotifyWork"} => hand[w] \notin ran
        /\ pc[w] = "Account" => hand[w] \in ran
RegistryInv ==
    \A w \in Workers :
        w \in registered <=> pc[w] \notin {"Unborn", "Starting", "Exited"}
ConstructionInv ==
    /\ built => \A w \in Workers : pc[w] \notin {"Unborn", "Starting"}
    /\ ~built => /\ batchSize = <<>>
                 /\ pc[Owner] \notin {"Free", "Returned"} \cup CallStates
                 /\ \A c \in Callers \ {Owner} : pc[c] = "Free"
    /\ pc[Owner] = "Construct" =>
            /\ ~built
            /\ running
            /\ \A w \in Workers : pc[w] \notin {"Unregister", "Exited"}
    /\ \A w \in Workers : pc[w] = "Starting" =>
            pc[Owner] = "Construct" /\ \A v \in Workers : pc[v] = "Starting" => v = w
StopInv ==
    /\ \A c \in Callers : pc[c] \in {"NotifyStop", "Join"} <=> shutdownMutex = c
    /\ shutdownMutex # NoThread => ~running
    /\ \A w \in Workers :
        built /\ pc[w] \in {"Unregister", "Exited"} => queue = <<>> /\ ~running
    /\ ~running /\ shutdownMutex = NoThread =>
            \A w \in Workers : pc[w] \in {"Unborn", "Exited"}
    /\ \A c \in Callers : pc[c] = "Stopped" =>
            ~running /\ \A w \in Workers : pc[w] \in {"Unborn", "Exited"}

IInv ==
    /\ TypeOK
    /\ HandInv
    /\ RegistryInv
    /\ ConstructionInv
    /\ StopInv
    /\ InOnePlace
    /\ PendingAccounting
    /\ BarrierHolds
    /\ WorkersNeverWait

(***************************************************************************)
(* The pool implements BatchBarrier: its queue, counters and wakeups are   *)
(* hidden, its tasks and barriers are the abstract ones, and every         *)
(* accepted task eventually runs.                                          *)
(***************************************************************************)
AbstractCaller(c) ==
    CASE pc[c] \in {"WaitBatch", "BlockedBatch"} -> "Waiting"
      [] pc[c] = "Returned" -> "Released"
      [] pc[c] \in {"Stop", "NotifyStop", "Join"} -> "Stopping"
      [] pc[c] = "Stopped" -> "Stopped"
      [] OTHER -> "Idle"

Barrier == INSTANCE BatchBarrier WITH
    done <- ran, accepting <- running,
    caller <- [c \in Callers |-> AbstractCaller(c)],
    batch <- [c \in Callers |-> batch[c]]

ImplementsBarrier == Barrier!Spec
=============================================================================
