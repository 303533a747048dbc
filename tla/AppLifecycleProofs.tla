------------------------- MODULE AppLifecycleProofs -------------------------
(***************************************************************************)
(* For any number of client and submitting threads, commands and runs: a   *)
(* run ends with nothing left over and the right result, its simulation    *)
(* thread enclosed in it; a command accepted after a stop has returned is  *)
(* never applied; and commands get their outcome as CommandLog promises.   *)
(***************************************************************************)
EXTENDS AppLifecycle, SequenceTheorems, TLAPS

(***************************************************************************)
(* The commands: what the actions that touch the queue, the batch or an    *)
(* outcome do to the order of acceptance.                                  *)
(***************************************************************************)

\* The outcomes of commands.
Fates == {"Pending", "Applied", "Discarded"}

\* Discarding changes the outcome of the commands it is given, of no other.
LEMMA DiscardedOnes ==
  ASSUME outcome \in Seq(Fates), NEW cs \in Seq(Nat), Discarding(cs)
  PROVE  /\ outcome' \in Seq(Fates) /\ Len(outcome') = Len(outcome)
         /\ \A k \in 1 .. Len(outcome) :
              outcome'[k] = IF \E i \in 1 .. Len(cs) : cs[i] = k THEN "Discarded" ELSE outcome[k]
<1>1. DOMAIN cs = 1 .. Len(cs) /\ DOMAIN outcome = 1 .. Len(outcome) /\ Len(outcome) \in Nat
  BY LenProperties
<1>2. \A k \in 1 .. Len(outcome) : outcome[k] \in Fates
  BY ElementOfSeq
<1>3. outcome' = [k \in 1 .. Len(outcome) |->
                    IF \E i \in 1 .. Len(cs) : cs[i] = k THEN "Discarded" ELSE outcome[k]]
  BY <1>1 DEF Discarding
<1>4. outcome' \in Seq(Fates) /\ Len(outcome') = Len(outcome)
  BY <1>1, <1>2, <1>3 DEF Fates
<1> QED  BY <1>3, <1>4

\* The commands without an outcome are those of the batch and the queue.
LEMMA QueueLengths ==
  ASSUME CommandsInOrder
  PROVE  /\ Len(outcome) \in Nat /\ Len(batch) \in Nat /\ Len(queue) \in Nat
         /\ Settled \in Nat /\ Len(outcome) = Settled + Len(batch) + Len(queue)
         /\ batch = <<>> <=> Len(batch) = 0
         /\ queue = <<>> <=> Len(queue) = 0
<1>1. Len(outcome) \in Nat /\ Len(batch) \in Nat /\ Len(queue) \in Nat
  BY LenProperties DEF CommandsInOrder
<1>2. /\ batch = <<>> <=> Len(batch) = 0
      /\ queue = <<>> <=> Len(queue) = 0
  BY EmptySeq DEF CommandsInOrder
<1> QED  BY <1>1, <1>2 DEF CommandsInOrder, Settled

\* The batch and then the queue hold the pending commands, oldest first.
LEMMA QueueNumbers ==
  ASSUME CommandsInOrder
  PROVE  /\ \A i \in 1 .. Len(batch) : batch[i] = Settled + i
         /\ \A i \in 1 .. Len(queue) : queue[i] = Settled + Len(batch) + i
         /\ \A k \in 1 .. Len(outcome) : outcome[k] = "Pending" <=> k > Settled
BY DEF CommandsInOrder

\* A new command is the last of all.
LEMMA SubmitOrder ==
  ASSUME ThreadsInPlace, CommandsInOrder, NEW s \in Submitters, SubmitAccepted(s)
  PROVE  CommandsInOrder'
<1> DEFINE n == Len(outcome)
<1>1. outcome' = Append(outcome, "Pending") /\ queue' = Append(queue, n + 1)
      /\ UNCHANGED <<batch, closed>> /\ ~closed /\ Len(queue) < Capacity
  BY DEF SubmitAccepted, HasRoom
<1>2. pc'[Sim] = pc[Sim]
  BY ThreadsAssumption DEF SubmitAccepted, ThreadsInPlace, Goto
<1>3. /\ outcome' \in Seq(Fates) /\ Len(outcome') = n + 1
      /\ \A k \in 1 .. n : outcome'[k] = outcome[k]
      /\ outcome'[n + 1] = "Pending"
  BY <1>1, AppendProperties DEF CommandsInOrder, Fates
<1>4. /\ queue' \in Seq(Nat) /\ Len(queue') = Len(queue) + 1
      /\ \A i \in 1 .. Len(queue) : queue'[i] = queue[i]
      /\ queue'[Len(queue) + 1] = n + 1
  BY <1>1, QueueLengths, AppendProperties DEF CommandsInOrder
<1>5. Settled' = Settled
  BY <1>1, <1>3, <1>4, QueueLengths DEF Settled
<1>6. \A k \in 1 .. Len(outcome') : outcome'[k] = "Pending" <=> k > Settled'
  BY <1>3, <1>5, QueueLengths, QueueNumbers
<1>7. \A i \in 1 .. Len(queue') : queue'[i] = Settled' + Len(batch') + i
  <2>1. Len(outcome) + 1 = Settled + Len(batch) + (Len(queue) + 1)
    BY QueueLengths
  <2>2. ASSUME NEW i \in 1 .. Len(queue') PROVE i \in 1 .. Len(queue) \/ i = Len(queue) + 1
    BY <1>4, QueueLengths
  <2> QED  BY <1>1, <1>4, <1>5, <2>1, <2>2, QueueNumbers
<1>8. \A i \in 1 .. Len(batch') : batch'[i] = Settled' + i
  BY <1>1, <1>5, QueueNumbers
<1>9. Settled' \in Nat /\ Len(queue') <= Capacity
  BY <1>1, <1>4, <1>5, BoundsAssumption, QueueLengths
<1>10. /\ ~closed' => pc'[Sim] \in OpenSteps
       /\ queue' # <<>> => pc'[Sim] \in OpenSteps \cup {"Drain"}
       /\ batch' # <<>> <=> pc'[Sim] = "Apply"
       /\ batch' \in Seq(Nat)
  BY <1>1, <1>2 DEF CommandsInOrder
<1> QED  BY <1>3, <1>4, <1>6, <1>7, <1>8, <1>9, <1>10 DEF CommandsInOrder, Fates

\* The command applied is the oldest pending one.
LEMMA ApplyOrder ==
  ASSUME ThreadsInPlace, CommandsInOrder, ApplyCommand
  PROVE  /\ CommandsInOrder'
         /\ Settled + 1 \in 1 .. Len(outcome)
         /\ outcome' = [outcome EXCEPT ![Settled + 1] = "Applied"]
<1>1. pc[Sim] = "Apply" /\ batch # <<>> /\ Len(batch) > 0
  BY QueueLengths DEF ApplyCommand, CommandsInOrder
<1>2. Head(batch) = Settled + 1
  BY <1>1, QueueLengths, QueueNumbers
<1>3. /\ batch' \in Seq(Nat) /\ Len(batch') = Len(batch) - 1
      /\ \A i \in 1 .. Len(batch') : batch'[i] = batch[i + 1]
  BY <1>1, HeadTailProperties DEF ApplyCommand, CommandsInOrder
<1>4. outcome' = [outcome EXCEPT ![Settled + 1] = "Applied"] /\ Settled + 1 \in 1 .. Len(outcome)
  <2>1. Settled + 1 \in 1 .. Len(outcome)
    BY <1>1, QueueLengths
  <2> QED  BY <1>2, <2>1 DEF ApplyCommand
<1>5. /\ outcome' \in Seq(Fates) /\ Len(outcome') = Len(outcome)
      /\ \A k \in 1 .. Len(outcome) : outcome'[k] = IF k = Settled + 1 THEN "Applied" ELSE outcome[k]
  BY <1>4, ExceptSeq DEF CommandsInOrder, Fates
<1>6. UNCHANGED <<queue, closed>>
  BY DEF ApplyCommand
<1>7. Settled' = Settled + 1
  BY <1>3, <1>5, <1>6, QueueLengths DEF Settled
<1>8. \A i \in 1 .. Len(batch') : batch'[i] = Settled' + i
  BY <1>3, <1>7, QueueLengths, QueueNumbers
<1>9. \A i \in 1 .. Len(queue') : queue'[i] = Settled' + Len(batch') + i
  BY <1>3, <1>6, <1>7, QueueLengths, QueueNumbers
<1>10. \A k \in 1 .. Len(outcome') : outcome'[k] = "Pending" <=> k > Settled'
  BY <1>5, <1>7, QueueLengths, QueueNumbers
<1>11. pc'[Sim] = IF batch' = <<>> THEN "Edits" ELSE "Apply"
  BY ThreadsAssumption DEF ApplyCommand, ThreadsInPlace, Goto, Threads
<1>12. /\ ~closed' => pc'[Sim] \in OpenSteps
       /\ queue' # <<>> => pc'[Sim] \in OpenSteps \cup {"Drain"}
       /\ batch' # <<>> <=> pc'[Sim] = "Apply"
  BY <1>11 DEF OpenSteps
<1>13. queue' \in Seq(Nat) /\ Len(queue') <= Capacity /\ Settled' \in Nat
  BY <1>6, <1>7, QueueLengths DEF CommandsInOrder
<1>14. CommandsInOrder'
  BY <1>3, <1>5, <1>8, <1>9, <1>10, <1>12, <1>13 DEF CommandsInOrder, Fates
<1> QED  BY <1>4, <1>14

\* A batch that is discarded is the oldest of what is left.
LEMMA ThrowOrder ==
  ASSUME ThreadsInPlace, CommandsInOrder, HookThrows
  PROVE  /\ CommandsInOrder'
         /\ Settled' = Settled + Len(batch) /\ Len(outcome') = Len(outcome)
         /\ \A k \in 1 .. Len(outcome) :
              outcome'[k] = IF k > Settled /\ k <= Settled' THEN "Discarded" ELSE outcome[k]
<1>1. /\ outcome' \in Seq(Fates) /\ Len(outcome') = Len(outcome)
      /\ \A k \in 1 .. Len(outcome) :
           outcome'[k] = IF \E i \in 1 .. Len(batch) : batch[i] = k THEN "Discarded" ELSE outcome[k]
  BY DiscardedOnes DEF HookThrows, CommandsInOrder, Fates
<1>2. batch' = <<>> /\ UNCHANGED <<queue, closed>> /\ Len(batch') = 0 /\ batch' \in Seq(Nat)
  BY EmptySeq DEF HookThrows
<1>3. Settled' = Settled + Len(batch)
  BY <1>1, <1>2, QueueLengths DEF Settled
<1>4. \A k \in 1 .. Len(outcome) : (\E i \in 1 .. Len(batch) : batch[i] = k) <=> k > Settled /\ k <= Settled'
  <2>1. \A i \in 1 .. Len(batch) : batch[i] = Settled + i
    BY QueueNumbers
  <2>2. ASSUME NEW k \in 1 .. Len(outcome), k > Settled, k <= Settled'
        PROVE  k - Settled \in 1 .. Len(batch) /\ batch[k - Settled] = k
    BY <1>3, <2>1, <2>2, QueueLengths
  <2>3. ASSUME NEW k \in 1 .. Len(outcome), NEW i \in 1 .. Len(batch), batch[i] = k
        PROVE  k > Settled /\ k <= Settled'
    BY <1>3, <2>1, <2>3, QueueLengths
  <2> QED  BY <2>2, <2>3
<1>5. \A k \in 1 .. Len(outcome) :
         outcome'[k] = IF k > Settled /\ k <= Settled' THEN "Discarded" ELSE outcome[k]
  BY <1>1, <1>4
<1>6. \A k \in 1 .. Len(outcome') : outcome'[k] = "Pending" <=> k > Settled'
  BY <1>1, <1>3, <1>5, QueueLengths, QueueNumbers
<1>7. \A i \in 1 .. Len(queue') : queue'[i] = Settled' + Len(batch') + i
  BY <1>2, <1>3, QueueLengths, QueueNumbers
<1>8. pc'[Sim] = IF pc[Sim] \in {"SimInit", "SimShutdown"} THEN "Leave" ELSE "Cancel"
  BY ThreadsAssumption DEF HookThrows, ThreadsInPlace, Goto, Threads
<1>9. /\ ~closed' => pc'[Sim] \in OpenSteps
      /\ queue' # <<>> => pc'[Sim] \in OpenSteps \cup {"Drain"}
      /\ batch' # <<>> <=> pc'[Sim] = "Apply"
  <2>1. CASE pc[Sim] \in {"SimInit", "SimShutdown"}
    BY <1>2, <1>8, <2>1 DEF CommandsInOrder, OpenSteps
  <2>2. CASE pc[Sim] \notin {"SimInit", "SimShutdown"}
    BY <1>2, <1>8, <2>2 DEF OpenSteps
  <2> QED  BY <2>1, <2>2
<1>10. Settled' \in Nat
  BY <1>3, QueueLengths
<1>11. \A i \in 1 .. Len(batch') : batch'[i] = Settled' + i
  BY <1>2
<1> QED  BY <1>1, <1>2, <1>3, <1>5, <1>6, <1>7, <1>9, <1>10, <1>11 DEF CommandsInOrder, Fates

\* Once the loop has ended everything that is left is discarded.
LEMMA DrainOrder ==
  ASSUME ThreadsInPlace, CommandsInOrder, DrainCommands
  PROVE  /\ CommandsInOrder'
         /\ Settled' = Len(outcome) /\ Len(outcome') = Len(outcome)
         /\ \A k \in 1 .. Len(outcome) : outcome'[k] = IF k > Settled THEN "Discarded" ELSE outcome[k]
<1>1. /\ outcome' \in Seq(Fates) /\ Len(outcome') = Len(outcome)
      /\ \A k \in 1 .. Len(outcome) :
           outcome'[k] = IF \E i \in 1 .. Len(queue) : queue[i] = k THEN "Discarded" ELSE outcome[k]
  BY DiscardedOnes DEF DrainCommands, CommandsInOrder, Fates
<1>2. queue' = <<>> /\ UNCHANGED <<batch, closed>> /\ Len(queue') = 0 /\ queue' \in Seq(Nat)
  BY EmptySeq DEF DrainCommands
<1>3. pc[Sim] = "Drain" /\ pc'[Sim] = "SimShutdown"
  BY ThreadsAssumption DEF DrainCommands, ThreadsInPlace, Goto, Threads
<1>4. batch = <<>> /\ Len(batch) = 0 /\ closed
  BY <1>3, QueueLengths DEF CommandsInOrder, OpenSteps
<1>5. Settled' = Settled + Len(queue) /\ Settled' = Len(outcome)
  BY <1>1, <1>2, <1>4, QueueLengths DEF Settled
<1>6. \A k \in 1 .. Len(outcome) : (\E i \in 1 .. Len(queue) : queue[i] = k) <=> k > Settled
  <2>1. \A i \in 1 .. Len(queue) : queue[i] = Settled + i
    BY <1>4, QueueLengths, QueueNumbers
  <2>2. ASSUME NEW k \in 1 .. Len(outcome), k > Settled
        PROVE  k - Settled \in 1 .. Len(queue) /\ queue[k - Settled] = k
    <3>1. k - Settled \in 1 .. Len(queue) /\ Settled + (k - Settled) = k
      BY <1>4, <2>2, QueueLengths
    <3> QED  BY <2>1, <3>1
  <2>3. ASSUME NEW k \in 1 .. Len(outcome), NEW i \in 1 .. Len(queue), queue[i] = k
        PROVE  k > Settled
    BY <1>5, <2>1, <2>3, QueueLengths
  <2> QED  BY <2>2, <2>3
<1>7. \A k \in 1 .. Len(outcome) : outcome'[k] = IF k > Settled THEN "Discarded" ELSE outcome[k]
  BY <1>1, <1>6
<1>8. \A k \in 1 .. Len(outcome') : outcome'[k] = "Pending" <=> k > Settled'
  BY <1>1, <1>5, <1>7, QueueLengths, QueueNumbers
<1>9. /\ Settled' \in Nat /\ Len(queue') <= Capacity
      /\ \A i \in 1 .. Len(batch') : batch'[i] = Settled' + i
      /\ \A i \in 1 .. Len(queue') : queue'[i] = Settled' + Len(batch') + i
  BY <1>2, <1>4, <1>5, QueueLengths, BoundsAssumption
<1>10. /\ ~closed' => pc'[Sim] \in OpenSteps
       /\ queue' # <<>> => pc'[Sim] \in OpenSteps \cup {"Drain"}
       /\ batch' # <<>> <=> pc'[Sim] = "Apply"
  BY <1>2, <1>3, <1>4
<1> QED  BY <1>1, <1>2, <1>4, <1>5, <1>7, <1>8, <1>9, <1>10 DEF CommandsInOrder, Fates

\* A command accepted late finds the simulation before its test of the flag.
LEMMA SubmitLate ==
  ASSUME ThreadsInPlace, CommandsInOrder, LateCancelled, NEW s \in Submitters, SubmitAccepted(s)
  PROVE  LateCancelled'
<1> DEFINE n == Len(outcome)
<1>1. /\ ~closed /\ closed' = closed /\ stopped' = stopped
      /\ outcome' = Append(outcome, "Pending")
      /\ late' = IF stopped THEN late \cup {n + 1} ELSE late
  BY DEF SubmitAccepted
<1>2. pc'[Sim] = pc[Sim] /\ \A t \in Threads \ {s} : pc'[t] = pc[t]
  BY ThreadsAssumption DEF SubmitAccepted, ThreadsInPlace, Goto
<1>3. pc'[s] = "SetPending" /\ ret' = ret
  BY DEF SubmitAccepted, ThreadsInPlace, Goto, Threads
<1>4. /\ n \in Nat /\ Len(outcome') = n + 1 /\ outcome'[n + 1] = "Pending"
      /\ \A k \in 1 .. n : outcome'[k] = outcome[k]
  BY <1>1, QueueLengths, AppendProperties DEF CommandsInOrder
<1>5. \A t \in Threads : PastClose(t)' => PastClose(t)
  BY <1>2, <1>3 DEF PastClose, InRequestStop, StopLabels
<1>6. stopped => pc[Sim] \in Untested
  BY <1>1 DEF LateCancelled
<1>7. late \subseteq 1 .. n /\ 1 .. n \subseteq 1 .. n + 1 /\ n + 1 \in 1 .. n + 1
  BY <1>4 DEF LateCancelled
<1>8. \A k \in late' : k \in late \/ (stopped /\ k = n + 1)
  BY <1>1
<1>9. late' \subseteq 1 .. Len(outcome') /\ (late' # {} => stopped')
  <2>1. late' \subseteq 1 .. n + 1
    BY <1>7, <1>8
  <2>2. late' # {} => stopped
    BY <1>8 DEF LateCancelled
  <2> QED  BY <1>1, <1>4, <2>1, <2>2
<1>10. ASSUME NEW k \in late'
      PROVE  \/ outcome'[k] # "Applied" /\ pc'[Sim] \in Untested \cup {"Drain"}
             \/ k \in late /\ outcome'[k] = outcome[k]
  <2>1. CASE k \in late
    BY <1>4, <1>7, <2>1
  <2>2. CASE stopped /\ k = n + 1
    BY <1>2, <1>4, <1>6, <2>2
  <2> QED  BY <1>8, <2>1, <2>2
<1>11. \A k \in late' : outcome'[k] # "Applied"
  BY <1>10 DEF LateCancelled, NeverAppliedLate
<1>12. \A k \in late' : outcome'[k] = "Pending" => pc'[Sim] \in Untested \cup {"Drain"}
  BY <1>2, <1>10 DEF LateCancelled
<1>13. ~closed' /\ (stopped' \/ \E t \in Threads : PastClose(t)') => pc'[Sim] \in Untested
  BY <1>1, <1>2, <1>5 DEF LateCancelled
<1> QED  BY <1>9, <1>11, <1>12, <1>13 DEF LateCancelled, NeverAppliedLate, Untested

\* No late command is left in a batch.
LEMMA ApplyLate ==
  ASSUME ThreadsInPlace, CommandsInOrder, LateCancelled, ApplyCommand
  PROVE  LateCancelled'
<1>1. pc[Sim] = "Apply" /\ UNCHANGED <<closed, stopped, late, ret>>
  BY DEF ApplyCommand
<1>2. \A t \in Threads \ {Sim} : pc'[t] = pc[t]
  BY ThreadsAssumption DEF ApplyCommand, ThreadsInPlace, Goto
<1>3. pc'[Sim] \in {"Edits", "Apply"}
  BY DEF ApplyCommand, ThreadsInPlace, Goto, Threads
<1>4. /\ outcome[Settled + 1] = "Pending" /\ Len(outcome') = Len(outcome)
      /\ \A k \in 1 .. Len(outcome) : k # Settled + 1 => outcome'[k] = outcome[k]
  BY ApplyOrder, QueueNumbers, QueueLengths, ExceptSeq, SMTT(30) DEF CommandsInOrder
<1>5. \A k \in late : k \in 1 .. Len(outcome) /\ outcome[k] # "Pending" /\ outcome[k] # "Applied"
  BY <1>1 DEF LateCancelled, Untested, NeverAppliedLate
<1>6. \A k \in late : outcome'[k] # "Pending" /\ outcome'[k] # "Applied"
  BY <1>4, <1>5
<1>7. \A t \in Threads : PastClose(t)' => PastClose(t)
  BY <1>1, <1>2, <1>3 DEF PastClose, InRequestStop
<1>8. ~(~closed' /\ (stopped' \/ \E t \in Threads : PastClose(t)'))
  BY <1>1, <1>7 DEF LateCancelled, Untested
<1>9. late' \subseteq 1 .. Len(outcome') /\ (late' # {} => stopped')
  BY <1>1, <1>4 DEF LateCancelled
<1> QED  BY <1>1, <1>6, <1>8, <1>9 DEF LateCancelled, NeverAppliedLate

\* What was accepted late is discarded with the rest.
LEMMA DrainLate ==
  ASSUME ThreadsInPlace, CommandsInOrder, LateCancelled, DrainCommands
  PROVE  LateCancelled'
<1>1. pc[Sim] = "Drain" /\ UNCHANGED <<closed, stopped, late, ret>>
  BY DEF DrainCommands
<1>2. closed'
  BY <1>1 DEF CommandsInOrder, OpenSteps
<1>3. /\ Len(outcome') = Len(outcome)
      /\ \A k \in 1 .. Len(outcome) : outcome'[k] = IF k > Settled THEN "Discarded" ELSE outcome[k]
  BY DrainOrder
<1>4. \A k \in late : k \in 1 .. Len(outcome) /\ outcome[k] # "Applied"
  BY DEF LateCancelled, NeverAppliedLate
<1>5. \A k \in late : outcome'[k] # "Pending" /\ outcome'[k] # "Applied"
  BY <1>3, <1>4, QueueNumbers
<1>6. late' \subseteq 1 .. Len(outcome') /\ (late' # {} => stopped')
  BY <1>1, <1>3 DEF LateCancelled
<1> QED  BY <1>1, <1>2, <1>5, <1>6 DEF LateCancelled, NeverAppliedLate

\* Waking the main thread moves no simulation.
LEMMA NotifyMainLate ==
  ASSUME ThreadsInPlace, LateCancelled, NEW t \in Threads \ Submitters, NotifyMain(t)
  PROVE  LateCancelled'
<1>1. UNCHANGED <<closed, stopped, late, ret, outcome>>
  BY DEF NotifyMain, commands
<1>2. \A u \in Threads : pc'[u] \in {"PostEvent", "SetSimStop", "NotifySim"} => pc[u] = pc'[u]
  BY DEF NotifyMain, ThreadsInPlace, GotoWaking
<1>3. pc'[Sim] = pc[Sim] \/ pc[Sim] = "NotifyMain"
  BY ThreadsAssumption DEF NotifyMain, ThreadsInPlace, GotoWaking, Threads
<1>4. pc[Sim] = "NotifyMain" => pc[Sim] \notin Untested \cup {"Drain"}
  BY DEF Untested
<1>5. \A u \in Threads : PastClose(u)' => PastClose(u)
  BY <1>1, <1>2 DEF PastClose, InRequestStop
<1>6. ~closed' /\ (stopped' \/ \E u \in Threads : PastClose(u)') => pc'[Sim] \in Untested
  BY <1>1, <1>3, <1>4, <1>5 DEF LateCancelled
<1>7. \A k \in late' : outcome'[k] = "Pending" => pc'[Sim] \in Untested \cup {"Drain"}
  BY <1>1, <1>3, <1>4 DEF LateCancelled
<1> QED  BY <1>1, <1>6, <1>7 DEF LateCancelled, NeverAppliedLate

-----------------------------------------------------------------------------
(* Each part of the inductive invariant is kept by every action.            *)

\* Every thread goes from one step of its own code to another of it.
LEMMA PlaceStep == ASSUME ThreadsInPlace, ThreadEnclosed, Next PROVE ThreadsInPlace'
<1> USE ThreadsAssumption DEF ThreadsInPlace, ThreadEnclosed, At, Unstarted, Stops, Threads,
        MainLabels, SimLabels, SubmitLabels, StopLabels, vars, config, flags, commands, simState,
        runState, Goto, GotoWaking, Call
<1>1. CASE BeginRun
  BY <1>1 DEF BeginRun
<1>2. CASE InitDone
  BY <1>2 DEF InitDone
<1>3. CASE InitFails
  BY <1>3 DEF InitFails, StoppersJoined
<1>4. CASE FinalizeSimulation
  BY <1>4 DEF FinalizeSimulation
<1>5. CASE MainThrows
  BY <1>5 DEF MainThrows
<1>6. CASE TestStop
  BY <1>6 DEF TestStop
<1>7. CASE ResetSimStop
  BY <1>7 DEF ResetSimStop
<1>8. CASE CreateSimulationThread
  BY <1>8 DEF CreateSimulationThread
<1>9. CASE CreationFails
  BY <1>9 DEF CreationFails
<1>10. CASE AwaitReady
  BY <1>10 DEF AwaitReady
<1>11. CASE MainLoop
  BY <1>11 DEF MainLoop
<1>12. CASE CloseWindow
  BY <1>12 DEF CloseWindow
<1>13. CASE MainUpdate
  BY <1>13 DEF MainUpdate
<1>14. CASE TakeEvent
  BY <1>14 DEF TakeEvent, AfterEvents
<1>15. CASE OtherEvent
  BY <1>15 DEF OtherEvent, AfterEvents
<1>16. CASE SpuriousMainWakeup
  BY <1>16 DEF SpuriousMainWakeup
<1>17. CASE LeaveMainThread
  BY <1>17 DEF LeaveMainThread
<1>18. CASE StopSimulation
  BY <1>18 DEF StopSimulation
<1>19. CASE SetStopToken
  BY <1>19 DEF SetStopToken
<1>20. CASE JoinFailedSimulation
  BY <1>20 DEF JoinFailedSimulation
<1>21. CASE JoinSimulation
  BY <1>21 DEF JoinSimulation, Result
<1>22. CASE Shutdown
  BY <1>22 DEF Shutdown, StoppersJoined
<1>23. CASE HookReturns
  BY <1>23 DEF HookReturns
<1>24. CASE HookThrows
  BY <1>24 DEF HookThrows, Discarding
<1>25. CASE OpenQueue
  BY <1>25 DEF OpenQueue
<1>26. CASE SignalReady
  BY <1>26 DEF SignalReady
<1>27. CASE StartupLoadFails
  BY <1>27 DEF StartupLoadFails
<1>28. CASE SimLoop
  BY <1>28 DEF SimLoop
<1>29. CASE ClearPending
  BY <1>29 DEF ClearPending
<1>30. CASE ConsumeCommands
  BY <1>30 DEF ConsumeCommands
<1>31. CASE ApplyCommand
  BY <1>31 DEF ApplyCommand
<1>32. CASE SimWait
  BY <1>32 DEF SimWait
<1>33. CASE TickDue
  BY <1>33 DEF TickDue
<1>34. CASE SpuriousSimWakeup
  BY <1>34 DEF SpuriousSimWakeup
<1>35. CASE CancelCommands
  BY <1>35 DEF CancelCommands
<1>36. CASE DrainCommands
  BY <1>36 DEF DrainCommands, Discarding
<1>37. CASE LeaveSimulation
  BY <1>37 DEF LeaveSimulation
<1>38. CASE FinishSimulation
  BY <1>38 DEF FinishSimulation
<1>39. ASSUME NEW s \in Submitters, SubmitAccepted(s) PROVE ThreadsInPlace'
  BY <1>39 DEF SubmitAccepted
<1>40. ASSUME NEW s \in Submitters, SubmitRefused(s) PROVE ThreadsInPlace'
  BY <1>40 DEF SubmitRefused
<1>41. ASSUME NEW s \in Submitters, SetCommandsPending(s) PROVE ThreadsInPlace'
  BY <1>41 DEF SetCommandsPending
<1>42. ASSUME NEW s \in Submitters, NotifyCommands(s) PROVE ThreadsInPlace'
  BY <1>42 DEF NotifyCommands
<1>43. ASSUME NEW s \in Stoppers, BeginStop(s) PROVE ThreadsInPlace'
  BY <1>43 DEF BeginStop
<1>44. ASSUME NEW t \in Threads \ Submitters, SetStop(t) PROVE ThreadsInPlace'
  BY <1>44 DEF SetStop
<1>45. ASSUME NEW t \in Threads \ Submitters, NotifyMain(t) PROVE ThreadsInPlace'
  BY <1>45 DEF NotifyMain
<1>46. ASSUME NEW t \in Threads \ Submitters, CloseQueue(t) PROVE ThreadsInPlace'
  BY <1>46 DEF CloseQueue
<1>47. ASSUME NEW t \in Threads \ Submitters, PostEvent(t) PROVE ThreadsInPlace'
  BY <1>47 DEF PostEvent
<1>48. ASSUME NEW t \in Threads \ Submitters, SetSimStop(t) PROVE ThreadsInPlace'
  BY <1>48 DEF SetSimStop
<1>49. ASSUME NEW t \in Threads \ Submitters, NotifySim(t) PROVE ThreadsInPlace'
  BY <1>49 DEF NotifySim
<1> QED  BY <1>1, <1>2, <1>3, <1>4, <1>5, <1>6, <1>7, <1>8, <1>9, <1>10, <1>11, <1>12, <1>13, <1>14,
          <1>15, <1>16, <1>17, <1>18, <1>19, <1>20, <1>21, <1>22, <1>23, <1>24, <1>25, <1>26, <1>27,
          <1>28, <1>29, <1>30, <1>31, <1>32, <1>33, <1>34, <1>35, <1>36, <1>37, <1>38, <1>39, <1>40,
          <1>41, <1>42, <1>43, <1>44, <1>45, <1>46, <1>47, <1>48, <1>49 DEF Next, MainStep, SimStep,
          SubmitStep, RequestStopStep

\* The main thread starts the simulation after the test of the flag, and joins
\* it before it goes on.
LEMMA EnclosedStep == ASSUME ThreadsInPlace, ThreadEnclosed, Next PROVE ThreadEnclosed'
<1> USE ThreadsAssumption DEF ThreadsInPlace, ThreadEnclosed, At, Unstarted, Stops, Threads,
        MainLabels, SimLabels, SubmitLabels, StopLabels, vars, config, flags, commands, simState,
        runState, Goto, GotoWaking, Call
<1>1. CASE BeginRun
  BY <1>1 DEF BeginRun
<1>2. CASE InitDone
  BY <1>2 DEF InitDone
<1>3. CASE InitFails
  BY <1>3 DEF InitFails, StoppersJoined
<1>4. CASE FinalizeSimulation
  BY <1>4 DEF FinalizeSimulation
<1>5. CASE MainThrows
  BY <1>5 DEF MainThrows
<1>6. CASE TestStop
  BY <1>6 DEF TestStop
<1>7. CASE ResetSimStop
  BY <1>7 DEF ResetSimStop
<1>8. CASE CreateSimulationThread
  BY <1>8 DEF CreateSimulationThread
<1>9. CASE CreationFails
  BY <1>9 DEF CreationFails
<1>10. CASE AwaitReady
  BY <1>10 DEF AwaitReady
<1>11. CASE MainLoop
  BY <1>11 DEF MainLoop
<1>12. CASE CloseWindow
  BY <1>12 DEF CloseWindow
<1>13. CASE MainUpdate
  BY <1>13 DEF MainUpdate
<1>14. CASE TakeEvent
  BY <1>14 DEF TakeEvent, AfterEvents
<1>15. CASE OtherEvent
  BY <1>15 DEF OtherEvent, AfterEvents
<1>16. CASE SpuriousMainWakeup
  BY <1>16 DEF SpuriousMainWakeup
<1>17. CASE LeaveMainThread
  BY <1>17 DEF LeaveMainThread
<1>18. CASE StopSimulation
  BY <1>18 DEF StopSimulation
<1>19. CASE SetStopToken
  BY <1>19 DEF SetStopToken
<1>20. CASE JoinFailedSimulation
  BY <1>20 DEF JoinFailedSimulation
<1>21. CASE JoinSimulation
  BY <1>21 DEF JoinSimulation, Result
<1>22. CASE Shutdown
  BY <1>22 DEF Shutdown, StoppersJoined
<1>23. CASE HookReturns
  BY <1>23 DEF HookReturns
<1>24. CASE HookThrows
  BY <1>24 DEF HookThrows, Discarding
<1>25. CASE OpenQueue
  BY <1>25 DEF OpenQueue
<1>26. CASE SignalReady
  BY <1>26 DEF SignalReady
<1>27. CASE StartupLoadFails
  BY <1>27 DEF StartupLoadFails
<1>28. CASE SimLoop
  BY <1>28 DEF SimLoop
<1>29. CASE ClearPending
  BY <1>29 DEF ClearPending
<1>30. CASE ConsumeCommands
  BY <1>30 DEF ConsumeCommands
<1>31. CASE ApplyCommand
  BY <1>31 DEF ApplyCommand
<1>32. CASE SimWait
  BY <1>32 DEF SimWait
<1>33. CASE TickDue
  BY <1>33 DEF TickDue
<1>34. CASE SpuriousSimWakeup
  BY <1>34 DEF SpuriousSimWakeup
<1>35. CASE CancelCommands
  BY <1>35 DEF CancelCommands
<1>36. CASE DrainCommands
  BY <1>36 DEF DrainCommands, Discarding
<1>37. CASE LeaveSimulation
  BY <1>37 DEF LeaveSimulation
<1>38. CASE FinishSimulation
  BY <1>38 DEF FinishSimulation
<1>39. ASSUME NEW s \in Submitters, SubmitAccepted(s) PROVE ThreadEnclosed'
  BY <1>39 DEF SubmitAccepted
<1>40. ASSUME NEW s \in Submitters, SubmitRefused(s) PROVE ThreadEnclosed'
  BY <1>40 DEF SubmitRefused
<1>41. ASSUME NEW s \in Submitters, SetCommandsPending(s) PROVE ThreadEnclosed'
  BY <1>41 DEF SetCommandsPending
<1>42. ASSUME NEW s \in Submitters, NotifyCommands(s) PROVE ThreadEnclosed'
  BY <1>42 DEF NotifyCommands
<1>43. ASSUME NEW s \in Stoppers, BeginStop(s) PROVE ThreadEnclosed'
  BY <1>43 DEF BeginStop
<1>44. ASSUME NEW t \in Threads \ Submitters, SetStop(t) PROVE ThreadEnclosed'
  BY <1>44 DEF SetStop
<1>45. ASSUME NEW t \in Threads \ Submitters, NotifyMain(t) PROVE ThreadEnclosed'
  BY <1>45 DEF NotifyMain
<1>46. ASSUME NEW t \in Threads \ Submitters, CloseQueue(t) PROVE ThreadEnclosed'
  BY <1>46 DEF CloseQueue
<1>47. ASSUME NEW t \in Threads \ Submitters, PostEvent(t) PROVE ThreadEnclosed'
  BY <1>47 DEF PostEvent
<1>48. ASSUME NEW t \in Threads \ Submitters, SetSimStop(t) PROVE ThreadEnclosed'
  BY <1>48 DEF SetSimStop
<1>49. ASSUME NEW t \in Threads \ Submitters, NotifySim(t) PROVE ThreadEnclosed'
  BY <1>49 DEF NotifySim
<1> QED  BY <1>1, <1>2, <1>3, <1>4, <1>5, <1>6, <1>7, <1>8, <1>9, <1>10, <1>11, <1>12, <1>13, <1>14,
          <1>15, <1>16, <1>17, <1>18, <1>19, <1>20, <1>21, <1>22, <1>23, <1>24, <1>25, <1>26, <1>27,
          <1>28, <1>29, <1>30, <1>31, <1>32, <1>33, <1>34, <1>35, <1>36, <1>37, <1>38, <1>39, <1>40,
          <1>41, <1>42, <1>43, <1>44, <1>45, <1>46, <1>47, <1>48, <1>49 DEF Next, MainStep, SimStep,
          SubmitStep, RequestStopStep

\* Flags stay flags, and only a ClientApp is sent events.
LEMMA FlagsStep ==
  ASSUME ThreadsInPlace, ThreadEnclosed, FlagsTyped, Next
  PROVE  FlagsTyped'
<1> USE ThreadsAssumption, BoundsAssumption DEF ThreadsInPlace, ThreadEnclosed, At, Unstarted,
        Stops, Threads, MainLabels, SimLabels, SubmitLabels, StopLabels, FlagsTyped, vars, config,
        flags, commands, simState, runState, Goto, GotoWaking, Call
<1>1. CASE BeginRun
  <2>1. \A t \in Threads : pc'[t] = "PostEvent" => pc[t] = "PostEvent"
    BY <1>1 DEF BeginRun
  <2>2. runs' \in 0 .. MaxRuns /\ appStop' = FALSE /\ stopped' = FALSE /\ initialized' = FALSE
    BY <1>1 DEF BeginRun
  <2>3. UNCHANGED <<windowed, ticks, simStop, stopToken, posted, commandsPending, closed>>
    BY <1>1 DEF BeginRun
  <2> QED  BY <2>1, <2>2, <2>3
<1>2. CASE InitDone
  BY <1>2 DEF InitDone
<1>3. CASE InitFails
  BY <1>3 DEF InitFails, StoppersJoined
<1>4. CASE FinalizeSimulation
  BY <1>4 DEF FinalizeSimulation
<1>5. CASE MainThrows
  BY <1>5 DEF MainThrows
<1>6. CASE TestStop
  BY <1>6 DEF TestStop
<1>7. CASE ResetSimStop
  BY <1>7 DEF ResetSimStop
<1>8. CASE CreateSimulationThread
  BY <1>8 DEF CreateSimulationThread
<1>9. CASE CreationFails
  BY <1>9 DEF CreationFails
<1>10. CASE AwaitReady
  BY <1>10 DEF AwaitReady
<1>11. CASE MainLoop
  BY <1>11 DEF MainLoop
<1>12. CASE CloseWindow
  BY <1>12 DEF CloseWindow
<1>13. CASE MainUpdate
  BY <1>13 DEF MainUpdate
<1>14. CASE TakeEvent
  BY <1>14 DEF TakeEvent, AfterEvents
<1>15. CASE OtherEvent
  BY <1>15 DEF OtherEvent, AfterEvents
<1>16. CASE SpuriousMainWakeup
  BY <1>16 DEF SpuriousMainWakeup
<1>17. CASE LeaveMainThread
  BY <1>17 DEF LeaveMainThread
<1>18. CASE StopSimulation
  BY <1>18 DEF StopSimulation
<1>19. CASE SetStopToken
  BY <1>19 DEF SetStopToken
<1>20. CASE JoinFailedSimulation
  BY <1>20 DEF JoinFailedSimulation
<1>21. CASE JoinSimulation
  BY <1>21 DEF JoinSimulation, Result
<1>22. CASE Shutdown
  BY <1>22 DEF Shutdown, StoppersJoined
<1>23. CASE HookReturns
  BY <1>23 DEF HookReturns
<1>24. CASE HookThrows
  BY <1>24 DEF HookThrows, Discarding
<1>25. CASE OpenQueue
  BY <1>25 DEF OpenQueue
<1>26. CASE SignalReady
  BY <1>26 DEF SignalReady
<1>27. CASE StartupLoadFails
  BY <1>27 DEF StartupLoadFails
<1>28. CASE SimLoop
  BY <1>28 DEF SimLoop
<1>29. CASE ClearPending
  BY <1>29 DEF ClearPending
<1>30. CASE ConsumeCommands
  BY <1>30 DEF ConsumeCommands
<1>31. CASE ApplyCommand
  BY <1>31 DEF ApplyCommand
<1>32. CASE SimWait
  BY <1>32 DEF SimWait
<1>33. CASE TickDue
  BY <1>33 DEF TickDue
<1>34. CASE SpuriousSimWakeup
  BY <1>34 DEF SpuriousSimWakeup
<1>35. CASE CancelCommands
  BY <1>35 DEF CancelCommands
<1>36. CASE DrainCommands
  BY <1>36 DEF DrainCommands, Discarding
<1>37. CASE LeaveSimulation
  BY <1>37 DEF LeaveSimulation
<1>38. CASE FinishSimulation
  BY <1>38 DEF FinishSimulation
<1>39. ASSUME NEW s \in Submitters, SubmitAccepted(s) PROVE FlagsTyped'
  BY <1>39 DEF SubmitAccepted
<1>40. ASSUME NEW s \in Submitters, SubmitRefused(s) PROVE FlagsTyped'
  BY <1>40 DEF SubmitRefused
<1>41. ASSUME NEW s \in Submitters, SetCommandsPending(s) PROVE FlagsTyped'
  BY <1>41 DEF SetCommandsPending
<1>42. ASSUME NEW s \in Submitters, NotifyCommands(s) PROVE FlagsTyped'
  BY <1>42 DEF NotifyCommands
<1>43. ASSUME NEW s \in Stoppers, BeginStop(s) PROVE FlagsTyped'
  BY <1>43 DEF BeginStop
<1>44. ASSUME NEW t \in Threads \ Submitters, SetStop(t) PROVE FlagsTyped'
  BY <1>44 DEF SetStop
<1>45. ASSUME NEW t \in Threads \ Submitters, NotifyMain(t) PROVE FlagsTyped'
  BY <1>45 DEF NotifyMain
<1>46. ASSUME NEW t \in Threads \ Submitters, CloseQueue(t) PROVE FlagsTyped'
  BY <1>46 DEF CloseQueue
<1>47. ASSUME NEW t \in Threads \ Submitters, PostEvent(t) PROVE FlagsTyped'
  BY <1>47 DEF PostEvent
<1>48. ASSUME NEW t \in Threads \ Submitters, SetSimStop(t) PROVE FlagsTyped'
  BY <1>48 DEF SetSimStop
<1>49. ASSUME NEW t \in Threads \ Submitters, NotifySim(t) PROVE FlagsTyped'
  BY <1>49 DEF NotifySim
<1> QED  BY <1>1, <1>2, <1>3, <1>4, <1>5, <1>6, <1>7, <1>8, <1>9, <1>10, <1>11, <1>12, <1>13, <1>14,
          <1>15, <1>16, <1>17, <1>18, <1>19, <1>20, <1>21, <1>22, <1>23, <1>24, <1>25, <1>26, <1>27,
          <1>28, <1>29, <1>30, <1>31, <1>32, <1>33, <1>34, <1>35, <1>36, <1>37, <1>38, <1>39, <1>40,
          <1>41, <1>42, <1>43, <1>44, <1>45, <1>46, <1>47, <1>48, <1>49 DEF Next, MainStep, SimStep,
          SubmitStep, RequestStopStep

\* Until the next run the app's flag stays up.
LEMMA RequestsStep ==
  ASSUME ThreadsInPlace, ThreadEnclosed, FlagsTyped, RequestsSeen, Next
  PROVE  RequestsSeen'
<1> USE ThreadsAssumption DEF ThreadsInPlace, ThreadEnclosed, At, Unstarted, Stops, Threads,
        MainLabels, SimLabels, SubmitLabels, StopLabels, FlagsTyped, RequestsSeen, InRequestStop,
        vars, config, flags, commands, simState, runState, Goto, GotoWaking, Call
<1>1. CASE BeginRun
  BY <1>1 DEF BeginRun
<1>2. CASE InitDone
  BY <1>2 DEF InitDone
<1>3. CASE InitFails
  BY <1>3 DEF InitFails, StoppersJoined
<1>4. CASE FinalizeSimulation
  BY <1>4 DEF FinalizeSimulation
<1>5. CASE MainThrows
  BY <1>5 DEF MainThrows
<1>6. CASE TestStop
  BY <1>6 DEF TestStop
<1>7. CASE ResetSimStop
  BY <1>7 DEF ResetSimStop
<1>8. CASE CreateSimulationThread
  BY <1>8 DEF CreateSimulationThread
<1>9. CASE CreationFails
  BY <1>9 DEF CreationFails
<1>10. CASE AwaitReady
  BY <1>10 DEF AwaitReady
<1>11. CASE MainLoop
  BY <1>11 DEF MainLoop
<1>12. CASE CloseWindow
  BY <1>12 DEF CloseWindow
<1>13. CASE MainUpdate
  BY <1>13 DEF MainUpdate
<1>14. CASE TakeEvent
  BY <1>14 DEF TakeEvent, AfterEvents
<1>15. CASE OtherEvent
  BY <1>15 DEF OtherEvent, AfterEvents
<1>16. CASE SpuriousMainWakeup
  BY <1>16 DEF SpuriousMainWakeup
<1>17. CASE LeaveMainThread
  BY <1>17 DEF LeaveMainThread
<1>18. CASE StopSimulation
  BY <1>18 DEF StopSimulation
<1>19. CASE SetStopToken
  BY <1>19 DEF SetStopToken
<1>20. CASE JoinFailedSimulation
  BY <1>20 DEF JoinFailedSimulation
<1>21. CASE JoinSimulation
  BY <1>21 DEF JoinSimulation, Result
<1>22. CASE Shutdown
  BY <1>22 DEF Shutdown, StoppersJoined
<1>23. CASE HookReturns
  BY <1>23 DEF HookReturns
<1>24. CASE HookThrows
  BY <1>24 DEF HookThrows, Discarding
<1>25. CASE OpenQueue
  BY <1>25 DEF OpenQueue
<1>26. CASE SignalReady
  BY <1>26 DEF SignalReady
<1>27. CASE StartupLoadFails
  BY <1>27 DEF StartupLoadFails
<1>28. CASE SimLoop
  BY <1>28 DEF SimLoop
<1>29. CASE ClearPending
  BY <1>29 DEF ClearPending
<1>30. CASE ConsumeCommands
  BY <1>30 DEF ConsumeCommands
<1>31. CASE ApplyCommand
  BY <1>31 DEF ApplyCommand
<1>32. CASE SimWait
  BY <1>32 DEF SimWait
<1>33. CASE TickDue
  BY <1>33 DEF TickDue
<1>34. CASE SpuriousSimWakeup
  BY <1>34 DEF SpuriousSimWakeup
<1>35. CASE CancelCommands
  BY <1>35 DEF CancelCommands
<1>36. CASE DrainCommands
  BY <1>36 DEF DrainCommands, Discarding
<1>37. CASE LeaveSimulation
  BY <1>37 DEF LeaveSimulation
<1>38. CASE FinishSimulation
  BY <1>38 DEF FinishSimulation
<1>39. ASSUME NEW s \in Submitters, SubmitAccepted(s) PROVE RequestsSeen'
  BY <1>39 DEF SubmitAccepted
<1>40. ASSUME NEW s \in Submitters, SubmitRefused(s) PROVE RequestsSeen'
  BY <1>40 DEF SubmitRefused
<1>41. ASSUME NEW s \in Submitters, SetCommandsPending(s) PROVE RequestsSeen'
  BY <1>41 DEF SetCommandsPending
<1>42. ASSUME NEW s \in Submitters, NotifyCommands(s) PROVE RequestsSeen'
  BY <1>42 DEF NotifyCommands
<1>43. ASSUME NEW s \in Stoppers, BeginStop(s) PROVE RequestsSeen'
  BY <1>43 DEF BeginStop
<1>44. ASSUME NEW t \in Threads \ Submitters, SetStop(t) PROVE RequestsSeen'
  BY <1>44 DEF SetStop
<1>45. ASSUME NEW t \in Threads \ Submitters, NotifyMain(t) PROVE RequestsSeen'
  BY <1>45 DEF NotifyMain
<1>46. ASSUME NEW t \in Threads \ Submitters, CloseQueue(t) PROVE RequestsSeen'
  BY <1>46 DEF CloseQueue
<1>47. ASSUME NEW t \in Threads \ Submitters, PostEvent(t) PROVE RequestsSeen'
  BY <1>47 DEF PostEvent
<1>48. ASSUME NEW t \in Threads \ Submitters, SetSimStop(t) PROVE RequestsSeen'
  BY <1>48 DEF SetSimStop
<1>49. ASSUME NEW t \in Threads \ Submitters, NotifySim(t) PROVE RequestsSeen'
  BY <1>49 DEF NotifySim
<1> QED  BY <1>1, <1>2, <1>3, <1>4, <1>5, <1>6, <1>7, <1>8, <1>9, <1>10, <1>11, <1>12, <1>13, <1>14,
          <1>15, <1>16, <1>17, <1>18, <1>19, <1>20, <1>21, <1>22, <1>23, <1>24, <1>25, <1>26, <1>27,
          <1>28, <1>29, <1>30, <1>31, <1>32, <1>33, <1>34, <1>35, <1>36, <1>37, <1>38, <1>39, <1>40,
          <1>41, <1>42, <1>43, <1>44, <1>45, <1>46, <1>47, <1>48, <1>49 DEF Next, MainStep, SimStep,
          SubmitStep, RequestStopStep

\* The main thread ends a run only after a stop of its own, with both flags up.
LEMMA StopsStep ==
  ASSUME ThreadsInPlace, ThreadEnclosed, StopsRaised, Next
  PROVE  StopsRaised'
<1>1. CASE Shutdown
  <2>1. pc[Main] = "Shutdown" /\ UNCHANGED <<appStop, simStop, ret, runs>>
    BY <1>1 DEF Shutdown, flags
  <2>2. pc'[Main] = "Idle"
    BY <1>1 DEF Shutdown, Goto, ThreadsInPlace, Threads
  <2>3. appStop /\ simStop
    BY <2>1 DEF StopsRaised, At, StopLabels
  <2> QED  BY <2>1, <2>2, <2>3 DEF StopsRaised, At, StopLabels
<1> USE ThreadsAssumption, BoundsAssumption DEF ThreadsInPlace, ThreadEnclosed, At, Unstarted,
        Stops, Threads, MainLabels, SimLabels, SubmitLabels, StopLabels, StopsRaised, vars, config,
        flags, commands, simState, runState, Goto, GotoWaking, Call
<1>2. CASE BeginRun
  BY <1>2 DEF BeginRun
<1>3. CASE InitDone
  BY <1>3 DEF InitDone
<1>4. CASE InitFails
  BY <1>4 DEF InitFails, StoppersJoined
<1>5. CASE FinalizeSimulation
  BY <1>5 DEF FinalizeSimulation
<1>6. CASE MainThrows
  BY <1>6 DEF MainThrows
<1>7. CASE TestStop
  BY <1>7 DEF TestStop
<1>8. CASE ResetSimStop
  BY <1>8 DEF ResetSimStop
<1>9. CASE CreateSimulationThread
  BY <1>9 DEF CreateSimulationThread
<1>10. CASE CreationFails
  BY <1>10 DEF CreationFails
<1>11. CASE AwaitReady
  BY <1>11 DEF AwaitReady
<1>12. CASE MainLoop
  BY <1>12 DEF MainLoop
<1>13. CASE CloseWindow
  BY <1>13 DEF CloseWindow
<1>14. CASE MainUpdate
  BY <1>14 DEF MainUpdate
<1>15. CASE TakeEvent
  BY <1>15 DEF TakeEvent, AfterEvents
<1>16. CASE OtherEvent
  BY <1>16 DEF OtherEvent, AfterEvents
<1>17. CASE SpuriousMainWakeup
  BY <1>17 DEF SpuriousMainWakeup
<1>18. CASE LeaveMainThread
  BY <1>18 DEF LeaveMainThread
<1>19. CASE StopSimulation
  BY <1>19 DEF StopSimulation
<1>20. CASE SetStopToken
  BY <1>20 DEF SetStopToken
<1>21. CASE JoinFailedSimulation
  BY <1>21 DEF JoinFailedSimulation
<1>22. CASE JoinSimulation
  BY <1>22 DEF JoinSimulation, Result
<1>23. CASE HookReturns
  BY <1>23 DEF HookReturns
<1>24. CASE HookThrows
  BY <1>24 DEF HookThrows, Discarding
<1>25. CASE OpenQueue
  BY <1>25 DEF OpenQueue
<1>26. CASE SignalReady
  BY <1>26 DEF SignalReady
<1>27. CASE StartupLoadFails
  BY <1>27 DEF StartupLoadFails
<1>28. CASE SimLoop
  BY <1>28 DEF SimLoop
<1>29. CASE ClearPending
  BY <1>29 DEF ClearPending
<1>30. CASE ConsumeCommands
  BY <1>30 DEF ConsumeCommands
<1>31. CASE ApplyCommand
  BY <1>31 DEF ApplyCommand
<1>32. CASE SimWait
  BY <1>32 DEF SimWait
<1>33. CASE TickDue
  BY <1>33 DEF TickDue
<1>34. CASE SpuriousSimWakeup
  BY <1>34 DEF SpuriousSimWakeup
<1>35. CASE CancelCommands
  BY <1>35 DEF CancelCommands
<1>36. CASE DrainCommands
  BY <1>36 DEF DrainCommands, Discarding
<1>37. CASE LeaveSimulation
  BY <1>37 DEF LeaveSimulation
<1>38. CASE FinishSimulation
  BY <1>38 DEF FinishSimulation
<1>39. ASSUME NEW s \in Submitters, SubmitAccepted(s) PROVE StopsRaised'
  BY <1>39 DEF SubmitAccepted
<1>40. ASSUME NEW s \in Submitters, SubmitRefused(s) PROVE StopsRaised'
  BY <1>40 DEF SubmitRefused
<1>41. ASSUME NEW s \in Submitters, SetCommandsPending(s) PROVE StopsRaised'
  BY <1>41 DEF SetCommandsPending
<1>42. ASSUME NEW s \in Submitters, NotifyCommands(s) PROVE StopsRaised'
  BY <1>42 DEF NotifyCommands
<1>43. ASSUME NEW s \in Stoppers, BeginStop(s) PROVE StopsRaised'
  BY <1>43 DEF BeginStop
<1>44. ASSUME NEW t \in Threads \ Submitters, SetStop(t) PROVE StopsRaised'
  BY <1>44 DEF SetStop
<1>45. ASSUME NEW t \in Threads \ Submitters, NotifyMain(t) PROVE StopsRaised'
  BY <1>45 DEF NotifyMain
<1>46. ASSUME NEW t \in Threads \ Submitters, CloseQueue(t) PROVE StopsRaised'
  BY <1>46 DEF CloseQueue
<1>47. ASSUME NEW t \in Threads \ Submitters, PostEvent(t) PROVE StopsRaised'
  BY <1>47 DEF PostEvent
<1>48. ASSUME NEW t \in Threads \ Submitters, SetSimStop(t) PROVE StopsRaised'
  BY <1>48 DEF SetSimStop
<1>49. ASSUME NEW t \in Threads \ Submitters, NotifySim(t) PROVE StopsRaised'
  BY <1>49 DEF NotifySim
<1> QED  BY <1>1, <1>2, <1>3, <1>4, <1>5, <1>6, <1>7, <1>8, <1>9, <1>10, <1>11, <1>12, <1>13, <1>14,
          <1>15, <1>16, <1>17, <1>18, <1>19, <1>20, <1>21, <1>22, <1>23, <1>24, <1>25, <1>26, <1>27,
          <1>28, <1>29, <1>30, <1>31, <1>32, <1>33, <1>34, <1>35, <1>36, <1>37, <1>38, <1>39, <1>40,
          <1>41, <1>42, <1>43, <1>44, <1>45, <1>46, <1>47, <1>48, <1>49 DEF Next, MainStep, SimStep,
          SubmitStep, RequestStopStep

\* Commands move from the queue to the batch to their outcome, oldest first.
LEMMA OrderStep == ASSUME IInv, Next PROVE CommandsInOrder'
<1>1. CASE HookThrows
  BY <1>1, ThrowOrder DEF IInv
<1>2. CASE ApplyCommand
  BY <1>2, ApplyOrder DEF IInv
<1>3. CASE DrainCommands
  BY <1>3, DrainOrder DEF IInv
<1>4. ASSUME NEW s \in Submitters, SubmitAccepted(s) PROVE CommandsInOrder'
  BY <1>4, SubmitOrder DEF IInv
<1> USE ThreadsAssumption, BoundsAssumption DEF IInv, CommandsInOrder, OpenSteps, Settled,
        ThreadsInPlace, ThreadEnclosed, At, Unstarted, Stops, Threads, MainLabels, SimLabels,
        SubmitLabels, StopLabels, vars, config, flags, commands, simState, runState, Goto,
        GotoWaking, Call
<1>5. CASE BeginRun
  BY <1>5 DEF BeginRun
<1>6. CASE InitDone
  BY <1>6 DEF InitDone
<1>7. CASE InitFails
  BY <1>7 DEF InitFails, StoppersJoined
<1>8. CASE FinalizeSimulation
  BY <1>8 DEF FinalizeSimulation
<1>9. CASE MainThrows
  BY <1>9 DEF MainThrows
<1>10. CASE TestStop
  BY <1>10 DEF TestStop
<1>11. CASE ResetSimStop
  BY <1>11 DEF ResetSimStop
<1>12. CASE CreateSimulationThread
  BY <1>12 DEF CreateSimulationThread
<1>13. CASE CreationFails
  BY <1>13 DEF CreationFails
<1>14. CASE AwaitReady
  BY <1>14 DEF AwaitReady
<1>15. CASE MainLoop
  BY <1>15 DEF MainLoop
<1>16. CASE CloseWindow
  BY <1>16 DEF CloseWindow
<1>17. CASE MainUpdate
  BY <1>17 DEF MainUpdate
<1>18. CASE TakeEvent
  BY <1>18 DEF TakeEvent, AfterEvents
<1>19. CASE OtherEvent
  BY <1>19 DEF OtherEvent, AfterEvents
<1>20. CASE SpuriousMainWakeup
  BY <1>20 DEF SpuriousMainWakeup
<1>21. CASE LeaveMainThread
  BY <1>21 DEF LeaveMainThread
<1>22. CASE StopSimulation
  BY <1>22 DEF StopSimulation
<1>23. CASE SetStopToken
  BY <1>23 DEF SetStopToken
<1>24. CASE JoinFailedSimulation
  BY <1>24 DEF JoinFailedSimulation
<1>25. CASE JoinSimulation
  BY <1>25 DEF JoinSimulation, Result
<1>26. CASE Shutdown
  BY <1>26 DEF Shutdown, StoppersJoined
<1>27. CASE HookReturns
  BY <1>27 DEF HookReturns
<1>28. CASE OpenQueue
  BY <1>28 DEF OpenQueue
<1>29. CASE SignalReady
  BY <1>29 DEF SignalReady
<1>30. CASE StartupLoadFails
  BY <1>30 DEF StartupLoadFails
<1>31. CASE SimLoop
  BY <1>31 DEF SimLoop
<1>32. CASE ClearPending
  BY <1>32 DEF ClearPending
<1>33. CASE ConsumeCommands
  BY <1>33 DEF ConsumeCommands
<1>34. CASE SimWait
  BY <1>34 DEF SimWait
<1>35. CASE TickDue
  BY <1>35 DEF TickDue
<1>36. CASE SpuriousSimWakeup
  BY <1>36 DEF SpuriousSimWakeup
<1>37. CASE CancelCommands
  BY <1>37 DEF CancelCommands
<1>38. CASE LeaveSimulation
  BY <1>38 DEF LeaveSimulation
<1>39. CASE FinishSimulation
  BY <1>39 DEF FinishSimulation
<1>40. ASSUME NEW s \in Submitters, SubmitRefused(s) PROVE CommandsInOrder'
  BY <1>40 DEF SubmitRefused
<1>41. ASSUME NEW s \in Submitters, SetCommandsPending(s) PROVE CommandsInOrder'
  BY <1>41 DEF SetCommandsPending
<1>42. ASSUME NEW s \in Submitters, NotifyCommands(s) PROVE CommandsInOrder'
  BY <1>42 DEF NotifyCommands
<1>43. ASSUME NEW s \in Stoppers, BeginStop(s) PROVE CommandsInOrder'
  BY <1>43 DEF BeginStop
<1>44. ASSUME NEW t \in Threads \ Submitters, SetStop(t) PROVE CommandsInOrder'
  BY <1>44 DEF SetStop
<1>45. ASSUME NEW t \in Threads \ Submitters, NotifyMain(t) PROVE CommandsInOrder'
  BY <1>45 DEF NotifyMain
<1>46. ASSUME NEW t \in Threads \ Submitters, CloseQueue(t) PROVE CommandsInOrder'
  BY <1>46 DEF CloseQueue
<1>47. ASSUME NEW t \in Threads \ Submitters, PostEvent(t) PROVE CommandsInOrder'
  BY <1>47 DEF PostEvent
<1>48. ASSUME NEW t \in Threads \ Submitters, SetSimStop(t) PROVE CommandsInOrder'
  BY <1>48 DEF SetSimStop
<1>49. ASSUME NEW t \in Threads \ Submitters, NotifySim(t) PROVE CommandsInOrder'
  BY <1>49 DEF NotifySim
<1> QED  BY <1>1, <1>2, <1>3, <1>4, <1>5, <1>6, <1>7, <1>8, <1>9, <1>10, <1>11, <1>12, <1>13, <1>14,
          <1>15, <1>16, <1>17, <1>18, <1>19, <1>20, <1>21, <1>22, <1>23, <1>24, <1>25, <1>26, <1>27,
          <1>28, <1>29, <1>30, <1>31, <1>32, <1>33, <1>34, <1>35, <1>36, <1>37, <1>38, <1>39, <1>40,
          <1>41, <1>42, <1>43, <1>44, <1>45, <1>46, <1>47, <1>48, <1>49 DEF Next, MainStep, SimStep,
          SubmitStep, RequestStopStep

\* A command accepted late waits for a simulation that will see the flag.
LEMMA LateStep == ASSUME IInv, Next PROVE LateCancelled'
<1>1. CASE ApplyCommand
  BY <1>1, ApplyLate DEF IInv
<1>2. CASE DrainCommands
  BY <1>2, DrainLate DEF IInv
<1>3. ASSUME NEW s \in Submitters, SubmitAccepted(s) PROVE LateCancelled'
  BY <1>3, SubmitLate DEF IInv
<1>4. ASSUME NEW t \in Threads \ Submitters, NotifyMain(t) PROVE LateCancelled'
  BY <1>4, NotifyMainLate DEF IInv
<1> USE ThreadsAssumption DEF IInv, FlagsTyped, RequestsSeen, CommandsInOrder, OpenSteps, Settled,
        LateCancelled, NeverAppliedLate, Untested, PastClose, InRequestStop, ThreadsInPlace,
        ThreadEnclosed, At, Unstarted, Stops, Threads, MainLabels, SimLabels, SubmitLabels,
        StopLabels, vars, config, flags, commands, simState, runState, Goto, GotoWaking, Call
<1>5. CASE BeginRun
  BY <1>5 DEF BeginRun
<1>6. CASE InitDone
  BY <1>6 DEF InitDone
<1>7. CASE InitFails
  BY <1>7 DEF InitFails, StoppersJoined
<1>8. CASE FinalizeSimulation
  BY <1>8 DEF FinalizeSimulation
<1>9. CASE MainThrows
  BY <1>9 DEF MainThrows
<1>10. CASE TestStop
  BY <1>10 DEF TestStop
<1>11. CASE ResetSimStop
  BY <1>11 DEF ResetSimStop
<1>12. CASE CreateSimulationThread
  BY <1>12 DEF CreateSimulationThread
<1>13. CASE CreationFails
  BY <1>13 DEF CreationFails
<1>14. CASE AwaitReady
  BY <1>14 DEF AwaitReady
<1>15. CASE MainLoop
  BY <1>15 DEF MainLoop
<1>16. CASE CloseWindow
  BY <1>16 DEF CloseWindow
<1>17. CASE MainUpdate
  BY <1>17 DEF MainUpdate
<1>18. CASE TakeEvent
  BY <1>18 DEF TakeEvent, AfterEvents
<1>19. CASE OtherEvent
  BY <1>19 DEF OtherEvent, AfterEvents
<1>20. CASE SpuriousMainWakeup
  BY <1>20 DEF SpuriousMainWakeup
<1>21. CASE LeaveMainThread
  BY <1>21 DEF LeaveMainThread
<1>22. CASE StopSimulation
  BY <1>22 DEF StopSimulation
<1>23. CASE SetStopToken
  BY <1>23 DEF SetStopToken
<1>24. CASE JoinFailedSimulation
  BY <1>24 DEF JoinFailedSimulation
<1>25. CASE JoinSimulation
  BY <1>25 DEF JoinSimulation, Result
<1>26. CASE Shutdown
  BY <1>26 DEF Shutdown, StoppersJoined
<1>27. CASE HookReturns
  BY <1>27 DEF HookReturns
<1>28. CASE HookThrows
  BY <1>28 DEF HookThrows, Discarding
<1>29. CASE OpenQueue
  BY <1>29 DEF OpenQueue
<1>30. CASE SignalReady
  BY <1>30 DEF SignalReady
<1>31. CASE StartupLoadFails
  BY <1>31 DEF StartupLoadFails
<1>32. CASE SimLoop
  BY <1>32 DEF SimLoop
<1>33. CASE ClearPending
  BY <1>33 DEF ClearPending
<1>34. CASE ConsumeCommands
  BY <1>34 DEF ConsumeCommands
<1>35. CASE SimWait
  BY <1>35 DEF SimWait
<1>36. CASE TickDue
  BY <1>36 DEF TickDue
<1>37. CASE SpuriousSimWakeup
  BY <1>37 DEF SpuriousSimWakeup
<1>38. CASE CancelCommands
  BY <1>38 DEF CancelCommands
<1>39. CASE LeaveSimulation
  BY <1>39 DEF LeaveSimulation
<1>40. CASE FinishSimulation
  BY <1>40 DEF FinishSimulation
<1>41. ASSUME NEW s \in Submitters, SubmitRefused(s) PROVE LateCancelled'
  BY <1>41 DEF SubmitRefused
<1>42. ASSUME NEW s \in Submitters, SetCommandsPending(s) PROVE LateCancelled'
  BY <1>42 DEF SetCommandsPending
<1>43. ASSUME NEW s \in Submitters, NotifyCommands(s) PROVE LateCancelled'
  BY <1>43, ZenonT(60) DEF NotifyCommands
<1>44. ASSUME NEW s \in Stoppers, BeginStop(s) PROVE LateCancelled'
  BY <1>44 DEF BeginStop
<1>45. ASSUME NEW t \in Threads \ Submitters, SetStop(t) PROVE LateCancelled'
  BY <1>45 DEF SetStop
<1>46. ASSUME NEW t \in Threads \ Submitters, CloseQueue(t) PROVE LateCancelled'
  BY <1>46 DEF CloseQueue
<1>47. ASSUME NEW t \in Threads \ Submitters, PostEvent(t) PROVE LateCancelled'
  BY <1>47 DEF PostEvent
<1>48. ASSUME NEW t \in Threads \ Submitters, SetSimStop(t) PROVE LateCancelled'
  BY <1>48 DEF SetSimStop
<1>49. ASSUME NEW t \in Threads \ Submitters, NotifySim(t) PROVE LateCancelled'
  BY <1>49 DEF NotifySim
<1> QED  BY <1>1, <1>2, <1>3, <1>4, <1>5, <1>6, <1>7, <1>8, <1>9, <1>10, <1>11, <1>12, <1>13, <1>14,
          <1>15, <1>16, <1>17, <1>18, <1>19, <1>20, <1>21, <1>22, <1>23, <1>24, <1>25, <1>26, <1>27,
          <1>28, <1>29, <1>30, <1>31, <1>32, <1>33, <1>34, <1>35, <1>36, <1>37, <1>38, <1>39, <1>40,
          <1>41, <1>42, <1>43, <1>44, <1>45, <1>46, <1>47, <1>48, <1>49 DEF Next, MainStep, SimStep,
          SubmitStep, RequestStopStep

\* A failure of the simulation stays visible until stopSimulation has read it.
LEMMA FailStep ==
  ASSUME ThreadsInPlace, ThreadEnclosed, FailuresKept, Next
  PROVE  FailuresKept'
<1>1. CASE BeginRun
  <2>1. pc[Main] = "Idle" /\ pc[Sim] \in {"None", "Exited"} /\ pc'[Sim] = pc[Sim] /\ pc'[Main] = "Init"
    <3>1. pc[Main] = "Idle" /\ pc'[Sim] = pc[Sim] /\ pc'[Main] = "Init"
      BY <1>1, ThreadsAssumption DEF BeginRun, Threads
    <3>2. At(Main) = "Idle"
      BY <3>1 DEF At, StopLabels
    <3> QED  BY <3>1, <3>2 DEF ThreadEnclosed, Unstarted
  <2>2. /\ ~failed' /\ ~attempted' /\ result' = 0 /\ failed' \in BOOLEAN
        /\ UNCHANGED <<startup, completion, startupError, simFailure>>
    BY <1>1 DEF BeginRun, simState
  <2>3. At(Main)' = "Init"
    BY <2>1 DEF At, StopLabels
  <2> QED  BY <2>1, <2>2, <2>3 DEF FailuresKept, Started, StopLabels
<1> USE ThreadsAssumption DEF FailuresKept, Started, SimulationFailed, ThreadsInPlace,
        ThreadEnclosed, At, Unstarted, Stops, Threads, MainLabels, SimLabels, SubmitLabels,
        StopLabels, vars, config, flags, commands, simState, runState, Goto, GotoWaking, Call
<1>2. CASE InitDone
  BY <1>2 DEF InitDone
<1>3. CASE InitFails
  BY <1>3 DEF InitFails, StoppersJoined
<1>4. CASE FinalizeSimulation
  BY <1>4 DEF FinalizeSimulation
<1>5. CASE MainThrows
  BY <1>5 DEF MainThrows
<1>6. CASE TestStop
  BY <1>6 DEF TestStop
<1>7. CASE ResetSimStop
  BY <1>7 DEF ResetSimStop
<1>8. CASE CreateSimulationThread
  BY <1>8 DEF CreateSimulationThread
<1>9. CASE CreationFails
  BY <1>9 DEF CreationFails
<1>10. CASE AwaitReady
  BY <1>10 DEF AwaitReady
<1>11. CASE MainLoop
  BY <1>11 DEF MainLoop
<1>12. CASE CloseWindow
  BY <1>12 DEF CloseWindow
<1>13. CASE MainUpdate
  BY <1>13 DEF MainUpdate
<1>14. CASE TakeEvent
  BY <1>14 DEF TakeEvent, AfterEvents
<1>15. CASE OtherEvent
  BY <1>15 DEF OtherEvent, AfterEvents
<1>16. CASE SpuriousMainWakeup
  BY <1>16 DEF SpuriousMainWakeup
<1>17. CASE LeaveMainThread
  BY <1>17 DEF LeaveMainThread
<1>18. CASE StopSimulation
  BY <1>18 DEF StopSimulation
<1>19. CASE SetStopToken
  BY <1>19 DEF SetStopToken
<1>20. CASE JoinFailedSimulation
  BY <1>20 DEF JoinFailedSimulation
<1>21. CASE JoinSimulation
  BY <1>21 DEF JoinSimulation, Result
<1>22. CASE Shutdown
  BY <1>22 DEF Shutdown, StoppersJoined
<1>23. CASE HookReturns
  BY <1>23 DEF HookReturns
<1>24. CASE HookThrows
  BY <1>24 DEF HookThrows, Discarding
<1>25. CASE OpenQueue
  BY <1>25 DEF OpenQueue
<1>26. CASE SignalReady
  BY <1>26 DEF SignalReady
<1>27. CASE StartupLoadFails
  BY <1>27 DEF StartupLoadFails
<1>28. CASE SimLoop
  BY <1>28 DEF SimLoop
<1>29. CASE ClearPending
  BY <1>29 DEF ClearPending
<1>30. CASE ConsumeCommands
  BY <1>30 DEF ConsumeCommands
<1>31. CASE ApplyCommand
  BY <1>31 DEF ApplyCommand
<1>32. CASE SimWait
  BY <1>32 DEF SimWait
<1>33. CASE TickDue
  BY <1>33 DEF TickDue
<1>34. CASE SpuriousSimWakeup
  BY <1>34 DEF SpuriousSimWakeup
<1>35. CASE CancelCommands
  BY <1>35 DEF CancelCommands
<1>36. CASE DrainCommands
  BY <1>36 DEF DrainCommands, Discarding
<1>37. CASE LeaveSimulation
  BY <1>37 DEF LeaveSimulation
<1>38. CASE FinishSimulation
  BY <1>38 DEF FinishSimulation
<1>39. ASSUME NEW s \in Submitters, SubmitAccepted(s) PROVE FailuresKept'
  BY <1>39 DEF SubmitAccepted
<1>40. ASSUME NEW s \in Submitters, SubmitRefused(s) PROVE FailuresKept'
  BY <1>40 DEF SubmitRefused
<1>41. ASSUME NEW s \in Submitters, SetCommandsPending(s) PROVE FailuresKept'
  BY <1>41 DEF SetCommandsPending
<1>42. ASSUME NEW s \in Submitters, NotifyCommands(s) PROVE FailuresKept'
  BY <1>42 DEF NotifyCommands
<1>43. ASSUME NEW s \in Stoppers, BeginStop(s) PROVE FailuresKept'
  BY <1>43 DEF BeginStop
<1>44. ASSUME NEW t \in Threads \ Submitters, SetStop(t) PROVE FailuresKept'
  BY <1>44 DEF SetStop
<1>45. ASSUME NEW t \in Threads \ Submitters, NotifyMain(t) PROVE FailuresKept'
  BY <1>45 DEF NotifyMain
<1>46. ASSUME NEW t \in Threads \ Submitters, CloseQueue(t) PROVE FailuresKept'
  BY <1>46 DEF CloseQueue
<1>47. ASSUME NEW t \in Threads \ Submitters, PostEvent(t) PROVE FailuresKept'
  BY <1>47 DEF PostEvent
<1>48. ASSUME NEW t \in Threads \ Submitters, SetSimStop(t) PROVE FailuresKept'
  BY <1>48 DEF SetSimStop
<1>49. ASSUME NEW t \in Threads \ Submitters, NotifySim(t) PROVE FailuresKept'
  BY <1>49 DEF NotifySim
<1> QED  BY <1>1, <1>2, <1>3, <1>4, <1>5, <1>6, <1>7, <1>8, <1>9, <1>10, <1>11, <1>12, <1>13, <1>14,
          <1>15, <1>16, <1>17, <1>18, <1>19, <1>20, <1>21, <1>22, <1>23, <1>24, <1>25, <1>26, <1>27,
          <1>28, <1>29, <1>30, <1>31, <1>32, <1>33, <1>34, <1>35, <1>36, <1>37, <1>38, <1>39, <1>40,
          <1>41, <1>42, <1>43, <1>44, <1>45, <1>46, <1>47, <1>48, <1>49 DEF Next, MainStep, SimStep,
          SubmitStep, RequestStopStep

-----------------------------------------------------------------------------
(* The invariant, and what it gives.                                        *)

\* An App that was never run, or that ran before, satisfies the invariant.
LEMMA InitInvariant == Init => IInv
<1> SUFFICES ASSUME Init PROVE IInv
  OBVIOUS
<1>1. /\ pc \in [Threads -> MainLabels \cup SimLabels \cup SubmitLabels \cup StopLabels]
      /\ pc[Main] = "Idle" /\ pc[Sim] = "None"
      /\ \A s \in Stoppers : pc[s] = "Idle"
      /\ \A s \in Submitters : pc[s] \in SubmitLabels
  BY ThreadsAssumption DEF Init, Threads, MainLabels, SimLabels, SubmitLabels
<1>2. ret = [t \in Threads |-> "Idle"]
  BY DEF Init
<1>3. \A t \in Threads : pc[t] \notin StopLabels
  BY <1>1 DEF Threads, StopLabels, SubmitLabels
<1>4. At(Main) = "Idle" /\ At(Sim) = "None"
  BY <1>1 DEF At, StopLabels
<1>5. ThreadsInPlace
  BY <1>1, <1>2, <1>3 DEF ThreadsInPlace, MainLabels, SimLabels, Threads
<1>6. ThreadEnclosed
  BY <1>1, <1>4 DEF Init, ThreadEnclosed, Unstarted, Stops
<1>7. FlagsTyped
  <2>1. {windowed, ticks} \subseteq BOOLEAN /\ {stopToken, closed, initialized, stopped} \subseteq BOOLEAN
    BY DEF Init
  <2>2. /\ {appStop, simStop, posted, commandsPending} \subseteq BOOLEAN
        /\ posted => windowed
    <3>1. CASE appStop = FALSE /\ simStop = FALSE /\ posted = FALSE /\ commandsPending = FALSE
      BY <3>1
    <3>2. CASE LeftByRun
      <4>1. appStop = TRUE /\ simStop = TRUE /\ posted \in {FALSE, windowed} /\ commandsPending \in BOOLEAN
        BY <3>2 DEF LeftByRun
      <4>2. posted \in BOOLEAN /\ (posted => windowed)
        <5>1. CASE posted = FALSE
          BY <5>1
        <5>2. CASE posted = windowed
          <6>1. windowed \in BOOLEAN
            BY <2>1
          <6> QED  BY <5>2, <6>1
        <5> QED  BY <4>1, <5>1, <5>2
      <4>3. appStop \in BOOLEAN /\ simStop \in BOOLEAN
        BY <4>1
      <4> QED  BY <4>1, <4>2, <4>3
    <3> QED  BY <3>1, <3>2 DEF Init
  <2>3. runs \in 0 .. MaxRuns
    BY BoundsAssumption DEF Init
  <2> QED  BY <1>3, <2>1, <2>2, <2>3 DEF FlagsTyped, StopLabels
<1>8. RequestsSeen /\ StopsRaised
  BY <1>1, <1>3, <1>4 DEF Init, RequestsSeen, StopsRaised, InRequestStop
<1>9. CommandsInOrder
  BY <1>1, BoundsAssumption, EmptySeq DEF Init, CommandsInOrder, Settled, OpenSteps
<1>10. LateCancelled
  BY <1>1 DEF Init, LateCancelled, NeverAppliedLate
<1>11. FailuresKept
  <2>1. /\ startup = "Unresolved" /\ completion = "Running" /\ startupError = FALSE
        /\ simFailure = FALSE /\ attempted = FALSE /\ result = 0 /\ failed = FALSE
    BY DEF Init
  <2>2. ~Started /\ pc[Sim] \notin StopLabels
    BY <1>1, <2>1 DEF Started, StopLabels
  <2>3. {startupError, simFailure, failed} \subseteq BOOLEAN
    BY <2>1
  <2> QED  BY <1>1, <1>4, <2>1, <2>2, <2>3 DEF FailuresKept
<1> QED  BY <1>5, <1>6, <1>7, <1>8, <1>9, <1>10, <1>11 DEF IInv

\* Every step keeps it.
LEMMA NextInvariant == IInv /\ [Next]_vars => IInv'
<1>1. ASSUME IInv, Next PROVE IInv'
  <2>1. ThreadsInPlace /\ ThreadEnclosed /\ FlagsTyped /\ RequestsSeen /\ StopsRaised /\ FailuresKept
    BY <1>1 DEF IInv
  <2> QED  BY <1>1, <2>1, PlaceStep, EnclosedStep, FlagsStep, RequestsStep, StopsStep, OrderStep,
              LateStep, FailStep DEF IInv
<1>2. ASSUME IInv, UNCHANGED vars PROVE IInv'
  <2>1. /\ UNCHANGED <<windowed, ticks, appStop, simStop, stopToken, posted>>
        /\ UNCHANGED <<commandsPending, closed, queue, batch, outcome, late>>
        /\ UNCHANGED <<startup, completion, startupError, simFailure>>
        /\ UNCHANGED <<initialized, attempted, result, runs, failed, pc, ret, stopped>>
    BY <1>2 DEF vars, config, flags, commands, simState, runState
  <2>2. ThreadsInPlace' /\ ThreadEnclosed'
    BY <1>2, <2>1 DEF IInv, ThreadsInPlace, ThreadEnclosed, At
  <2>3. FlagsTyped' /\ RequestsSeen' /\ StopsRaised'
    BY <1>2, <2>1 DEF IInv, FlagsTyped, RequestsSeen, StopsRaised, At, InRequestStop
  <2>4. CommandsInOrder' /\ LateCancelled'
    BY <1>2, <2>1 DEF IInv, CommandsInOrder, Settled, LateCancelled, NeverAppliedLate, PastClose,
            InRequestStop
  <2>5. FailuresKept'
    BY <1>2, <2>1 DEF IInv, FailuresKept, Started, SimulationFailed, At
  <2> QED  BY <2>2, <2>3, <2>4, <2>5 DEF IInv
<1> QED  BY <1>1, <1>2

\* A sequence over the numbers that all lie in T is one over T.
LEMMA NumbersBelow ==
  ASSUME NEW s \in Seq(Nat), NEW T, \A i \in 1 .. Len(s) : s[i] \in T
  PROVE  s \in Seq(T)
<1>1. s \in [1 .. Len(s) -> T] /\ Len(s) \in Nat
  BY LenProperties
<1> QED  BY <1>1

\* The invariant gives the types.
LEMMA InvariantTypes == IInv => TypeOK
<1> SUFFICES ASSUME IInv PROVE TypeOK
  OBVIOUS
<1>1. Len(outcome) \in Nat /\ DOMAIN outcome = 1 .. Len(outcome)
  BY LenProperties DEF IInv, CommandsInOrder
<1>2. queue \in Seq(DOMAIN outcome)
  <2>1. \A i \in 1 .. Len(queue) : queue[i] \in DOMAIN outcome
    <3>1. CommandsInOrder
      BY DEF IInv
    <3>2. ASSUME NEW i \in 1 .. Len(queue) PROVE queue[i] \in 1 .. Len(outcome)
      BY <3>1, QueueLengths, QueueNumbers
    <3> QED  BY <1>1, <3>2
  <2> QED  BY <2>1, NumbersBelow DEF IInv, CommandsInOrder
<1>3. batch \in Seq(DOMAIN outcome)
  <2>1. \A i \in 1 .. Len(batch) : batch[i] \in DOMAIN outcome
    BY <1>1, QueueLengths, QueueNumbers DEF IInv
  <2> QED  BY <2>1, NumbersBelow DEF IInv, CommandsInOrder
<1>4. /\ {windowed, ticks, appStop, simStop, stopToken, posted, commandsPending, closed,
          startupError, simFailure, initialized, attempted, stopped, failed} \subseteq BOOLEAN
      /\ runs \in 0 .. MaxRuns
  BY DEF IInv, FlagsTyped, ThreadEnclosed, FailuresKept
<1>5. /\ startup \in {"Unresolved", "Ready", "Failed"}
      /\ completion \in {"Running", "Completed", "Failed"}
      /\ result \in {0, 1}
  BY DEF IInv, FailuresKept
<1>6. /\ pc \in [Threads -> MainLabels \cup SimLabels \cup SubmitLabels \cup StopLabels]
      /\ ret \in [Threads -> MainLabels \cup SimLabels]
  BY DEF IInv, ThreadsInPlace
<1>7. /\ outcome \in Seq({"Pending", "Applied", "Discarded"})
      /\ Len(queue) <= Capacity /\ late \subseteq DOMAIN outcome
  BY <1>1 DEF IInv, CommandsInOrder, LateCancelled
<1> QED  BY <1>2, <1>3, <1>4, <1>5, <1>6, <1>7 DEF TypeOK

\* Between two runs nothing is left of the last one.
LEMMA InvariantSound == IInv => RunSound
<1> SUFFICES ASSUME IInv PROVE RunSound
  OBVIOUS
<1>1. pc[Main] \in Unstarted \cup {"Shutdown"} => At(Main) = pc[Main]
  BY DEF At, Unstarted, StopLabels
<1>2. SimulationEnclosed
  BY <1>1 DEF IInv, ThreadEnclosed, SimulationEnclosed, Unstarted
<1>3. RunEndsClean
  <2> SUFFICES ASSUME pc[Main] = "Idle", runs > 0
               PROVE  /\ LeftByRun /\ closed /\ queue = <<>> /\ batch = <<>>
                      /\ \A k \in DOMAIN outcome : outcome[k] # "Pending"
    BY DEF RunEndsClean
  <2>1. appStop = TRUE /\ simStop = TRUE
    BY DEF IInv, StopsRaised, FlagsTyped
  <2>2. LeftByRun
    BY <2>1 DEF IInv, FlagsTyped, ThreadsInPlace, LeftByRun
  <2>3. pc[Sim] \in {"None", "Exited"}
    BY <1>2 DEF SimulationEnclosed
  <2>4. closed /\ queue = <<>> /\ batch = <<>>
    BY <2>3 DEF IInv, CommandsInOrder, OpenSteps
  <2>5. DOMAIN outcome = 1 .. Len(outcome) /\ Settled = Len(outcome)
    BY <2>4, QueueLengths, LenProperties DEF IInv, CommandsInOrder
  <2> QED  BY <2>2, <2>4, <2>5, QueueLengths, QueueNumbers DEF IInv
<1>4. FailureReported
  <2> SUFFICES ASSUME pc[Main] = "Idle" PROVE result = 1 <=> failed
    BY DEF FailureReported
  <2>1. At(Main) = "Idle"
    BY DEF At, StopLabels
  <2>2. attempted => pc[Sim] = "Exited"
    BY <2>1 DEF IInv, ThreadEnclosed
  <2> QED  BY <2>1, <2>2 DEF IInv, FailuresKept, Started, SimulationFailed
<1> QED  BY InvariantTypes, <1>2, <1>3, <1>4 DEF RunSound

\* The inductive invariant holds in every reachable state.
LEMMA SafeInvariant == SafeSpec => []IInv
BY InitInvariant, NextInvariant, PTL DEF SafeSpec

(***************************************************************************)
(* Every run of every App is sound: the simulation thread lives between    *)
(* its start and its join, and a run, however it ends, leaves the queue    *)
(* closed and empty, each accepted command with its outcome, and returns 1 *)
(* exactly when some stage failed (App::run, stopSimulation,               *)
(* cancelCommands).                                                        *)
(***************************************************************************)
THEOREM RunIsSound == SafeSpec => []RunSound
BY SafeInvariant, InvariantSound, PTL

(***************************************************************************)
(* However many threads ask for a stop, and whenever: a command accepted   *)
(* after a requestStop() has returned is cancelled, never applied          *)
(* (App::requestStop, SimulationThread::threadMain).                       *)
(***************************************************************************)
THEOREM LateNeverApplied == SafeSpec => []NeverAppliedLate
<1>1. IInv => NeverAppliedLate
  BY DEF IInv, LateCancelled
<1> QED  BY <1>1, SafeInvariant, PTL

-----------------------------------------------------------------------------
(* The steps of the app are steps of CommandLog.                           *)

\* Only four actions give an outcome or accept a command.
LEMMA OutcomeKept ==
  ASSUME Next, ~HookThrows, ~ApplyCommand, ~DrainCommands,
         \A s \in Submitters : ~SubmitAccepted(s)
  PROVE  outcome' = outcome
<1> USE DEF commands, vars
<1>1. CASE BeginRun
  BY <1>1 DEF BeginRun
<1>2. CASE InitDone
  BY <1>2 DEF InitDone
<1>3. CASE InitFails
  BY <1>3 DEF InitFails
<1>4. CASE FinalizeSimulation
  BY <1>4 DEF FinalizeSimulation
<1>5. CASE MainThrows
  BY <1>5 DEF MainThrows
<1>6. CASE TestStop
  BY <1>6 DEF TestStop
<1>7. CASE ResetSimStop
  BY <1>7 DEF ResetSimStop
<1>8. CASE CreateSimulationThread
  BY <1>8 DEF CreateSimulationThread
<1>9. CASE CreationFails
  BY <1>9 DEF CreationFails
<1>10. CASE AwaitReady
  BY <1>10 DEF AwaitReady
<1>11. CASE MainLoop
  BY <1>11 DEF MainLoop
<1>12. CASE CloseWindow
  BY <1>12 DEF CloseWindow
<1>13. CASE MainUpdate
  BY <1>13 DEF MainUpdate
<1>14. CASE TakeEvent
  BY <1>14 DEF TakeEvent
<1>15. CASE OtherEvent
  BY <1>15 DEF OtherEvent
<1>16. CASE SpuriousMainWakeup
  BY <1>16 DEF SpuriousMainWakeup
<1>17. CASE LeaveMainThread
  BY <1>17 DEF LeaveMainThread
<1>18. CASE StopSimulation
  BY <1>18 DEF StopSimulation
<1>19. CASE SetStopToken
  BY <1>19 DEF SetStopToken
<1>20. CASE JoinFailedSimulation
  BY <1>20 DEF JoinFailedSimulation
<1>21. CASE JoinSimulation
  BY <1>21 DEF JoinSimulation
<1>22. CASE Shutdown
  BY <1>22 DEF Shutdown
<1>23. CASE HookReturns
  BY <1>23 DEF HookReturns
<1>24. CASE OpenQueue
  BY <1>24 DEF OpenQueue
<1>25. CASE SignalReady
  BY <1>25 DEF SignalReady
<1>26. CASE StartupLoadFails
  BY <1>26 DEF StartupLoadFails
<1>27. CASE SimLoop
  BY <1>27 DEF SimLoop
<1>28. CASE ClearPending
  BY <1>28 DEF ClearPending
<1>29. CASE ConsumeCommands
  BY <1>29 DEF ConsumeCommands
<1>30. CASE SimWait
  BY <1>30 DEF SimWait
<1>31. CASE TickDue
  BY <1>31 DEF TickDue
<1>32. CASE SpuriousSimWakeup
  BY <1>32 DEF SpuriousSimWakeup
<1>33. CASE CancelCommands
  BY <1>33 DEF CancelCommands
<1>34. CASE LeaveSimulation
  BY <1>34 DEF LeaveSimulation
<1>35. CASE FinishSimulation
  BY <1>35 DEF FinishSimulation
<1>36. ASSUME NEW s \in Submitters, SubmitRefused(s) PROVE outcome' = outcome
  BY <1>36 DEF SubmitRefused
<1>37. ASSUME NEW s \in Submitters, SetCommandsPending(s) PROVE outcome' = outcome
  BY <1>37 DEF SetCommandsPending
<1>38. ASSUME NEW s \in Submitters, NotifyCommands(s) PROVE outcome' = outcome
  BY <1>38 DEF NotifyCommands
<1>39. ASSUME NEW s \in Stoppers, BeginStop(s) PROVE outcome' = outcome
  BY <1>39 DEF BeginStop
<1>40. ASSUME NEW t \in Threads \ Submitters, SetStop(t) PROVE outcome' = outcome
  BY <1>40 DEF SetStop
<1>41. ASSUME NEW t \in Threads \ Submitters, NotifyMain(t) PROVE outcome' = outcome
  BY <1>41 DEF NotifyMain
<1>42. ASSUME NEW t \in Threads \ Submitters, CloseQueue(t) PROVE outcome' = outcome
  BY <1>42 DEF CloseQueue
<1>43. ASSUME NEW t \in Threads \ Submitters, PostEvent(t) PROVE outcome' = outcome
  BY <1>43 DEF PostEvent
<1>44. ASSUME NEW t \in Threads \ Submitters, SetSimStop(t) PROVE outcome' = outcome
  BY <1>44 DEF SetSimStop
<1>45. ASSUME NEW t \in Threads \ Submitters, NotifySim(t) PROVE outcome' = outcome
  BY <1>45 DEF NotifySim
<1> QED  BY <1>1, <1>2, <1>3, <1>4, <1>5, <1>6, <1>7, <1>8, <1>9, <1>10, <1>11, <1>12, <1>13, <1>14,
          <1>15, <1>16, <1>17, <1>18, <1>19, <1>20, <1>21, <1>22, <1>23, <1>24, <1>25, <1>26, <1>27,
          <1>28, <1>29, <1>30, <1>31, <1>32, <1>33, <1>34, <1>35, <1>36, <1>37, <1>38, <1>39, <1>40,
          <1>41, <1>42, <1>43, <1>44, <1>45 DEF Next, MainStep, SimStep, SubmitStep, RequestStopStep

\* Discarding the pending commands up to m is a step of the log, or none.
LEMMA DiscardStep ==
  ASSUME CommandsInOrder, NEW m \in Settled .. Len(outcome),
         outcome' \in Seq(Fates), Len(outcome') = Len(outcome),
         \A k \in 1 .. Len(outcome) :
            outcome'[k] = IF k > Settled /\ k <= m THEN "Discarded" ELSE outcome[k]
  PROVE  [Log!Next]_outcome
<1>1. DOMAIN outcome = 1 .. Len(outcome) /\ Len(outcome) \in Nat /\ outcome \in Seq(Fates)
  BY LenProperties DEF CommandsInOrder, Fates
<1>2. Settled \in Nat /\ m \in Nat
  BY <1>1 DEF CommandsInOrder
<1>3. CASE m = Settled
  <2>1. \A k \in 1 .. Len(outcome) : outcome'[k] = outcome[k]
    BY <1>1, <1>2, <1>3
  <2>2. outcome' = outcome
    BY <1>1, <2>1, SeqEqual
  <2> QED  BY <2>2
<1>4. CASE m > Settled
  <2>1. m \in DOMAIN outcome
    BY <1>1, <1>2, <1>4
  <2>2. \A k \in 1 .. Len(outcome) : k \in Log!Resolved <=> ~(k > Settled)
    BY <1>1, QueueNumbers DEF Log!Resolved
  <2>3. \A k \in 1 .. Len(outcome) : (k > Settled /\ k <= m) <=> (k <= m /\ k \notin Log!Resolved)
    BY <2>2
  <2>4. outcome' = [k \in 1 .. Len(outcome) |->
                      IF k <= m /\ k \notin Log!Resolved THEN "Discarded" ELSE outcome[k]]
    <3>1. DOMAIN outcome' = 1 .. Len(outcome) /\ outcome' = [k \in 1 .. Len(outcome) |-> outcome'[k]]
      BY LenProperties
    <3>2. \A k \in 1 .. Len(outcome) :
            outcome'[k] = IF k <= m /\ k \notin Log!Resolved THEN "Discarded" ELSE outcome[k]
      BY <2>3
    <3> QED  BY <3>1, <3>2
  <2> QED  BY <1>1, <2>1, <2>4 DEF Log!Next, Log!Discard
<1> QED  BY <1>2, <1>3, <1>4

\* Every step is one of the log, or leaves it alone.
LEMMA LogStep == IInv /\ [Next]_vars => [Log!Next]_outcome
<1> SUFFICES ASSUME IInv, [Next]_vars PROVE [Log!Next]_outcome
  OBVIOUS
<1>1. ThreadsInPlace /\ CommandsInOrder
  BY DEF IInv
<1>2. CASE UNCHANGED vars
  BY <1>2 DEF vars, commands
<1>3. ASSUME NEW s \in Submitters, SubmitAccepted(s) PROVE [Log!Next]_outcome
  BY <1>3 DEF SubmitAccepted, Log!Next, Log!Accept
<1>4. CASE ApplyCommand
  <2>1. Settled + 1 \in DOMAIN outcome /\ outcome' = [outcome EXCEPT ![Settled + 1] = "Applied"]
    BY <1>1, <1>4, ApplyOrder, LenProperties DEF CommandsInOrder
  <2>2. outcome[Settled + 1] = "Pending"
    BY <1>1, <1>4, ApplyOrder, QueueNumbers, QueueLengths
  <2>3. 1 .. (Settled + 1) - 1 \subseteq Log!Resolved
    <3>1. DOMAIN outcome = 1 .. Len(outcome)
      BY <1>1, LenProperties DEF CommandsInOrder
    <3>2. \A k \in 1 .. (Settled + 1) - 1 : k \in 1 .. Len(outcome) /\ ~(k > Settled)
      BY <1>1, QueueLengths
    <3> QED  BY <1>1, <3>1, <3>2, QueueNumbers DEF Log!Resolved
  <2> QED  BY <2>1, <2>2, <2>3 DEF Log!Next, Log!Apply
<1>5. CASE HookThrows
  <2>1. /\ CommandsInOrder' /\ Settled' = Settled + Len(batch) /\ Len(outcome') = Len(outcome)
        /\ \A k \in 1 .. Len(outcome) :
              outcome'[k] = IF k > Settled /\ k <= Settled' THEN "Discarded" ELSE outcome[k]
    BY <1>1, <1>5, ThrowOrder
  <2>2. Settled' \in Settled .. Len(outcome)
    BY <1>1, <2>1, QueueLengths
  <2>3. outcome' \in Seq(Fates)
    BY <2>1 DEF CommandsInOrder, Fates
  <2> QED  BY <1>1, <2>1, <2>2, <2>3, DiscardStep
<1>6. CASE DrainCommands
  <2>1. /\ CommandsInOrder' /\ Settled' = Len(outcome) /\ Len(outcome') = Len(outcome)
        /\ \A k \in 1 .. Len(outcome) : outcome'[k] = IF k > Settled THEN "Discarded" ELSE outcome[k]
    BY <1>1, <1>6, DrainOrder
  <2>2. Len(outcome) \in Settled .. Len(outcome)
    BY <1>1, QueueLengths
  <2>3. \A k \in 1 .. Len(outcome) : outcome'[k]
            = IF k > Settled /\ k <= Len(outcome) THEN "Discarded" ELSE outcome[k]
    BY <2>1
  <2>4. outcome' \in Seq(Fates)
    BY <2>1 DEF CommandsInOrder, Fates
  <2> QED  BY <1>1, <2>1, <2>2, <2>3, <2>4, DiscardStep
<1>7. CASE Next /\ ~HookThrows /\ ~ApplyCommand /\ ~DrainCommands
           /\ \A s \in Submitters : ~SubmitAccepted(s)
  BY <1>7, OutcomeKept
<1> QED  BY <1>2, <1>3, <1>4, <1>5, <1>6, <1>7

(***************************************************************************)
(* The app implements the safety part of CommandLog: whatever the threads  *)
(* do, accepted commands get one outcome each, in the order of acceptance, *)
(* and keep it (submitCommand, applyCommands, cancelCommands).             *)
(***************************************************************************)
THEOREM CommandsAsLogged == SafeSpec => Log!SafeSpec
<1>1. Init => Log!Init
  BY DEF Init, Log!Init
<1> QED  BY <1>1, LogStep, SafeInvariant, PTL DEF SafeSpec, Log!SafeSpec
=============================================================================
