--------------------------- MODULE JobSystemProofs ---------------------------
(***************************************************************************)
(* IInv is an inductive invariant of JobSystem, for any pool, any callers  *)
(* and any bounds; the barrier and the drain at shutdown follow from it.   *)
(* The last section proves the tables of the log beside it.                *)
(***************************************************************************)
EXTENDS JobSystem, FiniteSetTheorems, SequenceTheorems, TLAPS

-----------------------------------------------------------------------------
(* Sequences *)

(***************************************************************************)
(* Taking the front of a queue without repetitions takes that element out  *)
(* of the set of what is queued and leaves no repetition.                  *)
(***************************************************************************)
LEMMA PopFront ==
    ASSUME NEW S, NEW q \in Seq(S), q # <<>>, IsInjective(q)
    PROVE  /\ Tail(q) \in Seq(S)
           /\ Head(q) \in S
           /\ Range(Tail(q)) = Range(q) \ {Head(q)}
           /\ Head(q) \in Range(q)
           /\ IsInjective(Tail(q))
<1>0. \A i, j \in 1 .. Len(q) : q[i] = q[j] => i = j
  BY LenProperties DEF IsInjective
<1>1. /\ Tail(q) \in Seq(S) /\ Head(q) = q[1] /\ Len(q) \in Nat \ {0}
      /\ Len(Tail(q)) = Len(q) - 1
      /\ \A i \in 1 .. Len(Tail(q)) : Tail(q)[i] = q[i + 1]
  BY HeadTailProperties, LenProperties
<1>2. Head(q) \in S
  BY <1>1, ElementOfSeq
<1>3. {Tail(q)[i] : i \in 1 .. Len(Tail(q))} = {q[i] : i \in 2 .. Len(q)}
  <2>1. ASSUME NEW i \in 1 .. Len(Tail(q))
        PROVE  Tail(q)[i] \in {q[k] : k \in 2 .. Len(q)}
    <3>1. i + 1 \in 2 .. Len(q)  BY <1>1
    <3> QED  BY <1>1, <3>1
  <2>2. ASSUME NEW k \in 2 .. Len(q)
        PROVE  q[k] \in {Tail(q)[i] : i \in 1 .. Len(Tail(q))}
    <3>1. k - 1 \in 1 .. Len(Tail(q)) /\ (k - 1) + 1 = k  BY <1>1
    <3> QED  BY <1>1, <3>1
  <2> QED  BY <2>1, <2>2
<1>4. {q[i] : i \in 2 .. Len(q)} = {q[i] : i \in 1 .. Len(q)} \ {Head(q)}
  <2>1. \A i \in 2 .. Len(q) : i \in 1 .. Len(q) /\ 1 \in 1 .. Len(q) /\ i # 1
    BY <1>1
  <2>2. \A i \in 1 .. Len(q) : i # 1 => i \in 2 .. Len(q)
    BY <1>1
  <2> QED  BY <1>0, <1>1, <2>1, <2>2
<1>5. Head(q) \in {q[i] : i \in 1 .. Len(q)}
  <2>1. 1 \in 1 .. Len(q)  BY <1>1
  <2> QED  BY <1>1, <2>1
<1>6. ASSUME NEW i \in 1 .. Len(Tail(q)), NEW j \in 1 .. Len(Tail(q)),
             Tail(q)[i] = Tail(q)[j]
      PROVE  i = j
  <2>1. i + 1 \in 1 .. Len(q) /\ j + 1 \in 1 .. Len(q)  BY <1>1
  <2>2. i + 1 = j + 1  BY <1>0, <1>1, <1>6, <2>1
  <2> QED  BY <2>2
<1>7. DOMAIN Tail(q) = 1 .. Len(Tail(q))
  BY <1>1, LenProperties
<1>8. /\ Range(q) = {q[i] : i \in 1 .. Len(q)}
      /\ Range(Tail(q)) = {Tail(q)[i] : i \in 1 .. Len(Tail(q))}
  BY <1>1, RangeEquality, ZenonT(30)
<1> QED  BY <1>1, <1>2, <1>3, <1>4, <1>5, <1>6, <1>7, <1>8 DEF IsInjective

(***************************************************************************)
(* Appending a batch of new tasks adds exactly those tasks to what is      *)
(* queued and repeats none.                                                *)
(***************************************************************************)
BatchOf(id, n) == [i \in 1 .. n |-> <<id, i>>]

LEMMA PushBatch ==
    ASSUME NEW q \in Seq(Nat \X Nat), NEW id \in Nat, NEW n \in Nat,
           IsInjective(q), \A s \in Range(q) : s[1] # id
    PROVE  /\ q \o BatchOf(id, n) \in Seq(Nat \X Nat)
           /\ Range(q \o BatchOf(id, n)) = Range(q) \cup ({id} \X (1 .. n))
           /\ IsInjective(q \o BatchOf(id, n))
<1> DEFINE new == BatchOf(id, n)
<1>1. new \in Seq(Nat \X Nat) /\ Len(new) = n /\ \A k \in 1 .. n : new[k] = <<id, k>>
  <2>1. \A i \in 1 .. n : <<id, i>> \in Nat \X Nat  OBVIOUS
  <2>2. new \in Seq(Nat \X Nat)  BY <2>1, IsASeq DEF BatchOf
  <2> QED  BY <2>2, LenProperties DEF BatchOf
<1>2. /\ q \o new \in Seq(Nat \X Nat) /\ Len(q \o new) = Len(q) + n /\ Len(q) \in Nat
      /\ \A i \in 1 .. Len(q \o new) :
            (q \o new)[i] = IF i <= Len(q) THEN q[i] ELSE new[i - Len(q)]
  <2> HIDE DEF new
  <2>1. /\ q \o new \in Seq(Nat \X Nat) /\ Len(q \o new) = Len(q) + Len(new)
        /\ \A i \in 1 .. Len(q) + Len(new) :
            (q \o new)[i] = IF i <= Len(q) THEN q[i] ELSE new[i - Len(q)]
    BY <1>1, ConcatProperties
  <2> QED  BY <1>1, <2>1, LenProperties
<1>3. Range(new) = {id} \X (1 .. n)
  <2>1. Range(new) = {new[k] : k \in 1 .. n}
    BY <1>1, RangeEquality
  <2>2. \A x \in {id} \X (1 .. n) : \E k \in 1 .. n : x = <<id, k>>
    OBVIOUS
  <2>3. {new[k] : k \in 1 .. n} \subseteq {id} \X (1 .. n)
    BY <1>1
  <2>4. {id} \X (1 .. n) \subseteq {new[k] : k \in 1 .. n}
    <3> SUFFICES ASSUME NEW x \in {id} \X (1 .. n) PROVE x \in {new[k] : k \in 1 .. n}
      OBVIOUS
    <3>1. PICK k \in 1 .. n : x = <<id, k>>
      BY <2>2
    <3>2. x = new[k]
      BY <1>1, <3>1
    <3> HIDE DEF new
    <3> QED  BY <3>2
  <2> QED  BY <2>1, <2>3, <2>4
<1>4. Range(q \o new) = Range(q) \cup ({id} \X (1 .. n))
  BY <1>1, <1>3, RangeConcatenation
<1>5. IsInjective(q \o new)
  <2> SUFFICES ASSUME NEW r, r = q \o new PROVE IsInjective(r)
    OBVIOUS
  <2>1. /\ DOMAIN r = 1 .. Len(q) + n /\ Len(q) \in Nat
        /\ \A i \in 1 .. Len(q) + n : r[i] = IF i <= Len(q) THEN q[i] ELSE new[i - Len(q)]
    BY <1>2, LenProperties
  <2>2. \A i, j \in 1 .. Len(q) : q[i] = q[j] => i = j
    BY LenProperties DEF IsInjective
  <2>3. \A i \in 1 .. Len(q) : q[i][1] # id
    BY RangeEquality
  <2> HIDE DEF new
  <2>4. \A i \in 1 .. Len(q) + n :
            i \in 1 .. Len(q) \/ (i - Len(q) \in 1 .. n /\ ~(i <= Len(q)))
    BY <2>1
  <2>5. \A i \in 1 .. Len(q) + n :
            /\ i \in 1 .. Len(q) => r[i] = q[i]
            /\ i \notin 1 .. Len(q) => r[i][1] = id /\ r[i][2] = i - Len(q)
    BY <1>1, <2>1, <2>4
  <2>6. ASSUME NEW i \in 1 .. Len(q) + n, NEW j \in 1 .. Len(q) + n, r[i] = r[j]
        PROVE  i = j
    <3>1. CASE i \in 1 .. Len(q) /\ j \in 1 .. Len(q)
      BY <2>2, <2>5, <2>6, <3>1
    <3>2. CASE i \in 1 .. Len(q) /\ j \notin 1 .. Len(q)
      <4>1. r[i][1] # id /\ r[j][1] = id  BY <2>3, <2>5, <3>2
      <4> QED  BY <2>6, <4>1
    <3>3. CASE i \notin 1 .. Len(q) /\ j \in 1 .. Len(q)
      <4>1. r[j][1] # id /\ r[i][1] = id  BY <2>3, <2>5, <3>3
      <4> QED  BY <2>6, <4>1
    <3>4. CASE i \notin 1 .. Len(q) /\ j \notin 1 .. Len(q)
      <4>1. r[i][2] = i - Len(q) /\ r[j][2] = j - Len(q)  BY <2>5, <3>4
      <4>2. i - Len(q) = j - Len(q)  BY <2>6, <4>1
      <4>3. i \in Int /\ j \in Int /\ Len(q) \in Int  BY <2>1
      <4> QED  BY <4>2, <4>3
    <3> QED  BY <3>1, <3>2, <3>3, <3>4
  <2> QED  BY <2>1, <2>6 DEF IsInjective
<1> QED  BY <1>2, <1>4, <1>5

(***************************************************************************)
(* Taking the front of an ordered queue leaves it ordered and takes what   *)
(* comes before the rest.                                                  *)
(***************************************************************************)
LEMMA PopFrontOrdered ==
    ASSUME NEW q \in Seq(Nat \X Nat), q # <<>>,
           \A i, j \in 1 .. Len(q) : i < j => Earlier(q[i], q[j])
    PROVE  /\ \A i, j \in 1 .. Len(Tail(q)) : i < j => Earlier(Tail(q)[i], Tail(q)[j])
           /\ \A t \in Range(Tail(q)) : Earlier(Head(q), t)
<1>1. /\ Tail(q) \in Seq(Nat \X Nat) /\ Head(q) = q[1] /\ Len(q) \in Nat \ {0}
      /\ Len(Tail(q)) = Len(q) - 1
      /\ \A i \in 1 .. Len(Tail(q)) : Tail(q)[i] = q[i + 1]
  BY HeadTailProperties, LenProperties
<1>2. \A i \in 1 .. Len(Tail(q)) : i + 1 \in 1 .. Len(q) /\ 1 < i + 1
  BY <1>1
<1>3. 1 \in 1 .. Len(q)
  BY <1>1
<1>4. \A i \in 1 .. Len(Tail(q)) : Earlier(Head(q), Tail(q)[i])
  BY <1>1, <1>2, <1>3
<1>5. Range(Tail(q)) = {Tail(q)[i] : i \in 1 .. Len(Tail(q))}
  BY <1>1, RangeEquality
<1>6. ASSUME NEW i \in 1 .. Len(Tail(q)), NEW j \in 1 .. Len(Tail(q)), i < j
      PROVE  Earlier(Tail(q)[i], Tail(q)[j])
  <2>1. i + 1 < j + 1
    BY <1>1, <1>6
  <2> QED  BY <1>1, <1>2, <2>1
<1> QED  BY <1>4, <1>5, <1>6

(***************************************************************************)
(* A batch pushed behind tasks of earlier batches keeps a queue in order.  *)
(***************************************************************************)
LEMMA PushBatchOrdered ==
    ASSUME NEW q \in Seq(Nat \X Nat), NEW id \in Nat, NEW n \in Nat,
           \A i, j \in 1 .. Len(q) : i < j => Earlier(q[i], q[j]),
           \A s \in Range(q) : s[1] < id,
           NEW r, r = q \o BatchOf(id, n)
    PROVE  \A i, j \in 1 .. Len(r) : i < j => Earlier(r[i], r[j])
<1> DEFINE new == BatchOf(id, n)
<1>1. new \in Seq(Nat \X Nat) /\ Len(new) = n /\ \A k \in 1 .. n : new[k] = <<id, k>>
  <2>1. \A i \in 1 .. n : <<id, i>> \in Nat \X Nat  OBVIOUS
  <2>2. new \in Seq(Nat \X Nat)  BY <2>1, IsASeq DEF BatchOf
  <2> QED  BY <2>2, LenProperties DEF BatchOf
<1> HIDE DEF new
<1>2. /\ Len(r) = Len(q) + n /\ Len(q) \in Nat
      /\ \A i \in 1 .. Len(q) + n : r[i] = IF i <= Len(q) THEN q[i] ELSE new[i - Len(q)]
  BY <1>1, ConcatProperties, LenProperties DEF new
<1>3. \A i \in 1 .. Len(q) : q[i][1] < id
  BY RangeEquality
<1>4. \A i \in 1 .. Len(r) : i <= Len(q) => i \in 1 .. Len(q) /\ r[i] = q[i]
  BY <1>2
<1>5. \A i \in 1 .. Len(r) : ~(i <= Len(q)) => r[i] = <<id, i - Len(q)>>
  <2> SUFFICES ASSUME NEW i \in 1 .. Len(r), ~(i <= Len(q))
               PROVE  r[i] = <<id, i - Len(q)>>
    OBVIOUS
  <2>1. i - Len(q) \in 1 .. n
    BY <1>2
  <2> QED  BY <1>1, <1>2, <2>1
<1> SUFFICES ASSUME NEW i \in 1 .. Len(r), NEW j \in 1 .. Len(r), i < j
             PROVE  Earlier(r[i], r[j])
  OBVIOUS
<1>6. CASE j <= Len(q)
  <2>1. i <= Len(q)  BY <1>2, <1>6
  <2>2. i \in 1 .. Len(q) /\ j \in 1 .. Len(q) /\ r[i] = q[i] /\ r[j] = q[j]
    BY <1>4, <1>6, <2>1
  <2> QED  BY <2>2
<1>7. CASE i <= Len(q) /\ ~(j <= Len(q))
  <2>1. r[i] = q[i] /\ q[i][1] < id  BY <1>3, <1>4, <1>7
  <2>2. r[j] = <<id, j - Len(q)>>  BY <1>5, <1>7
  <2>3. r[j][1] = id  BY <2>2
  <2> QED  BY <2>1, <2>3 DEF Earlier
<1>8. CASE ~(i <= Len(q))
  <2>1. ~(j <= Len(q)) /\ i - Len(q) < j - Len(q)  BY <1>2, <1>8
  <2>2. r[i] = <<id, i - Len(q)>> /\ r[j] = <<id, j - Len(q)>>
    BY <1>5, <1>8, <2>1
  <2>3. r[i][1] = r[j][1] /\ r[i][2] < r[j][2]
    BY <2>1, <2>2
  <2> QED  BY <2>3 DEF Earlier
<1> QED  BY <1>6, <1>7, <1>8

-----------------------------------------------------------------------------
(* The control part of IInv: what depends on pc and a few variables. *)

(***************************************************************************)
(* Initially no thread has done anything (the constructor's start).        *)
(***************************************************************************)
LEMMA InitIInv == Init => IInv
<1> SUFFICES ASSUME Init PROVE IInv  OBVIOUS
<1> USE ThreadsAssumption, NoTaskAssumption DEF Init, Threads
<1>1. TypeOK
  <2>1. batchSize \in Seq(Nat \ {0}) /\ Len(batchSize) = 0 /\ queue \in Seq(Nat \X Nat)
    OBVIOUS
  <2>2. PcOK
    BY DEF PcOK, WorkerStates, CallerStates, CallStates
  <2>3. DOMAIN pendingBatches \subseteq 1 .. Len(batchSize) /\ pendingBatches \in [DOMAIN pendingBatches -> Nat]
    OBVIOUS
  <2>4. hand \in [Workers -> (Nat \X Nat) \cup {NoTask}]
    OBVIOUS
  <2>5. batch \in [Threads -> 0 .. Len(batchSize)]
    BY <2>1
  <2>6. nextBatchId = Len(batchSize) + 1
    BY <2>1
  <2> QED  BY <2>1, <2>2, <2>3, <2>4, <2>5, <2>6 DEF TypeOK
<1>2. HandInv  BY DEF HandInv
<1>3. RegistryInv  BY DEF RegistryInv
<1>4. ConstructionInv  BY DEF ConstructionInv, CallStates
<1>5. StopInv  BY DEF StopInv
<1>6. InOnePlace
  <2>1. Queued = {} /\ IsInjective(queue) /\ AllTasks = {} /\ Held = {}
    BY DEF Queued, Range, IsInjective, AllTasks, Held
  <2> QED  BY <2>1 DEF InOnePlace, Accounted
<1>7. PendingAccounting  BY DEF PendingAccounting
<1>8. BarrierHolds /\ WorkersNeverWait  BY DEF BarrierHolds, WorkersNeverWait
<1> QED  BY <1>1, <1>2, <1>3, <1>4, <1>5, <1>6, <1>7, <1>8 DEF IInv

(***************************************************************************)
(* A thread that goes to a state of its own kind leaves pc well typed, and *)
(* so does a notification that moves the threads blocked on a condition.   *)
(***************************************************************************)
LEMMA GotoPcOK ==
    ASSUME PcOK, NEW t \in Threads, NEW label, Goto(t, label),
           label \in CallStates \/ label \in (IF t \in Workers THEN WorkerStates ELSE CallerStates)
    PROVE  PcOK'
BY ThreadsAssumption DEF PcOK, Goto, Threads

LEMMA NotifyPcOK ==
    ASSUME PcOK, NEW t \in Threads, NEW from, NEW to, NEW label,
           NotifyAll(from, to, t, label),
           \/ (from = "BlockedWork" /\ to = "Take")
           \/ (from = "BlockedBatch" /\ to = "WaitBatch"),
           t \in Workers => label \in WorkerStates,
           t \in Callers => label \in CallerStates
    PROVE  PcOK'
<1> USE DEF WorkerStates, CallerStates, CallStates
<1>1. \A u \in Threads : u # t /\ pc[u] = "BlockedWork" => u \in Workers
  BY ThreadsAssumption DEF PcOK, Threads
<1>2. \A u \in Threads : pc'[u] = IF u = t THEN label
                                  ELSE IF pc[u] = from THEN to ELSE pc[u]
  BY DEF NotifyAll
<1>3. pc' \in [Threads -> WorkerStates \cup CallerStates \cup CallStates]
  BY ThreadsAssumption DEF PcOK, NotifyAll, Threads
<1>4. ASSUME NEW w \in Workers PROVE pc'[w] \in WorkerStates \cup CallStates
  BY <1>2, ThreadsAssumption DEF PcOK, Threads
<1>5. ASSUME NEW c \in Callers PROVE pc'[c] \in CallerStates \cup CallStates
  BY <1>1, <1>2, ThreadsAssumption DEF PcOK, Threads
<1> QED  BY <1>3, <1>4, <1>5 DEF PcOK

LEMMA NotifyWorkPcOK ==
    ASSUME PcOK, NEW t \in Threads, NEW label,
           NotifyAll("BlockedWork", "Take", t, label),
           t \in Workers => label \in WorkerStates,
           t \in Callers => label \in CallerStates
    PROVE  PcOK'
BY NotifyPcOK

(***************************************************************************)
(* Every step keeps pc well typed.                                         *)
(***************************************************************************)
LEMMA PcStep ==
    ASSUME TypeOK, WorkersNeverWait, Next
    PROVE  PcOK'
<1> USE ThreadsAssumption DEF Threads, TypeOK, Back, WorkerStates, CallerStates, CallStates
<1>1. CASE Construction
  BY <1>1 DEF Construction, CreateWorker, Register, RegisterFails, FinishConstruction,
              PcOK, Goto
<1>2. ASSUME NEW w \in Workers, WorkerStep(w) PROVE PcOK'
  <2>1. CASE NotifyBatchComplete(w)
    BY <2>1, NotifyPcOK DEF NotifyBatchComplete
  <2>2. CASE ~NotifyBatchComplete(w)
    <3>1. CASE AccountTask(w)
      <4>1. Goto(w, "NotifyBatch") \/ Goto(w, "Take")
        BY <3>1 DEF AccountTask, Goto
      <4> QED  BY <4>1, GotoPcOK
    <3>2. CASE ~AccountTask(w)
      <4>1. \E label \in WorkerStates : Goto(w, label)
        BY <1>2, <2>2, <3>2 DEF WorkerStep, TakeTask, BlockForWork, LeaveLoop, FinishTask,
                                Unregister
      <4> QED  BY <4>1, GotoPcOK
    <3> QED  BY <3>1, <3>2
  <2> QED  BY <2>1, <2>2
<1>3. ASSUME NEW t \in Threads, BeginCall(t) \/ CallStep(t) \/ SpuriousWakeup(t)
      PROVE  PcOK'
  <2>1. CASE NotifyWorkAvailable(t)
    <3> DEFINE label == IF t \in Workers THEN "Running" ELSE "Free"
    <3>1. NotifyAll("BlockedWork", "Take", t, label) /\ PcOK
      BY <2>1 DEF NotifyWorkAvailable
    <3>2. label \in IF t \in Workers THEN WorkerStates ELSE CallerStates
      OBVIOUS
    <3> HIDE DEF label
    <3> QED  BY <3>1, <3>2, NotifyWorkPcOK
  <2>2. CASE TestBatch(t)
    BY <2>2, GotoPcOK DEF TestBatch
  <2>3. CASE BeginCall(t)
    <3>1. \/ Goto(t, "NotifyWork") \/ Goto(t, "WaitBatch")
          \/ Goto(t, IF t \in Workers THEN "Running" ELSE "Free")
          \/ Goto(t, IF t \in Workers THEN "Running" ELSE "Returned")
      BY <2>3 DEF BeginCall, SubmitAccepted, SubmitRefused, Wait, Goto
    <3> QED  BY <3>1, GotoPcOK
  <2>4. CASE SpuriousWakeup(t)
    <3>1. pc[t] = "BlockedWork" => t \in Workers
      BY DEF PcOK
    <3> QED  BY <2>4, <3>1, GotoPcOK DEF SpuriousWakeup
  <2> QED  BY <1>3, <2>1, <2>2, <2>3, <2>4 DEF CallStep
<1>4. ASSUME NEW c \in Callers, CallShutdown(c) \/ ShutdownStep(c) PROVE PcOK'
  <2>1. c \in Threads /\ c \notin Workers
    OBVIOUS
  <2>2. CASE NotifyStop(c)
    <3>1. NotifyAll("BlockedWork", "Take", c, "Join") /\ PcOK
      BY <2>2 DEF NotifyStop
    <3> QED  BY <2>1, <3>1, NotifyWorkPcOK
  <2>3. CASE ~NotifyStop(c)
    <3>1. \E label \in CallerStates : Goto(c, label)
      BY <1>4, <2>3 DEF CallShutdown, ShutdownStep, StopRunning, AlreadyStopped, JoinWorkers
    <3> QED  BY <2>1, <3>1, GotoPcOK
  <2> QED  BY <2>2, <2>3
<1> QED  BY <1>1, <1>2, <1>3, <1>4 DEF Next

(***************************************************************************)
(* Every step keeps the types of the data.                                 *)
(***************************************************************************)
DataOK ==
    /\ batchSize \in Seq(Nat \ {0})
    /\ nextBatchId = Len(batchSize) + 1
    /\ queue \in Seq(Nat \X Nat)
    /\ DOMAIN pendingBatches \subseteq 1 .. Len(batchSize)
    /\ pendingBatches \in [DOMAIN pendingBatches -> Nat]
    /\ batch \in [Threads -> 0 .. Len(batchSize)]

LEMMA DataStep ==
    ASSUME IInv, Next
    PROVE  DataOK'
<1>0. DataOK
  BY DEF IInv, TypeOK, DataOK
<1> USE DEF poolVars
<1>1. CASE UNCHANGED <<poolVars, batch>>
  BY <1>0, <1>1 DEF DataOK
<1>2. ASSUME NEW w \in Workers, TakeTask(w) PROVE DataOK'
  <2>1. queue' \in Seq(Nat \X Nat)
    BY <1>0, <1>2, HeadTailProperties DEF TakeTask, DataOK
  <2> QED  BY <1>0, <1>2, <2>1 DEF TakeTask, DataOK
<1>3. ASSUME NEW w \in Workers, AccountTask(w) PROVE DataOK'
  <2> DEFINE b == hand[w][1]
  <2>1. pendingBatches' = CountDown(pendingBatches, b)
    BY <1>3 DEF AccountTask
  <2> HIDE DEF b
  <2>2. b \in DOMAIN pendingBatches => pendingBatches[b] \in Nat \ {0}
    BY <1>0 DEF IInv, PendingAccounting, DataOK
  <2>3. /\ DOMAIN pendingBatches' \subseteq DOMAIN pendingBatches
        /\ pendingBatches' \in [DOMAIN pendingBatches' -> Nat]
    <3>1. CASE b \notin DOMAIN pendingBatches
      BY <1>0, <2>1, <3>1 DEF CountDown, DataOK
    <3>2. CASE b \in DOMAIN pendingBatches /\ pendingBatches[b] = 1
      BY <1>0, <2>1, <3>2 DEF CountDown, DataOK
    <3>3. CASE b \in DOMAIN pendingBatches /\ pendingBatches[b] # 1
      <4>1. pendingBatches' = [pendingBatches EXCEPT ![b] = @ - 1]
        BY <2>1, <3>3 DEF CountDown
      <4>2. pendingBatches[b] - 1 \in Nat
        BY <2>2, <3>3
      <4> QED  BY <1>0, <3>3, <4>1, <4>2 DEF DataOK
    <3> QED  BY <3>1, <3>2, <3>3
  <2> QED  BY <1>0, <1>3, <2>3 DEF AccountTask, DataOK
<1>4. ASSUME NEW t \in Threads, NEW n \in 1 .. MaxTasks, SubmitAccepted(t, n)
      PROVE  DataOK'
  <2>1. n \in Nat \ {0} /\ n \in Nat
    BY BoundsAssumption
  <2>2. /\ batchSize' \in Seq(Nat \ {0})
        /\ Len(batchSize') = Len(batchSize) + 1
        /\ Len(batchSize) \in Nat
    BY <1>0, <1>4, <2>1, AppendProperties, LenProperties DEF SubmitAccepted, DataOK
  <2>3. queue' \in Seq(Nat \X Nat)
    <3>1. [i \in 1 .. n |-> <<nextBatchId, i>>] \in Seq(Nat \X Nat)
      <4>1. \A i \in 1 .. n : <<nextBatchId, i>> \in Nat \X Nat
        BY <1>0, <2>2 DEF DataOK
      <4> QED  BY <2>1, <4>1, IsASeq
    <3> QED  BY <1>0, <1>4, <3>1, ConcatProperties DEF SubmitAccepted, DataOK
  <2>4. /\ DOMAIN pendingBatches' \subseteq 1 .. Len(batchSize')
        /\ pendingBatches' \in [DOMAIN pendingBatches' -> Nat]
    BY <1>0, <1>4, <2>1, <2>2 DEF SubmitAccepted, DataOK
  <2>5. batch' \in [Threads -> 0 .. Len(batchSize')]
    BY <1>0, <1>4, <2>2 DEF SubmitAccepted, DataOK
  <2> QED  BY <1>0, <1>4, <2>2, <2>3, <2>4, <2>5 DEF SubmitAccepted, DataOK
<1>5. ASSUME NEW t \in Threads, SubmitRefused(t) PROVE DataOK'
  BY <1>0, <1>5 DEF SubmitRefused, DataOK
<1>6. ASSUME NEW t \in Threads, NEW b \in 0 .. MaxBatches, Wait(t, b) PROVE DataOK'
  <2>1. b \in 0 .. Len(batchSize)
    BY <1>0, <1>6, LenProperties DEF Wait, DataOK
  <2> QED  BY <1>0, <1>6, <2>1 DEF Wait, DataOK
<1>7. CASE Construction
  BY <1>1, <1>7 DEF Construction, CreateWorker, Register, RegisterFails, FinishConstruction
<1>8. ASSUME NEW w \in Workers, WorkerStep(w) PROVE DataOK'
  BY <1>1, <1>2, <1>3, <1>8 DEF WorkerStep, BlockForWork, LeaveLoop, FinishTask,
                                NotifyBatchComplete, Unregister
<1>9. ASSUME NEW t \in Threads, BeginCall(t) \/ CallStep(t) \/ SpuriousWakeup(t)
      PROVE  DataOK'
  BY <1>1, <1>4, <1>5, <1>6, <1>9 DEF BeginCall, CallStep, NotifyWorkAvailable, TestBatch,
                                      SpuriousWakeup
<1>10. ASSUME NEW c \in Callers, CallShutdown(c) \/ ShutdownStep(c) PROVE DataOK'
  BY <1>1, <1>10 DEF CallShutdown, ShutdownStep, StopRunning, AlreadyStopped, NotifyStop,
                     JoinWorkers
<1> QED  BY <1>7, <1>8, <1>9, <1>10 DEF Next

(***************************************************************************)
(* Every step keeps the rest of the type invariant.                        *)
(***************************************************************************)
LEMMA TypeStep ==
    ASSUME IInv, Next
    PROVE  TypeOK'
<1> USE ThreadsAssumption DEF IInv, TypeOK, poolVars
<1>1. DataOK' /\ PcOK'
  BY DataStep, PcStep
<1>2. built' \in BOOLEAN /\ running' \in BOOLEAN
  BY DEF Next, Construction, CreateWorker, Register, RegisterFails, FinishConstruction,
         WorkerStep, TakeTask, BlockForWork, LeaveLoop, FinishTask, AccountTask,
         NotifyBatchComplete, Unregister, BeginCall, SubmitAccepted, SubmitRefused, Wait,
         CallStep, NotifyWorkAvailable, TestBatch, SpuriousWakeup, CallShutdown,
         ShutdownStep, StopRunning, AlreadyStopped, NotifyStop, JoinWorkers
<1>3. registered' \subseteq Workers /\ shutdownMutex' \in Callers \cup {NoThread}
  BY DEF Next, Construction, CreateWorker, Register, RegisterFails, FinishConstruction,
         WorkerStep, TakeTask, BlockForWork, LeaveLoop, FinishTask, AccountTask,
         NotifyBatchComplete, Unregister, BeginCall, SubmitAccepted, SubmitRefused, Wait,
         CallStep, NotifyWorkAvailable, TestBatch, SpuriousWakeup, CallShutdown,
         ShutdownStep, StopRunning, AlreadyStopped, NotifyStop, JoinWorkers
<1>4. hand' \in [Workers -> (Nat \X Nat) \cup {NoTask}] /\ ran' \subseteq Nat \X Nat
  <2>1. CASE UNCHANGED <<hand, ran>>
    BY <2>1
  <2>2. ASSUME NEW w \in Workers, TakeTask(w)
        PROVE  hand' \in [Workers -> (Nat \X Nat) \cup {NoTask}] /\ ran' = ran
    <3>1. Head(queue) \in Nat \X Nat
      BY <2>2, HeadTailProperties DEF TakeTask
    <3> QED  BY <2>2, <3>1 DEF TakeTask
  <2>3. ASSUME NEW w \in Workers, AccountTask(w)
        PROVE  hand' \in [Workers -> (Nat \X Nat) \cup {NoTask}] /\ ran' = ran
    BY <2>3 DEF AccountTask
  <2>4. ASSUME NEW w \in Workers, FinishTask(w)
        PROVE  hand' = hand /\ ran' \subseteq Nat \X Nat
    <3>1. hand[w] \in Nat \X Nat
      BY <2>4 DEF FinishTask, HandInv
    <3> QED  BY <2>4, <3>1 DEF FinishTask
  <2> QED
    BY <2>1, <2>2, <2>3, <2>4
       DEF Next, Construction, CreateWorker, Register, RegisterFails, FinishConstruction,
           WorkerStep, BlockForWork, LeaveLoop, NotifyBatchComplete, Unregister, BeginCall,
           SubmitAccepted, SubmitRefused, Wait, CallStep, NotifyWorkAvailable, TestBatch,
           SpuriousWakeup, CallShutdown, ShutdownStep, StopRunning, AlreadyStopped,
           NotifyStop, JoinWorkers
<1> QED  BY <1>1, <1>2, <1>3, <1>4 DEF DataOK

(***************************************************************************)
(* What a step does to the pc of a thread other than the one that takes    *)
(* it: nothing, or one of the two wakeups, or the failing constructor.     *)
(***************************************************************************)
Woken(t) ==
    \/ pc[t] = "BlockedWork" /\ pc'[t] = "Take"
    \/ pc[t] = "BlockedBatch" /\ pc'[t] = "WaitBatch"

LEMMA GotoEffect ==
    ASSUME PcOK, NEW t \in Threads, NEW label, Goto(t, label)
    PROVE  pc'[t] = label /\ \A u \in Threads \ {t} : pc'[u] = pc[u]
BY DEF PcOK, Goto

LEMMA NotifyEffect ==
    ASSUME PcOK, NEW t \in Threads, NEW from, NEW to, NEW label,
           NotifyAll(from, to, t, label)
    PROVE  /\ pc'[t] = label
           /\ \A u \in Threads \ {t} : pc'[u] = IF pc[u] = from THEN to ELSE pc[u]
BY DEF NotifyAll

(***************************************************************************)
(* A worker holds a task exactly while it runs or accounts for it, and the *)
(* task counts as run only from the end of its body.                       *)
(***************************************************************************)
LEMMA HandStep ==
    ASSUME IInv, Next
    PROVE  HandInv'
<1> USE ThreadsAssumption DEF IInv, TypeOK, Threads
<1>0. PcOK
  OBVIOUS
<1>1. ASSUME UNCHANGED <<hand, ran>>,
             \A w \in Workers : \/ pc'[w] = pc[w] \/ Woken(w)
                                \/ /\ pc[w] \notin {"Running", "NotifyWork", "Account"}
                                   /\ pc'[w] \notin {"Running", "NotifyWork", "Account"}
                                \/ /\ pc[w] \in {"Running", "NotifyWork"}
                                   /\ pc'[w] \in {"Running", "NotifyWork"}
      PROVE  HandInv'
  BY <1>1 DEF HandInv, Woken
<1>2. CASE Construction
  BY <1>0, <1>1, <1>2 DEF Construction, CreateWorker, Register, RegisterFails, FinishConstruction, Goto, PcOK
<1>3. ASSUME NEW w \in Workers, WorkerStep(w) PROVE HandInv'
  <2>1. CASE TakeTask(w)
    <3>1. Head(queue) \in Nat \X Nat /\ Head(queue) \notin ran
      <4>1. Head(queue) \in Queued
        BY <2>1, PopFront DEF TakeTask, Queued, InOnePlace
      <4> QED  BY <4>1, <2>1, HeadTailProperties DEF TakeTask, InOnePlace
    <3>2. pc'[w] = "Running" /\ \A u \in Workers \ {w} : pc'[u] = pc[u]
      BY <2>1, <1>0, GotoEffect DEF TakeTask
    <3>3. hand'[w] = Head(queue) /\ \A u \in Workers \ {w} : hand'[u] = hand[u]
      BY <2>1 DEF TakeTask
    <3>4. ran' = ran /\ Head(queue) # NoTask
      BY <2>1, <3>1, NoTaskAssumption DEF TakeTask
    <3> QED  BY <3>1, <3>2, <3>3, <3>4, SMTT(30) DEF HandInv
  <2>2. CASE FinishTask(w)
    <3>1. \A v \in Workers \ {w} : hand[v] # NoTask => hand[v] # hand[w]
      BY <2>2 DEF InOnePlace
    <3> QED  BY <2>2, <3>1, <1>0, GotoEffect DEF FinishTask, HandInv
  <2>3. CASE AccountTask(w)
    <3>1. pc'[w] \in {"NotifyBatch", "Take"} /\ \A u \in Threads \ {w} : pc'[u] = pc[u]
      BY <2>3, <1>0 DEF AccountTask, Goto, PcOK
    <3> QED  BY <2>3, <3>1 DEF AccountTask, HandInv
  <2>4. CASE NotifyBatchComplete(w)
    <3>1. NotifyAll("BlockedBatch", "WaitBatch", w, "Take") /\ pc[w] = "NotifyBatch"
      BY <2>4 DEF NotifyBatchComplete
    <3> QED  BY <1>0, <1>1, <2>4, <3>1, NotifyEffect DEF NotifyBatchComplete, Woken
  <2>5. CASE BlockForWork(w) \/ LeaveLoop(w) \/ Unregister(w)
    BY <1>0, <1>1, <2>5, GotoEffect DEF BlockForWork, LeaveLoop, Unregister
  <2> QED  BY <1>3, <2>1, <2>2, <2>3, <2>4, <2>5 DEF WorkerStep
<1>4. ASSUME NEW t \in Threads, BeginCall(t) \/ CallStep(t) \/ SpuriousWakeup(t)
      PROVE  HandInv'
  <2>1. CASE BeginCall(t)
    <3>1. /\ \A u \in Threads \ {t} : pc'[u] = pc[u]
          /\ t \in Workers => pc[t] = "Running" /\ pc'[t] \in {"Running", "NotifyWork"}
          /\ UNCHANGED <<hand, ran>>
      BY <2>1, <1>0 DEF BeginCall, SubmitAccepted, SubmitRefused, Wait, Goto, PcOK,
                        CanCall, Back, isWorkerThread, RegistryInv, CallerStates, WorkerStates, CallStates
    <3> QED  BY <1>1, <3>1
  <2>2. CASE NotifyWorkAvailable(t)
    <3>1. NotifyAll("BlockedWork", "Take", t, Back(t, "Free"))
      BY <2>2 DEF NotifyWorkAvailable
    <3>2. /\ pc'[t] = Back(t, "Free")
          /\ \A u \in Threads \ {t} : pc'[u] = pc[u] \/ Woken(u)
      BY <1>0, <3>1, NotifyEffect DEF Woken
    <3> QED  BY <1>1, <2>2, <3>2 DEF NotifyWorkAvailable, Back
  <2>3. CASE TestBatch(t)
    BY <1>0, <1>1, <2>3, GotoEffect DEF TestBatch, WorkersNeverWait
  <2>4. CASE SpuriousWakeup(t)
    BY <1>0, <1>1, <2>4, GotoEffect DEF SpuriousWakeup, Woken
  <2> QED  BY <1>4, <2>1, <2>2, <2>3, <2>4 DEF CallStep
<1>5. ASSUME NEW c \in Callers, CallShutdown(c) \/ ShutdownStep(c) PROVE HandInv'
  <2>1. c \in Threads /\ c \notin Workers
    OBVIOUS
  <2>2. CASE NotifyStop(c)
    <3>1. NotifyAll("BlockedWork", "Take", c, "Join")
      BY <2>2 DEF NotifyStop
    <3>2. \A u \in Threads \ {c} : pc'[u] = pc[u] \/ Woken(u)
      BY <1>0, <3>1, NotifyEffect DEF Woken
    <3>3. \A u \in Workers : u \in Threads \ {c}
      BY <2>1
    <3> QED  BY <1>1, <2>2, <3>2, <3>3 DEF NotifyStop
  <2>3. CASE ~NotifyStop(c)
    BY <1>0, <1>1, <1>5, <2>1, <2>3, GotoEffect
       DEF CallShutdown, ShutdownStep, StopRunning, AlreadyStopped, JoinWorkers
  <2> QED  BY <2>2, <2>3
<1> QED  BY <1>2, <1>3, <1>4, <1>5 DEF Next

(***************************************************************************)
(* What NotifyAll does to the workers, the other callers, and its caller.  *)
(***************************************************************************)
LEMMA NotifyWakes ==
    ASSUME PcOK, NEW t \in Threads, NEW label,
           \/ NotifyAll("BlockedWork", "Take", t, label)
           \/ NotifyAll("BlockedBatch", "WaitBatch", t, label)
    PROVE  pc'[t] = label /\ \A u \in Threads \ {t} : pc'[u] = pc[u] \/ Woken(u)
BY NotifyEffect DEF Woken

(***************************************************************************)
(* The moves of a worker within its loop or within a call, which neither   *)
(* register nor unregister it, neither take it out of the loop nor put it  *)
(* there: everything but Construction, LeaveLoop and Unregister.           *)
(***************************************************************************)
InLoop == {"Take", "BlockedWork", "Running", "Account", "NotifyBatch", "NotifyWork"}

LEMMA LoopMoves ==
    ASSUME IInv,
           \/ \E w \in Workers : WorkerStep(w) /\ ~LeaveLoop(w) /\ ~Unregister(w)
           \/ \E t \in Threads : BeginCall(t) \/ CallStep(t) \/ SpuriousWakeup(t)
           \/ \E c \in Callers : CallShutdown(c) \/ ShutdownStep(c)
    PROVE  /\ \A w \in Workers : pc'[w] = pc[w] \/ (pc[w] \in InLoop /\ pc'[w] \in InLoop)
           /\ UNCHANGED <<built, registered>>
<1> USE ThreadsAssumption DEF IInv, TypeOK, InLoop
<1>0. PcOK
  OBVIOUS
<1>1. ASSUME NEW t \in Threads, \A u \in Threads \ {t} : pc'[u] = pc[u] \/ Woken(u),
             t \in Workers => pc[t] \in InLoop /\ pc'[t] \in InLoop
      PROVE  \A w \in Workers : pc'[w] = pc[w] \/ (pc[w] \in InLoop /\ pc'[w] \in InLoop)
  <2>1. ASSUME NEW w \in Workers
        PROVE  pc[w] # "BlockedBatch" /\ w \in Threads
    BY DEF WorkersNeverWait, Threads
  <2> QED  BY <1>1, <2>1 DEF Woken
<1>2. ASSUME NEW w \in Workers, WorkerStep(w), ~LeaveLoop(w), ~Unregister(w)
      PROVE  /\ \A u \in Threads \ {w} : pc'[u] = pc[u] \/ Woken(u)
             /\ pc[w] \in InLoop /\ pc'[w] \in InLoop
             /\ UNCHANGED <<built, registered>>
  <2>0. w \in Threads
    BY DEF Threads
  <2>1. CASE NotifyBatchComplete(w)
    BY <1>0, <2>0, <2>1, NotifyWakes DEF NotifyBatchComplete
  <2>2. CASE AccountTask(w)
    <3>1. pc'[w] \in {"NotifyBatch", "Take"} /\ \A u \in Threads \ {w} : pc'[u] = pc[u]
      BY <1>0, <2>0, <2>2 DEF AccountTask, Goto, PcOK
    <3> QED  BY <2>2, <3>1 DEF AccountTask
  <2>3. CASE TakeTask(w) \/ BlockForWork(w) \/ FinishTask(w)
    BY <1>0, <2>0, <2>3, GotoEffect DEF TakeTask, BlockForWork, FinishTask
  <2> QED  BY <1>2, <2>1, <2>2, <2>3 DEF WorkerStep
<1>3. ASSUME NEW t \in Threads, BeginCall(t) \/ CallStep(t) \/ SpuriousWakeup(t)
      PROVE  /\ \A u \in Threads \ {t} : pc'[u] = pc[u] \/ Woken(u)
             /\ t \in Workers => pc[t] \in InLoop /\ pc'[t] \in InLoop
             /\ UNCHANGED <<built, registered>>
  <2>1. CASE BeginCall(t)
    <3>1. /\ \A u \in Threads \ {t} : pc'[u] = pc[u]
          /\ t \in Workers => pc[t] = "Running" /\ pc'[t] \in {"Running", "NotifyWork"}
      BY <2>1, <1>0 DEF BeginCall, SubmitAccepted, SubmitRefused, Wait, Goto, PcOK,
                        CanCall, Back, isWorkerThread, RegistryInv, WorkerStates, CallStates
    <3> QED  BY <2>1, <3>1 DEF BeginCall, SubmitAccepted, SubmitRefused, Wait
  <2>2. CASE NotifyWorkAvailable(t)
    <3>1. pc'[t] = Back(t, "Free") /\ \A u \in Threads \ {t} : pc'[u] = pc[u] \/ Woken(u)
      BY <1>0, <2>2, NotifyWakes DEF NotifyWorkAvailable
    <3> QED  BY <2>2, <3>1 DEF NotifyWorkAvailable, Back
  <2>3. CASE TestBatch(t)
    BY <1>0, <2>3, GotoEffect DEF TestBatch, WorkersNeverWait
  <2>4. CASE SpuriousWakeup(t)
    BY <1>0, <2>4, GotoEffect DEF SpuriousWakeup, WorkersNeverWait
  <2> QED  BY <1>3, <2>1, <2>2, <2>3, <2>4 DEF CallStep
<1>4. ASSUME NEW c \in Callers, CallShutdown(c) \/ ShutdownStep(c)
      PROVE  /\ \A u \in Threads \ {c} : pc'[u] = pc[u] \/ Woken(u)
             /\ UNCHANGED <<built, registered>>
  <2>1. c \in Threads
    BY DEF Threads
  <2>2. CASE NotifyStop(c)
    BY <1>0, <2>1, <2>2, NotifyWakes DEF NotifyStop
  <2>3. CASE ~NotifyStop(c)
    BY <1>0, <1>4, <2>1, <2>3, GotoEffect
       DEF CallShutdown, ShutdownStep, StopRunning, AlreadyStopped, JoinWorkers
  <2> QED  BY <2>2, <2>3
<1>5. \A t \in Callers : t \in Threads /\ t \notin Workers
  BY DEF Threads
<1>6. \A t \in Workers : t \in Threads
  BY DEF Threads
<1> HIDE DEF InLoop, IInv, TypeOK
<1>7. CASE \E w \in Workers : WorkerStep(w) /\ ~LeaveLoop(w) /\ ~Unregister(w)
  BY <1>1, <1>2, <1>6, <1>7
<1>8. CASE \E t \in Threads : BeginCall(t) \/ CallStep(t) \/ SpuriousWakeup(t)
  BY <1>1, <1>3, <1>8
<1>9. CASE \E c \in Callers : CallShutdown(c) \/ ShutdownStep(c)
  BY <1>1, <1>4, <1>5, <1>9
<1> QED  BY <1>7, <1>8, <1>9

(***************************************************************************)
(* A worker is registered from before its loop until after it.             *)
(***************************************************************************)
LEMMA RegistryStep ==
    ASSUME IInv, Next
    PROVE  RegistryInv'
<1> USE ThreadsAssumption DEF IInv, TypeOK, Threads
<1>0. PcOK
  OBVIOUS
<1>1. CASE Construction
  BY <1>0, <1>1, ZenonT(60) DEF Construction, CreateWorker, Register, RegisterFails, FinishConstruction,
              Goto, PcOK, RegistryInv
<1>2. ASSUME NEW w \in Workers, LeaveLoop(w) PROVE RegistryInv'
  BY <1>0, <1>2, GotoEffect DEF LeaveLoop, RegistryInv
<1>3. ASSUME NEW w \in Workers, Unregister(w) PROVE RegistryInv'
  BY <1>0, <1>3, GotoEffect DEF Unregister, RegistryInv
<1>4. ASSUME /\ \A w \in Workers : pc'[w] = pc[w] \/ (pc[w] \in InLoop /\ pc'[w] \in InLoop)
             /\ UNCHANGED <<built, registered>>
      PROVE  RegistryInv'
  BY <1>4 DEF RegistryInv, InLoop
<1> QED  BY <1>1, <1>2, <1>3, <1>4, LoopMoves DEF Next

(***************************************************************************)
(* Construction: the pool is used by nobody before it is built, and no     *)
(* worker of a pool under construction leaves.                             *)
(***************************************************************************)
LEMMA ConstructionStep ==
    ASSUME IInv, Next
    PROVE  ConstructionInv'
<1> USE ThreadsAssumption DEF CallStates
<1>0. PcOK /\ Owner \in Threads /\ (\A c \in Callers : c \in Threads /\ c \notin Workers)
      /\ (\A w \in Workers : w \in Threads /\ w # Owner)
  BY DEF IInv, TypeOK, Threads
<1>1. ConstructionInv /\ WorkersNeverWait
  BY DEF IInv
<1>2. CASE Construction
  <2>1. ASSUME NEW w \in Workers, CreateWorker(w) PROVE ConstructionInv'
    BY <1>0, <1>1, <2>1, GotoEffect DEF CreateWorker, ConstructionInv, poolVars
  <2>2. ASSUME NEW w \in Workers, Register(w) PROVE ConstructionInv'
    BY <1>0, <1>1, <2>2, GotoEffect DEF Register, ConstructionInv, poolVars
  <2>3. ASSUME NEW w \in Workers, RegisterFails(w) PROVE ConstructionInv'
    <3>1. /\ pc'[w] = "Exited" /\ pc'[Owner] = "Stop"
          /\ \A u \in Threads \ {w, Owner} : pc'[u] = pc[u]
      BY <1>0, <2>3 DEF RegisterFails, PcOK
    <3>2. \A v \in Workers : pc'[v] # "Starting"
      BY <1>0, <1>1, <2>3, <3>1 DEF RegisterFails, ConstructionInv
    <3> QED  BY <1>0, <1>1, <2>3, <3>1, <3>2 DEF RegisterFails, ConstructionInv, poolVars
  <2>4. CASE FinishConstruction
    BY <1>0, <1>1, <2>4, GotoEffect DEF FinishConstruction, ConstructionInv
  <2> QED  BY <1>2, <2>1, <2>2, <2>3, <2>4 DEF Construction
<1>3. ASSUME NEW w \in Workers, LeaveLoop(w) \/ Unregister(w) PROVE ConstructionInv'
  BY <1>0, <1>1, <1>3, GotoEffect DEF LeaveLoop, Unregister, ConstructionInv, poolVars
<1>4. ASSUME \A w \in Workers : pc'[w] = pc[w] \/ (pc[w] \in InLoop /\ pc'[w] \in InLoop),
             UNCHANGED <<built, batchSize>>,
             ~built \/ pc'[Owner] # "Construct",
             ~built => /\ \A c \in Callers \ {Owner} : pc'[c] = pc[c]
                       /\ \/ pc'[Owner] = pc[Owner] /\ running' = running
                          \/ /\ pc'[Owner] \in {"NotifyStop", "Join", "Stopped"}
                             /\ pc[Owner] # "Construct"
      PROVE  ConstructionInv'
  <2>1. \A w \in Workers : pc'[w] \notin InLoop => pc'[w] = pc[w]
    BY <1>4
  <2>2. CASE built
    BY <1>1, <1>4, <2>1, <2>2 DEF ConstructionInv, InLoop
  <2>3. CASE ~built /\ pc'[Owner] = pc[Owner] /\ running' = running
    BY <1>1, <1>4, <2>1, <2>3 DEF ConstructionInv, InLoop
  <2>4. CASE ~built /\ pc'[Owner] \in {"NotifyStop", "Join", "Stopped"} /\ pc[Owner] # "Construct"
    <3>1. \A w \in Workers : pc'[w] # "Starting"
      BY <1>1, <1>4, <2>1, <2>4 DEF ConstructionInv, InLoop
    <3> QED  BY <1>1, <1>4, <2>4, <3>1 DEF ConstructionInv
  <2> QED  BY <1>4, <2>2, <2>3, <2>4
<1>5. ASSUME NEW w \in Workers, WorkerStep(w), ~LeaveLoop(w), ~Unregister(w)
      PROVE  ConstructionInv'
  <2>1. \A v \in Workers : pc'[v] = pc[v] \/ (pc[v] \in InLoop /\ pc'[v] \in InLoop)
    BY <1>5, LoopMoves
  <2>2. UNCHANGED <<built, batchSize, running>>
    BY <1>5 DEF WorkerStep, TakeTask, BlockForWork, FinishTask, AccountTask,
                NotifyBatchComplete, poolVars
  <2>3. ~built => \A c \in Callers : pc'[c] = pc[c]
    <3>1. CASE NotifyBatchComplete(w)
      <4>1. \A c \in Callers : pc'[c] = pc[c] \/ Woken(c)
        BY <1>0, <3>1, NotifyWakes DEF NotifyBatchComplete
      <4> QED  BY <1>0, <1>1, <4>1 DEF Woken, ConstructionInv, PcOK, CallerStates, WorkerStates
    <3>2. CASE ~NotifyBatchComplete(w)
      BY <1>0, <1>5, <3>2 DEF WorkerStep, TakeTask, BlockForWork, FinishTask, AccountTask,
                              Goto, PcOK
    <3> QED  BY <3>1, <3>2
  <2>4. built => pc'[Owner] # "Construct"
    <3>1. pc'[Owner] = pc[Owner] \/ Woken(Owner)
      <4>1. CASE NotifyBatchComplete(w)
        BY <1>0, <4>1, NotifyWakes DEF NotifyBatchComplete
      <4>2. CASE ~NotifyBatchComplete(w)
        BY <1>0, <1>5, <4>2 DEF WorkerStep, TakeTask, BlockForWork, FinishTask, AccountTask,
                                Goto, PcOK
      <4> QED  BY <4>1, <4>2
    <3> QED  BY <1>1, <3>1 DEF ConstructionInv, Woken
  <2> QED  BY <1>0, <1>4, <2>1, <2>2, <2>3, <2>4
<1>6. ASSUME NEW t \in Threads, BeginCall(t) \/ CallStep(t) \/ SpuriousWakeup(t)
      PROVE  ConstructionInv'
  <2>1. \A v \in Workers : pc'[v] = pc[v] \/ (pc[v] \in InLoop /\ pc'[v] \in InLoop)
    BY <1>6, LoopMoves
  <2>2. \A u \in Threads \ {t} : pc'[u] = pc[u] \/ Woken(u)
    BY <1>0, <1>6, GotoEffect, NotifyWakes
       DEF BeginCall, SubmitAccepted, SubmitRefused, Wait, CallStep, NotifyWorkAvailable,
           TestBatch, SpuriousWakeup
  <2>3. pc'[t] # "Construct"
    BY <1>0, <1>6, GotoEffect, NotifyWakes
       DEF BeginCall, SubmitAccepted, SubmitRefused, Wait, CallStep, NotifyWorkAvailable,
           TestBatch, SpuriousWakeup, Back
  <2>4. UNCHANGED <<built, running>> /\ (~built => batchSize' = batchSize)
    BY <1>6 DEF BeginCall, SubmitAccepted, SubmitRefused, Wait, CallStep, CanCall,
                NotifyWorkAvailable, TestBatch, SpuriousWakeup, poolVars
  <2>5. ~built => \A c \in Callers : pc[c] \notin {"NotifyWork", "WaitBatch", "BlockedBatch", "BlockedWork"}
    BY <1>0, <1>1 DEF ConstructionInv, PcOK, CallerStates
  <2>6. ~built => t \notin Callers
    BY <1>6, <2>5 DEF BeginCall, SubmitAccepted, SubmitRefused, Wait, CallStep, CanCall,
                      NotifyWorkAvailable, TestBatch, SpuriousWakeup
  <2>7. ~built => \A c \in Callers : pc'[c] = pc[c]
    BY <1>0, <2>2, <2>5, <2>6 DEF Woken
  <2>8. CASE ~built
    <3>1. pc'[Owner] = pc[Owner] /\ batchSize' = batchSize /\ running' = running
      BY <1>0, <2>4, <2>7, <2>8
    <3> QED  BY <1>4, <2>1, <2>4, <2>7, <2>8, <3>1
  <2>9. CASE built
    <3>1. pc'[Owner] # "Construct"
      BY <1>0, <1>1, <2>2, <2>3, <2>9 DEF ConstructionInv, Woken
    <3> QED  BY <1>0, <1>1, <2>1, <2>4, <2>9, <3>1 DEF ConstructionInv, InLoop
  <2> QED  BY <2>8, <2>9
<1>7. ASSUME NEW c \in Callers, CallShutdown(c) \/ ShutdownStep(c) PROVE ConstructionInv'
  <2>1. \A v \in Workers : pc'[v] = pc[v] \/ (pc[v] \in InLoop /\ pc'[v] \in InLoop)
    BY <1>7, LoopMoves
  <2>2. UNCHANGED <<built, batchSize>>
    BY <1>7 DEF CallShutdown, ShutdownStep, StopRunning, AlreadyStopped, NotifyStop,
                JoinWorkers, poolVars
  <2>3. \A u \in Threads \ {c} : pc'[u] = pc[u] \/ Woken(u)
    BY <1>0, <1>7, GotoEffect, NotifyWakes
       DEF CallShutdown, ShutdownStep, StopRunning, AlreadyStopped, NotifyStop, JoinWorkers
  <2>4. /\ pc'[c] # "Construct"
        /\ ~built => pc'[c] \in {"NotifyStop", "Join", "Stopped"} /\ pc[c] # "Construct"
    BY <1>0, <1>7, GotoEffect, NotifyWakes
       DEF CallShutdown, CanCall, ShutdownStep, StopRunning, AlreadyStopped, NotifyStop,
           JoinWorkers
  <2>5. ~built => c = Owner
    BY <1>1, <1>7 DEF ConstructionInv, CallShutdown, CanCall, ShutdownStep, StopRunning,
                      AlreadyStopped, NotifyStop, JoinWorkers
  <2>6. ~built => \A d \in Callers \ {Owner} : pc'[d] = pc[d]
    BY <1>0, <1>1, <2>3, <2>5 DEF ConstructionInv, Woken
  <2>7. built => pc'[Owner] # "Construct"
    BY <1>0, <1>1, <2>3, <2>4 DEF ConstructionInv, Woken
  <2> QED  BY <1>4, <2>1, <2>2, <2>4, <2>5, <2>6, <2>7
<1> QED  BY <1>2, <1>3, <1>5, <1>6, <1>7 DEF Next

(***************************************************************************)
(* Stopping: m_running falls under m_shutdownMutex, workers leave only an  *)
(* empty, stopped pool, and the mutex is released only when all have left. *)
(***************************************************************************)
StopLabels == {"NotifyStop", "Join", "Stopped"}

LEMMA StopStep ==
    ASSUME IInv, Next
    PROVE  StopInv'
<1> USE ThreadsAssumption
<1>0. PcOK /\ Owner \in Threads /\ (\A c \in Callers : c \in Threads /\ c \notin Workers)
      /\ (\A w \in Workers : w \in Threads /\ w # Owner)
      /\ shutdownMutex \in Callers \cup {NoThread}
  BY DEF IInv, TypeOK, Threads
<1>1. StopInv /\ ConstructionInv
  BY DEF IInv
<1>2. CASE Construction
  <2>1. ASSUME NEW w \in Workers, CreateWorker(w) PROVE StopInv'
    <3>1. running /\ \A c \in Callers : pc[c] # "Stopped"
      BY <1>1, <2>1 DEF CreateWorker, StopInv, ConstructionInv
    <3>2. /\ \A c \in Callers : pc'[c] = pc[c]
          /\ UNCHANGED <<built, running, queue, shutdownMutex>>
          /\ ~built'
      BY <1>0, <1>1, <2>1, GotoEffect DEF CreateWorker, poolVars, ConstructionInv
    <3> QED  BY <1>0, <1>1, <3>1, <3>2 DEF StopInv
  <2>2. ASSUME NEW w \in Workers, Register(w) PROVE StopInv'
    <3>1. running /\ \A c \in Callers : pc[c] # "Stopped"
      BY <1>1, <2>2 DEF Register, StopInv, ConstructionInv
    <3>2. /\ \A c \in Callers : pc'[c] = pc[c]
          /\ UNCHANGED <<built, running, queue, shutdownMutex>>
          /\ ~built'
      BY <1>0, <1>1, <2>2, GotoEffect DEF Register, poolVars, ConstructionInv
    <3> QED  BY <1>0, <1>1, <3>1, <3>2 DEF StopInv
  <2>3. ASSUME NEW w \in Workers, RegisterFails(w) PROVE StopInv'
    <3>1. running /\ \A c \in Callers : pc[c] # "Stopped"
      BY <1>1, <2>3 DEF RegisterFails, StopInv, ConstructionInv
    <3>2. /\ pc[Owner] = "Construct" /\ pc'[Owner] = "Stop"
          /\ \A c \in Callers \ {Owner} : pc'[c] = pc[c]
          /\ UNCHANGED <<built, running, queue, shutdownMutex>>
          /\ ~built'
      BY <1>0, <1>1, <2>3 DEF RegisterFails, PcOK, poolVars, ConstructionInv
    <3> QED  BY <1>0, <1>1, <3>1, <3>2 DEF StopInv
  <2>4. CASE FinishConstruction
    <3>1. /\ running
          /\ \A c \in Callers : pc[c] # "Stopped"
          /\ \A w \in Workers : pc[w] \notin {"Unregister", "Exited"}
      BY <1>1, <2>4 DEF FinishConstruction, StopInv, ConstructionInv
    <3>2. /\ pc[Owner] = "Construct" /\ pc'[Owner] = "Free"
          /\ \A u \in Threads \ {Owner} : pc'[u] = pc[u]
          /\ UNCHANGED <<running, queue, shutdownMutex>>
      BY <1>0, <2>4, GotoEffect DEF FinishConstruction, poolVars
    <3> QED  BY <1>0, <1>1, <3>1, <3>2 DEF StopInv
  <2> QED  BY <1>2, <2>1, <2>2, <2>3, <2>4 DEF Construction
<1>3. ASSUME NEW w \in Workers, LeaveLoop(w) PROVE StopInv'
  <2>1. /\ pc[w] = "Take" /\ pc'[w] = "Unregister"
        /\ queue = <<>> /\ ~running
        /\ \A u \in Threads \ {w} : pc'[u] = pc[u]
        /\ UNCHANGED <<built, running, queue, shutdownMutex>>
    BY <1>0, <1>3, GotoEffect DEF LeaveLoop, poolVars
  <2>2. shutdownMutex # NoThread /\ \A c \in Callers : pc[c] # "Stopped"
    BY <1>1, <2>1 DEF StopInv
  <2> QED  BY <1>0, <1>1, <2>1, <2>2 DEF StopInv
<1>4. ASSUME NEW w \in Workers, Unregister(w) PROVE StopInv'
  <2>1. /\ pc[w] = "Unregister" /\ pc'[w] = "Exited"
        /\ \A u \in Threads \ {w} : pc'[u] = pc[u]
        /\ UNCHANGED <<built, running, queue, shutdownMutex>>
    BY <1>0, <1>4, GotoEffect DEF Unregister, poolVars
  <2> QED  BY <1>0, <1>1, <2>1 DEF StopInv
<1>5. ASSUME NEW w \in Workers, WorkerStep(w), ~LeaveLoop(w), ~Unregister(w)
      PROVE  StopInv'
  <2>1. /\ \A v \in Workers : pc'[v] = pc[v] \/ (pc[v] \in InLoop /\ pc'[v] \in InLoop)
        /\ pc[w] \in InLoop
    BY <1>5, LoopMoves DEF WorkerStep, TakeTask, BlockForWork, FinishTask, AccountTask,
                           NotifyBatchComplete, InLoop
  <2>2. \A c \in Callers : pc'[c] = pc[c] \/ Woken(c)
    <3>1. CASE NotifyBatchComplete(w)
      BY <1>0, <3>1, NotifyWakes DEF NotifyBatchComplete
    <3>2. CASE ~NotifyBatchComplete(w)
      BY <1>0, <1>5, <3>2 DEF WorkerStep, TakeTask, BlockForWork, FinishTask, AccountTask,
                              Goto, PcOK
    <3> QED  BY <3>1, <3>2
  <2>3. UNCHANGED <<built, running, shutdownMutex>> /\ (queue = <<>> => queue' = queue)
    BY <1>5 DEF WorkerStep, TakeTask, BlockForWork, FinishTask, AccountTask,
                NotifyBatchComplete, poolVars
  <2>4. /\ \A c \in Callers : pc[c] # "Stopped"
        /\ ~running => shutdownMutex # NoThread
    BY <1>1, <2>1 DEF StopInv, InLoop
  <2>5. /\ \A c \in Callers : pc'[c] \in StopLabels \/ pc[c] \in StopLabels => pc'[c] = pc[c]
        /\ \A v \in Workers : pc'[v] \in {"Unregister", "Exited"} => pc'[v] = pc[v]
    BY <2>1, <2>2 DEF Woken, InLoop, StopLabels
  <2> QED  BY <1>1, <2>3, <2>4, <2>5 DEF StopInv, StopLabels
<1>6. ASSUME NEW t \in Threads, BeginCall(t) \/ CallStep(t) \/ SpuriousWakeup(t)
      PROVE  StopInv'
  <2>1. \A v \in Workers : pc'[v] = pc[v] \/ (pc[v] \in InLoop /\ pc'[v] \in InLoop)
    BY <1>6, LoopMoves
  <2>2. \A u \in Threads \ {t} : pc'[u] = pc[u] \/ Woken(u)
    BY <1>0, <1>6, GotoEffect, NotifyWakes
       DEF BeginCall, SubmitAccepted, SubmitRefused, Wait, CallStep, NotifyWorkAvailable,
           TestBatch, SpuriousWakeup
  <2>3. pc[t] \notin {"NotifyStop", "Join"} /\ pc'[t] \notin StopLabels
    BY <1>0, <1>6, GotoEffect, NotifyWakes
       DEF BeginCall, SubmitAccepted, SubmitRefused, Wait, CallStep, NotifyWorkAvailable,
           TestBatch, SpuriousWakeup, Back, StopLabels, CanCall
  <2>4. UNCHANGED <<built, running, shutdownMutex>> /\ (~running => queue' = queue)
    BY <1>6 DEF BeginCall, SubmitAccepted, SubmitRefused, Wait, CallStep,
                NotifyWorkAvailable, TestBatch, SpuriousWakeup, poolVars
  <2>5. /\ \A c \in Callers : pc'[c] \in StopLabels => pc[c] \in StopLabels /\ pc'[c] = pc[c]
        /\ \A c \in Callers : pc[c] \in {"NotifyStop", "Join"} => pc'[c] = pc[c]
    BY <1>0, <2>2, <2>3 DEF Woken, StopLabels
  <2>6. \A v \in Workers : /\ pc'[v] \in {"Unregister", "Exited"} => pc'[v] = pc[v]
                           /\ pc[v] \in {"Unborn", "Exited"} => pc'[v] = pc[v]
    BY <2>1 DEF InLoop
  <2> HIDE DEF StopLabels
  <2>7. \A c \in Callers : /\ pc'[c] \in {"NotifyStop", "Join"} <=> pc[c] \in {"NotifyStop", "Join"}
                           /\ pc'[c] = "Stopped" => pc[c] = "Stopped"
    BY <2>5 DEF StopLabels
  <2>8. \A v \in Workers : built' /\ pc'[v] \in {"Unregister", "Exited"} => queue' = <<>> /\ ~running'
    BY <1>1, <2>4, <2>6 DEF StopInv
  <2> QED  BY <1>1, <2>4, <2>6, <2>7, <2>8 DEF StopInv
<1>7. ASSUME NEW c \in Callers, CallShutdown(c) \/ ShutdownStep(c) PROVE StopInv'
  <2>1. \A v \in Workers : pc'[v] = pc[v] \/ (pc[v] \in InLoop /\ pc'[v] \in InLoop)
    BY <1>7, LoopMoves
  <2>2. \A u \in Threads \ {c} : pc'[u] = pc[u] \/ Woken(u)
    BY <1>0, <1>7, GotoEffect, NotifyWakes
       DEF CallShutdown, ShutdownStep, StopRunning, AlreadyStopped, NotifyStop, JoinWorkers
  <2>3. UNCHANGED <<built, queue>>
    BY <1>7 DEF CallShutdown, ShutdownStep, StopRunning, AlreadyStopped, NotifyStop,
                JoinWorkers, poolVars
  <2>4. /\ \A d \in Callers \ {c} : /\ pc'[d] \in StopLabels => pc'[d] = pc[d]
                                    /\ pc[d] \in StopLabels => pc'[d] = pc[d]
        /\ \A v \in Workers : /\ pc'[v] \in {"Unregister", "Exited"} => pc'[v] = pc[v]
                              /\ pc[v] \in {"Unborn", "Exited"} => pc'[v] = pc[v]
    BY <1>0, <2>1, <2>2 DEF Woken, InLoop, StopLabels
  <2>5. CASE CallShutdown(c)
    <3>1. /\ pc[c] \notin {"NotifyStop", "Join"} /\ pc'[c] = "Stop"
          /\ UNCHANGED <<running, shutdownMutex>>
      BY <1>0, <2>5, GotoEffect DEF CallShutdown, CanCall
    <3> QED  BY <1>1, <2>3, <2>4, <3>1 DEF StopInv, StopLabels
  <2>6. CASE StopRunning(c)
    <3>1. /\ pc[c] = "Stop" /\ pc'[c] = "NotifyStop" /\ shutdownMutex = NoThread
          /\ shutdownMutex' = c /\ ~running' /\ running
      BY <1>0, <2>6, GotoEffect DEF StopRunning
    <3>2. \A d \in Callers : pc[d] \notin StopLabels
      BY <1>1, <3>1 DEF StopInv, StopLabels
    <3> QED  BY <1>1, <2>3, <2>4, <3>1, <3>2 DEF StopInv, StopLabels
  <2>7. CASE AlreadyStopped(c)
    <3>1. /\ pc[c] = "Stop" /\ pc'[c] = "Stopped" /\ shutdownMutex = NoThread
          /\ UNCHANGED <<running, shutdownMutex>> /\ ~running
      BY <1>0, <2>7, GotoEffect DEF AlreadyStopped
    <3> QED  BY <1>1, <2>3, <2>4, <3>1 DEF StopInv, StopLabels
  <2>8. CASE NotifyStop(c)
    <3>1. /\ pc[c] = "NotifyStop" /\ pc'[c] = "Join"
          /\ UNCHANGED <<running, shutdownMutex>>
      BY <1>0, <2>8, NotifyWakes DEF NotifyStop
    <3> QED  BY <1>1, <2>3, <2>4, <3>1 DEF StopInv, StopLabels
  <2>9. CASE JoinWorkers(c)
    <3>1. /\ pc[c] = "Join" /\ pc'[c] = "Stopped"
          /\ shutdownMutex' = NoThread /\ running' = running
          /\ \A w \in Workers : pc[w] \in {"Unborn", "Exited"}
      BY <1>0, <2>9, GotoEffect DEF JoinWorkers
    <3>2. shutdownMutex = c /\ ~running
      BY <1>1, <3>1 DEF StopInv
    <3>3. \A d \in Callers \ {c} : pc[d] \notin {"NotifyStop", "Join"}
      BY <1>1, <3>2 DEF StopInv
    <3> QED  BY <1>1, <2>3, <2>4, <3>1, <3>2, <3>3 DEF StopInv, StopLabels
  <2> QED  BY <1>7, <2>5, <2>6, <2>7, <2>8, <2>9 DEF ShutdownStep
<1> QED  BY <1>2, <1>3, <1>4, <1>5, <1>6, <1>7 DEF Next

-----------------------------------------------------------------------------
(* Where the tasks are. *)

(***************************************************************************)
(* A finished task that is still held is not accounted for yet.            *)
(***************************************************************************)
LEMMA FinishPlace ==
    ASSUME IInv, NEW w \in Workers, FinishTask(w)
    PROVE  UNCHANGED <<queue, hand, batchSize, pendingBatches>> /\ Accounted' = Accounted
           /\ ran \subseteq ran' /\ hand[w] \in Held
<1>1. hand[w] # NoTask
  BY DEF IInv, HandInv, FinishTask
<1>2. hand[w] \in Held
  BY <1>1 DEF Held
<1>3. hand' = hand /\ ran' = ran \cup {hand[w]}
  BY DEF FinishTask
<1>4. Held' = Held
  BY <1>3 DEF Held
<1>5. (ran \cup {hand[w]}) \ Held = ran \ Held
  BY <1>2
<1> QED  BY <1>2, <1>3, <1>4, <1>5 DEF FinishTask, poolVars, Accounted

(***************************************************************************)
(* Taking a task moves it from the queue to one pair of hands.             *)
(***************************************************************************)
LEMMA TakePlace ==
    ASSUME IInv, NEW w \in Workers, TakeTask(w)
    PROVE  /\ Queued' = Queued \ {Head(queue)}
           /\ Held' = Held \cup {Head(queue)}
           /\ Head(queue) \in Queued
           /\ Head(queue) # NoTask
           /\ Accounted' = Accounted
           /\ IsInjective(queue')
           /\ hand' = [hand EXCEPT ![w] = Head(queue)]
           /\ UNCHANGED <<batchSize, pendingBatches, ran>>
<1>1. /\ queue \in Seq(Nat \X Nat) /\ queue # <<>>
      /\ IsInjective(queue)
      /\ queue' = Tail(queue) /\ hand' = [hand EXCEPT ![w] = Head(queue)]
      /\ UNCHANGED <<batchSize, pendingBatches, ran>>
  BY DEF IInv, TypeOK, InOnePlace, TakeTask
<1>2. /\ Head(queue) \in Nat \X Nat
      /\ Queued' = Queued \ {Head(queue)}
      /\ Head(queue) \in Queued
      /\ IsInjective(queue')
  BY <1>1, PopFront DEF Queued
<1>3. Head(queue) # NoTask
  BY <1>2, NoTaskAssumption
<1>4. hand[w] = NoTask /\ hand \in [Workers -> (Nat \X Nat) \cup {NoTask}]
  BY DEF IInv, HandInv, TypeOK, TakeTask
<1>5. Held' = Held \cup {Head(queue)}
  <2>1. hand'[w] = Head(queue) /\ \A v \in Workers \ {w} : hand'[v] = hand[v]
    BY <1>1, <1>4
  <2>2. Held' = {hand'[v] : v \in Workers} \ {NoTask}
    BY DEF Held
  <2> QED  BY <1>3, <1>4, <2>1, <2>2 DEF Held
<1>6. Head(queue) \notin ran
  BY <1>2 DEF IInv, InOnePlace
<1>7. Accounted' = Accounted
  BY <1>1, <1>5, <1>6 DEF Accounted
<1> QED  BY <1>1, <1>2, <1>3, <1>5, <1>7

(***************************************************************************)
(* Accounting for a task takes it out of its worker's hands for good.      *)
(***************************************************************************)
LEMMA AccountPlace ==
    ASSUME IInv, NEW w \in Workers, AccountTask(w)
    PROVE  /\ Held' = Held \ {hand[w]}
           /\ Accounted' = Accounted \cup {hand[w]}
           /\ hand[w] \in Held \ Accounted
           /\ hand[w] \in AllTasks
           /\ hand[w] # NoTask
           /\ hand' = [hand EXCEPT ![w] = NoTask]
           /\ UNCHANGED <<queue, batchSize, ran>>
<1>1. /\ hand[w] # NoTask /\ hand[w] \in ran
      /\ hand' = [hand EXCEPT ![w] = NoTask]
      /\ hand \in [Workers -> (Nat \X Nat) \cup {NoTask}]
      /\ UNCHANGED <<queue, batchSize, ran>>
  BY DEF IInv, HandInv, TypeOK, AccountTask
<1>2. hand[w] \in Held
  BY <1>1 DEF Held
<1>3. \A v \in Workers \ {w} : hand[v] = hand[w] => FALSE
  BY <1>1 DEF IInv, InOnePlace
<1>4. Held' = Held \ {hand[w]}
  <2>1. hand'[w] = NoTask /\ \A v \in Workers \ {w} : hand'[v] = hand[v]
    BY <1>1
  <2>2. Held' = {hand'[v] : v \in Workers} \ {NoTask}
    BY DEF Held
  <2> QED  BY <1>1, <1>3, <2>1, <2>2 DEF Held
<1>5. Accounted' = Accounted \cup {hand[w]}
  BY <1>1, <1>2, <1>4 DEF Accounted
<1>6. hand[w] \in AllTasks
  BY <1>2 DEF IInv, InOnePlace
<1> QED  BY <1>1, <1>2, <1>4, <1>5, <1>6 DEF Accounted

(***************************************************************************)
(* A submitted batch is new, queued as a whole, and changes no other one.  *)
(***************************************************************************)
LEMMA SubmitPlace ==
    ASSUME IInv, NEW t \in Threads, NEW n \in 1 .. MaxTasks, SubmitAccepted(t, n)
    PROVE  /\ n \in Nat \ {0}
           /\ nextBatchId = Len(batchSize) + 1 /\ Len(batchSize) \in Nat
           /\ Len(batchSize') = nextBatchId
           /\ \A b \in 1 .. Len(batchSize) : Tasks(b)' = Tasks(b)
           /\ \A b : b = nextBatchId => Tasks(b)' = {b} \X (1 .. n)
           /\ Queued' = Queued \cup ({nextBatchId} \X (1 .. n))
           /\ IsInjective(queue')
           /\ \A s \in AllTasks : s[1] \in 1 .. Len(batchSize)
           /\ AllTasks' = AllTasks \cup ({nextBatchId} \X (1 .. n))
           /\ Held' = Held /\ Accounted' = Accounted
           /\ UNCHANGED <<hand, ran>>
<1>1. n \in Nat \ {0} /\ n \in Nat
  BY BoundsAssumption
<1>2. /\ batchSize \in Seq(Nat \ {0}) /\ nextBatchId = Len(batchSize) + 1
      /\ queue \in Seq(Nat \X Nat)
      /\ IsInjective(queue)
  BY DEF IInv, TypeOK, InOnePlace
<1>3. /\ queue' = queue \o [i \in 1 .. n |-> <<nextBatchId, i>>]
      /\ batchSize' = Append(batchSize, n)
      /\ UNCHANGED <<hand, ran>>
  BY DEF SubmitAccepted
<1>4. Len(batchSize) \in Nat /\ nextBatchId \in Nat
  BY <1>2, LenProperties
<1>5. /\ Len(batchSize') = nextBatchId
      /\ \A b \in 1 .. Len(batchSize) : batchSize'[b] = batchSize[b]
      /\ batchSize'[nextBatchId] = n
  BY <1>1, <1>2, <1>3, <1>4, AppendProperties
<1>6. \A b \in 1 .. Len(batchSize) : Tasks(b)' = Tasks(b)
  BY <1>5 DEF Tasks
<1>7. \A b : b = nextBatchId => Tasks(b)' = {b} \X (1 .. n)
  BY <1>5 DEF Tasks
<1>8. \A s \in AllTasks : s[1] \in 1 .. Len(batchSize)
  BY DEF AllTasks, Tasks
<1>9. AllTasks' = AllTasks \cup ({nextBatchId} \X (1 .. n))
  <2>1. AllTasks' = UNION {{b} \X (1 .. batchSize'[b]) : b \in 1 .. Len(batchSize')}
    BY DEF AllTasks, Tasks
  <2>2. AllTasks = UNION {{b} \X (1 .. batchSize[b]) : b \in 1 .. Len(batchSize)}
    BY DEF AllTasks, Tasks
  <2>3. 1 .. Len(batchSize') = 1 .. Len(batchSize) \cup {nextBatchId}
    BY <1>2, <1>4, <1>5
  <2>4. \A b \in 1 .. Len(batchSize) : b \in 1 .. Len(batchSize')
    BY <2>3
  <2>5. nextBatchId \in 1 .. Len(batchSize')
    BY <2>3
  <2>6. AllTasks \subseteq AllTasks'
    BY <1>5, <2>1, <2>2, <2>4
  <2>7. {nextBatchId} \X (1 .. n) \subseteq AllTasks'
    BY <1>5, <2>1, <2>5
  <2>8. AllTasks' \subseteq AllTasks \cup ({nextBatchId} \X (1 .. n))
    BY <1>5, <2>1, <2>2, <2>3
  <2> QED  BY <2>6, <2>7, <2>8
<1>10. \A s \in Range(queue) : s[1] # nextBatchId
  <2>1. Range(queue) \subseteq AllTasks
    BY DEF IInv, InOnePlace, Queued
  <2>2. nextBatchId \notin 1 .. Len(batchSize)
    BY <1>2, <1>4
  <2> QED  BY <1>8, <2>1, <2>2
<1>11. queue' = queue \o BatchOf(nextBatchId, n)
  BY <1>3 DEF BatchOf
<1>12. Queued' = Queued \cup ({nextBatchId} \X (1 .. n)) /\ IsInjective(queue')
  <2>1. /\ Range(queue \o BatchOf(nextBatchId, n)) = Range(queue) \cup ({nextBatchId} \X (1 .. n))
        /\ IsInjective(queue \o BatchOf(nextBatchId, n))
    <3>1. /\ queue \in Seq(Nat \X Nat) /\ IsInjective(queue)
          /\ nextBatchId \in Nat /\ n \in Nat
      BY <1>1, <1>2, <1>4
    <3> QED  BY <3>1, <1>10, PushBatch
  <2> QED  BY <1>11, <2>1 DEF Queued
<1>13. Held' = Held /\ Accounted' = Accounted
  BY <1>3 DEF Held, Accounted
<1> QED  BY <1>1, <1>2, <1>3, <1>4, <1>5, <1>6, <1>7, <1>8, <1>9, <1>12, <1>13

(***************************************************************************)
(* Every other step leaves the tasks, the queue and the counters alone.    *)
(***************************************************************************)
TaskMove ==
    \/ \E w \in Workers : TakeTask(w) \/ FinishTask(w) \/ AccountTask(w)
    \/ \E t \in Threads, n \in 1 .. MaxTasks : SubmitAccepted(t, n)

LEMMA OtherSteps ==
    ASSUME Next, ~TaskMove
    PROVE  UNCHANGED <<queue, pendingBatches, batchSize, hand, ran>>
BY DEF TaskMove, Next, Construction, CreateWorker, Register, RegisterFails,
       FinishConstruction, WorkerStep, BlockForWork, LeaveLoop, NotifyBatchComplete,
       Unregister, BeginCall, SubmitRefused, Wait, CallStep, NotifyWorkAvailable, TestBatch,
       SpuriousWakeup, CallShutdown, ShutdownStep, StopRunning, AlreadyStopped, NotifyStop,
       JoinWorkers, poolVars

(***************************************************************************)
(* Every accepted task stays in exactly one place.                         *)
(***************************************************************************)
LEMMA PlaceStep ==
    ASSUME IInv, Next
    PROVE  InOnePlace'
<1>0. InOnePlace
  BY DEF IInv
<1>1. ASSUME NEW w \in Workers, TakeTask(w) PROVE InOnePlace'
  <2>1. AllTasks' = AllTasks
    BY <1>1, TakePlace DEF AllTasks, Tasks
  <2>2. Queued' \cap (Held' \cup ran') = {}
    BY <1>0, <1>1, TakePlace DEF InOnePlace
  <2>3. ASSUME NEW u \in Workers, NEW v \in Workers, hand'[u] = hand'[v], hand'[v] # NoTask
        PROVE  u = v
    <3>1. \A x \in Workers : x # w => hand'[x] = hand[x] /\ hand[x] # Head(queue)
      <4>1. \A x \in Workers : hand[x] # NoTask => hand[x] \in Held
        BY DEF Held
      <4>2. Head(queue) \notin Held /\ Head(queue) # NoTask
        BY <1>0, <1>1, TakePlace DEF InOnePlace
      <4>3. \A x \in Workers : x # w => hand'[x] = hand[x]
        BY <1>1, TakePlace DEF IInv, TypeOK
      <4> QED  BY <4>1, <4>2, <4>3
    <3>2. hand'[w] = Head(queue)
      BY <1>1, TakePlace DEF IInv, TypeOK
    <3> QED  BY <1>0, <2>3, <3>1, <3>2 DEF InOnePlace
  <2>4. AllTasks' = Queued' \cup Held' \cup Accounted'
    BY <1>0, <1>1, <2>1, TakePlace DEF InOnePlace
  <2>5. IsInjective(queue')
    BY <1>1, TakePlace
  <2> QED  BY <2>2, <2>3, <2>4, <2>5 DEF InOnePlace
<1>2. ASSUME NEW w \in Workers, FinishTask(w) PROVE InOnePlace'
  <2>1. /\ Queued' = Queued /\ Held' = Held /\ AllTasks' = AllTasks /\ Accounted' = Accounted
        /\ ran' = ran \cup {hand[w]} /\ hand[w] \in Held /\ queue' = queue /\ hand' = hand
    BY <1>2, FinishPlace DEF Queued, Held, AllTasks, Tasks, FinishTask
  <2> QED  BY <1>0, <2>1 DEF InOnePlace
<1>3. ASSUME NEW w \in Workers, AccountTask(w) PROVE InOnePlace'
  <2>1. /\ Queued' = Queued /\ AllTasks' = AllTasks /\ queue' = queue /\ ran' = ran
        /\ Held' = Held \ {hand[w]} /\ Accounted' = Accounted \cup {hand[w]}
        /\ hand[w] \in Held
    BY <1>3, AccountPlace DEF Queued, AllTasks, Tasks
  <2>2. \A u \in Workers : hand'[u] # NoTask => hand'[u] = hand[u]
    BY <1>3, AccountPlace DEF IInv, TypeOK
  <2>3. ASSUME NEW u \in Workers, NEW v \in Workers, hand'[u] = hand'[v], hand'[v] # NoTask
        PROVE  u = v
    BY <1>0, <2>2, <2>3 DEF InOnePlace
  <2> QED  BY <1>0, <2>1, <2>3 DEF InOnePlace
<1>4. ASSUME NEW t \in Threads, NEW n \in 1 .. MaxTasks, SubmitAccepted(t, n)
      PROVE  InOnePlace'
  <2>1. /\ Queued' = Queued \cup ({nextBatchId} \X (1 .. n))
        /\ AllTasks' = AllTasks \cup ({nextBatchId} \X (1 .. n))
        /\ Held' = Held /\ Accounted' = Accounted /\ hand' = hand /\ ran' = ran
        /\ IsInjective(queue')
        /\ \A s \in AllTasks : s[1] \in 1 .. Len(batchSize)
        /\ nextBatchId = Len(batchSize) + 1 /\ Len(batchSize) \in Nat
    BY <1>4, SubmitPlace
  <2>2. Held \cup ran \subseteq AllTasks
    BY <1>0 DEF InOnePlace, Accounted
  <2>3. ({nextBatchId} \X (1 .. n)) \cap (Held \cup ran) = {}
    <3>1. \A s \in {nextBatchId} \X (1 .. n) : s[1] = nextBatchId
      OBVIOUS
    <3>2. nextBatchId \notin 1 .. Len(batchSize)
      BY <2>1
    <3> QED  BY <2>1, <2>2, <3>1, <3>2
  <2> QED  BY <1>0, <2>1, <2>3 DEF InOnePlace
<1>5. CASE ~TaskMove
  <2>1. UNCHANGED <<queue, pendingBatches, batchSize, hand, ran>>
    BY <1>5, OtherSteps
  <2>2. Queued' = Queued /\ Held' = Held /\ AllTasks' = AllTasks /\ Accounted' = Accounted
    BY <2>1 DEF Queued, Held, AllTasks, Tasks, Accounted
  <2> QED  BY <1>0, <2>1, <2>2 DEF InOnePlace
<1> QED  BY <1>1, <1>2, <1>3, <1>4, <1>5 DEF TaskMove

(***************************************************************************)
(* What is queued stays behind what was taken: a task is taken from the    *)
(* front, and a batch is queued behind all batches before it.              *)
(***************************************************************************)
LEMMA OrderStep ==
    ASSUME IInv, SubmissionOrder, Next
    PROVE  SubmissionOrder'
<1>0. /\ queue \in Seq(Nat \X Nat)
      /\ \A i, j \in 1 .. Len(queue) : i < j => Earlier(queue[i], queue[j])
      /\ \A s \in Held \cup ran, t \in Queued : Earlier(s, t)
  BY DEF IInv, TypeOK, SubmissionOrder
<1>1. ASSUME NEW w \in Workers, TakeTask(w) PROVE SubmissionOrder'
  <2>1. queue # <<>> /\ queue' = Tail(queue)
    BY <1>1 DEF TakeTask
  <2>2. \A t \in Range(Tail(queue)) : Earlier(Head(queue), t)
    BY <1>0, <2>1, PopFrontOrdered
  <2>3. \A i, j \in 1 .. Len(Tail(queue)) : i < j => Earlier(Tail(queue)[i], Tail(queue)[j])
    BY <1>0, <2>1, PopFrontOrdered
  <2>4. Queued' = Range(Tail(queue))
    BY <2>1 DEF Queued
  <2>5. /\ Queued' \subseteq Queued /\ Held' = Held \cup {Head(queue)} /\ ran' = ran
    BY <1>1, TakePlace
  <2>6. \A s \in Held' \cup ran', t \in Queued' : Earlier(s, t)
    BY <1>0, <2>2, <2>4, <2>5
  <2> QED  BY <2>1, <2>3, <2>6 DEF SubmissionOrder, Earlier
<1>2. ASSUME NEW w \in Workers, FinishTask(w) PROVE SubmissionOrder'
  <2>1. /\ Queued' = Queued /\ Held' = Held /\ queue' = queue
        /\ ran' = ran \cup {hand[w]} /\ hand[w] \in Held
    BY <1>2, FinishPlace DEF Queued, Held, FinishTask
  <2> QED  BY <1>0, <2>1 DEF SubmissionOrder, Earlier
<1>3. ASSUME NEW w \in Workers, AccountTask(w) PROVE SubmissionOrder'
  <2>1. Queued' = Queued /\ Held' \subseteq Held /\ queue' = queue /\ ran' = ran
    BY <1>3, AccountPlace DEF Queued
  <2> QED  BY <1>0, <2>1 DEF SubmissionOrder, Earlier
<1>4. ASSUME NEW t \in Threads, NEW n \in 1 .. MaxTasks, SubmitAccepted(t, n)
      PROVE  SubmissionOrder'
  <2>1. /\ queue' = queue \o BatchOf(nextBatchId, n)
        /\ n \in Nat /\ nextBatchId \in Nat
    <3>1. queue' = queue \o BatchOf(nextBatchId, n)
      BY <1>4 DEF SubmitAccepted, BatchOf
    <3>2. n \in Nat /\ nextBatchId \in Nat
      BY <1>4, SubmitPlace
    <3> QED  BY <3>1, <3>2
  <2>2. /\ Queued \subseteq AllTasks /\ Held \cup ran \subseteq AllTasks
    BY DEF IInv, InOnePlace, Accounted
  <2>3. \A s \in AllTasks : s[1] < nextBatchId
    BY <1>4, SubmitPlace
  <2>4. \A i, j \in 1 .. Len(queue') : i < j => Earlier(queue'[i], queue'[j])
    BY <1>0, <2>1, <2>2, <2>3, PushBatchOrdered DEF Queued
  <2>5. /\ Queued' = Queued \cup ({nextBatchId} \X (1 .. n))
        /\ Held' = Held /\ ran' = ran
    BY <1>4, SubmitPlace
  <2>6. \A s \in Held \cup ran, u \in {nextBatchId} \X (1 .. n) : Earlier(s, u)
    BY <2>2, <2>3 DEF Earlier
  <2>7. \A s \in Held' \cup ran', u \in Queued' : Earlier(s, u)
    BY <1>0, <2>5, <2>6
  <2> QED  BY <2>4, <2>7 DEF SubmissionOrder, Earlier
<1>5. CASE ~TaskMove
  <2>1. queue' = queue /\ Queued' = Queued /\ Held' = Held /\ ran' = ran
    BY <1>5, OtherSteps DEF Queued, Held
  <2> QED  BY <1>0, <2>1 DEF SubmissionOrder, Earlier
<1> QED  BY <1>1, <1>2, <1>3, <1>4, <1>5 DEF TaskMove

(***************************************************************************)
(* A batch's tasks are finitely many, and as many as it has accounted for. *)
(***************************************************************************)
LEMMA TasksFinite ==
    ASSUME NEW b, NEW n \in Nat
    PROVE  /\ IsFiniteSet({b} \X (1 .. n))
           /\ Cardinality({b} \X (1 .. n)) = n
<1>1. IsFiniteSet({b}) /\ Cardinality({b}) = 1
  BY FS_Singleton
<1>2. IsFiniteSet(1 .. n) /\ Cardinality(1 .. n) = n
  <2>1. 1 \in Int /\ n \in Int /\ (1 > n => n = 0)
    OBVIOUS
  <2> QED  BY <2>1, FS_Interval
<1>3. /\ IsFiniteSet({b} \X (1 .. n))
      /\ Cardinality({b} \X (1 .. n)) = Cardinality({b}) * Cardinality(1 .. n)
  BY <1>1, <1>2, FS_Product, Zenon
<1>4. Cardinality({b} \X (1 .. n)) = 1 * n
  BY <1>1, <1>2, <1>3, Zenon
<1>5. 1 * n = n
  OBVIOUS
<1> QED  BY <1>3, <1>4, <1>5

(***************************************************************************)
(* The counters of the pending batches are right after every step.         *)
(***************************************************************************)
LEMMA AccountingStep ==
    ASSUME IInv, Next
    PROVE  PendingAccounting'
<1>0. /\ PendingAccounting
      /\ batchSize \in Seq(Nat \ {0}) /\ Len(batchSize) \in Nat
      /\ DOMAIN pendingBatches \subseteq 1 .. Len(batchSize)
      /\ pendingBatches \in [DOMAIN pendingBatches -> Nat]
  BY LenProperties DEF IInv, TypeOK
<1>1. \A b \in 1 .. Len(batchSize) : IsFiniteSet(Tasks(b)) /\ IsFiniteSet(Unaccounted(b))
  <2> SUFFICES ASSUME NEW b \in 1 .. Len(batchSize)
               PROVE  IsFiniteSet(Tasks(b)) /\ IsFiniteSet(Unaccounted(b))
    OBVIOUS
  <2>1. batchSize[b] \in Nat
    BY <1>0, ElementOfSeq
  <2>2. IsFiniteSet(Tasks(b))
    BY <2>1, TasksFinite DEF Tasks
  <2> QED  BY <2>2, FS_Subset DEF Unaccounted
<1>2. ASSUME UNCHANGED <<batchSize, pendingBatches>>, Accounted' = Accounted
      PROVE  PendingAccounting'
  <2>1. \A b : Unaccounted(b)' = Unaccounted(b)
    BY <1>2 DEF Unaccounted, Tasks
  <2> QED  BY <1>0, <1>2, <2>1 DEF PendingAccounting
<1>3. ASSUME NEW w \in Workers, TakeTask(w) PROVE PendingAccounting'
  BY <1>2, <1>3, TakePlace
<1>4. ASSUME NEW w \in Workers, FinishTask(w) PROVE PendingAccounting'
  BY <1>2, <1>4, FinishPlace
<1>5. ASSUME NEW w \in Workers, AccountTask(w) PROVE PendingAccounting'
  <2> DEFINE t == hand[w]
             d == hand[w][1]
  <2>1. /\ Accounted' = Accounted \cup {t} /\ t \notin Accounted /\ t \in AllTasks
        /\ batchSize' = batchSize
        /\ pendingBatches' = CountDown(pendingBatches, d)
    BY <1>5, AccountPlace DEF AccountTask
  <2>2. d \in 1 .. Len(batchSize) /\ t \in Tasks(d)
    BY <2>1 DEF AllTasks, Tasks
  <2>3. \A b \in 1 .. Len(batchSize) : b # d => t \notin Tasks(b)
    BY DEF Tasks
  <2> HIDE DEF t, d
  <2>4. \A b \in 1 .. Len(batchSize) : Unaccounted(b)' = Unaccounted(b) \ {t}
    BY <2>1 DEF Unaccounted, Tasks
  <2>5. t \in Unaccounted(d)
    BY <2>1, <2>2 DEF Unaccounted
  <2>6. d \in DOMAIN pendingBatches /\ pendingBatches[d] = Cardinality(Unaccounted(d))
        /\ pendingBatches[d] \in Nat \ {0}
    BY <1>0, <2>2, <2>5 DEF PendingAccounting
  <2>7. /\ Cardinality(Unaccounted(d) \ {t}) = pendingBatches[d] - 1
        /\ IsFiniteSet(Unaccounted(d) \ {t})
    BY <1>1, <2>2, <2>5, <2>6, FS_RemoveElement
  <2>8. ASSUME NEW b \in 1 .. Len(batchSize)
        PROVE  IF b \in DOMAIN pendingBatches'
               THEN pendingBatches'[b] = Cardinality(Unaccounted(b)') /\ pendingBatches'[b] > 0
               ELSE Unaccounted(b)' = {}
    <3>1. CASE b = d /\ pendingBatches[d] = 1
      <4>1. b \notin DOMAIN pendingBatches'
        BY <2>1, <2>6, <3>1 DEF CountDown
      <4>2. Unaccounted(b)' = Unaccounted(d) \ {t}
        BY <2>4, <3>1
      <4>3. Unaccounted(d) \ {t} = {}
        BY <2>7, <3>1, FS_EmptySet
      <4> QED  BY <4>1, <4>2, <4>3
    <3>2. CASE b = d /\ pendingBatches[d] # 1
      <4>1. pendingBatches' = [pendingBatches EXCEPT ![d] = @ - 1]
        BY <2>1, <2>6, <3>2 DEF CountDown
      <4>2. b \in DOMAIN pendingBatches' /\ pendingBatches'[b] = pendingBatches[d] - 1
        BY <1>0, <2>6, <3>2, <4>1
      <4>3. Unaccounted(b)' = Unaccounted(d) \ {t}
        BY <2>4, <3>2
      <4>4. pendingBatches[d] - 1 > 0
        BY <2>6, <3>2
      <4> QED  BY <2>7, <4>2, <4>3, <4>4
    <3>3. CASE b # d
      <4>1. Unaccounted(b)' = Unaccounted(b)
        <5>1. t \notin Unaccounted(b)
          BY <2>3, <3>3 DEF Unaccounted, t, d
        <5> QED  BY <2>4, <5>1
      <4>2. /\ b \in DOMAIN pendingBatches' <=> b \in DOMAIN pendingBatches
            /\ b \in DOMAIN pendingBatches => pendingBatches'[b] = pendingBatches[b]
        BY <1>0, <2>1, <2>6, <3>3 DEF CountDown
      <4> QED  BY <1>0, <4>1, <4>2 DEF PendingAccounting
    <3> QED  BY <3>1, <3>2, <3>3
  <2> QED  BY <2>1, <2>8 DEF PendingAccounting
<1>6. ASSUME NEW t \in Threads, NEW n \in 1 .. MaxTasks, SubmitAccepted(t, n)
      PROVE  PendingAccounting'
  <2>1. /\ n \in Nat \ {0}
        /\ nextBatchId = Len(batchSize) + 1
        /\ Len(batchSize') = nextBatchId
        /\ \A b \in 1 .. Len(batchSize) : Tasks(b)' = Tasks(b)
        /\ \A b : b = nextBatchId => Tasks(b)' = {b} \X (1 .. n)
        /\ \A s \in AllTasks : s[1] \in 1 .. Len(batchSize)
        /\ Accounted' = Accounted
    BY <1>6, SubmitPlace
  <2>2. /\ DOMAIN pendingBatches' = DOMAIN pendingBatches \cup {nextBatchId}
        /\ pendingBatches'[nextBatchId] = n
        /\ \A b \in DOMAIN pendingBatches : b # nextBatchId => pendingBatches'[b] = pendingBatches[b]
    BY <1>6 DEF SubmitAccepted
  <2>3. ASSUME NEW b \in 1 .. Len(batchSize')
        PROVE  IF b \in DOMAIN pendingBatches'
               THEN pendingBatches'[b] = Cardinality(Unaccounted(b)') /\ pendingBatches'[b] > 0
               ELSE Unaccounted(b)' = {}
    <3>1. CASE b = nextBatchId
      <4>1. Accounted \subseteq AllTasks
        BY DEF IInv, InOnePlace
      <4>2. Unaccounted(b)' = {b} \X (1 .. n)
        <5>1. \A s \in {b} \X (1 .. n) : s[1] = b
          OBVIOUS
        <5>2. b \notin 1 .. Len(batchSize)
          BY <1>0, <2>1, <3>1
        <5>3. ({b} \X (1 .. n)) \cap Accounted = {}
          BY <2>1, <4>1, <5>1, <5>2
        <5> QED  BY <2>1, <3>1, <5>3 DEF Unaccounted
      <4>3. Cardinality(Unaccounted(b)') = n
        BY <2>1, <4>2, TasksFinite
      <4> QED  BY <2>1, <2>2, <3>1, <4>3
    <3>2. CASE b # nextBatchId
      <4>1. b \in 1 .. Len(batchSize)
        BY <1>0, <2>1, <3>2
      <4>2. Unaccounted(b)' = Unaccounted(b)
        BY <2>1, <4>1 DEF Unaccounted
      <4> QED  BY <1>0, <2>2, <3>2, <4>1, <4>2 DEF PendingAccounting
    <3> QED  BY <3>1, <3>2
  <2> QED  BY <2>3 DEF PendingAccounting
<1>7. CASE ~TaskMove
  <2>1. UNCHANGED <<queue, pendingBatches, batchSize, hand, ran>>
    BY <1>7, OtherSteps
  <2>2. Accounted' = Accounted
    BY <2>1 DEF Accounted, Held
  <2> QED  BY <1>2, <2>1, <2>2
<1> QED  BY <1>3, <1>4, <1>5, <1>6, <1>7 DEF TaskMove

-----------------------------------------------------------------------------
(* The barrier. *)

(***************************************************************************)
(* A caller is let through the barrier only by a batch that is out of the  *)
(* map, and what such a batch contains has run and stays run.              *)
(***************************************************************************)
LEMMA BarrierStep ==
    ASSUME IInv, Next
    PROVE  BarrierHolds'
<1> SUFFICES ASSUME NEW c \in Callers, NEW b, b = batch'[c],
                    pc'[c] = "Returned", b # 0
             PROVE  Tasks(b)' \subseteq ran'
  BY DEF BarrierHolds, Tasks
<1> USE ThreadsAssumption
<1>0. /\ PcOK /\ c \in Threads /\ (\A w \in Workers : w \in Threads /\ w # c)
      /\ batch \in [Threads -> 0 .. Len(batchSize)]
      /\ batchSize \in Seq(Nat \ {0}) /\ Len(batchSize) \in Nat
      /\ registered \subseteq Workers
  BY LenProperties DEF IInv, TypeOK, Threads
<1>1. ran \subseteq ran' /\ \A e \in 1 .. Len(batchSize) : Tasks(e)' = Tasks(e)
  <2>1. ASSUME NEW w \in Workers, TakeTask(w) \/ FinishTask(w) \/ AccountTask(w)
        PROVE  ran \subseteq ran' /\ batchSize' = batchSize
    BY <2>1 DEF TakeTask, FinishTask, AccountTask, poolVars
  <2>2. ASSUME NEW t \in Threads, NEW n \in 1 .. MaxTasks, SubmitAccepted(t, n)
        PROVE  ran' = ran /\ \A e \in 1 .. Len(batchSize) : Tasks(e)' = Tasks(e)
    BY <2>2, SubmitPlace
  <2>3. CASE ~TaskMove
    BY <2>3, OtherSteps DEF Tasks
  <2> QED  BY <2>1, <2>2, <2>3 DEF TaskMove, Tasks
<1>2. CASE pc[c] = "Returned" /\ batch'[c] = batch[c]
  <2>1. b = batch[c] /\ b \in 1 .. Len(batchSize)
    BY <1>0, <1>2
  <2>2. Tasks(b) \subseteq ran
    BY <1>2, <2>1 DEF IInv, BarrierHolds, Tasks
  <2> QED  BY <1>1, <1>2, <2>1, <2>2
<1>3. CASE TestBatch(c)
  <2>1. /\ pc[c] = "WaitBatch" /\ batch' = batch /\ ran' = ran
        /\ batch[c] \notin DOMAIN pendingBatches
    BY <1>0, <1>3, GotoEffect DEF TestBatch
  <2>2. b = batch[c] /\ b \in 1 .. Len(batchSize)
    BY <1>0, <2>1
  <2>3. Unaccounted(b) = {}
    BY <2>1, <2>2 DEF IInv, PendingAccounting
  <2>4. Tasks(b) \subseteq ran
    BY <2>3 DEF Unaccounted, Accounted
  <2> QED  BY <1>1, <2>1, <2>2, <2>4
<1>4. ASSUME NEW e \in 0 .. MaxBatches, Wait(c, e) PROVE FALSE
  <2>1. batch'[c] = e /\ pc'[c] = IF e = 0 THEN "Returned" ELSE "WaitBatch"
    BY <1>0, <1>4, GotoEffect DEF Wait, isWorkerThread, Back
  <2> QED  BY <2>1
<1>5. CASE Construction
  BY <1>0, <1>2, <1>5 DEF Construction, CreateWorker, Register, RegisterFails,
                          FinishConstruction, Goto, PcOK
<1>6. ASSUME NEW w \in Workers, WorkerStep(w)
      PROVE  pc[c] = "Returned" /\ batch'[c] = batch[c]
  <2>1. CASE NotifyBatchComplete(w)
    BY <1>0, <2>1, NotifyWakes DEF NotifyBatchComplete, Woken
  <2>2. CASE ~NotifyBatchComplete(w)
    BY <1>0, <1>6, <2>2 DEF WorkerStep, TakeTask, BlockForWork, LeaveLoop, FinishTask,
                            AccountTask, Unregister, Goto, PcOK
  <2> QED  BY <2>1, <2>2
<1>7. ASSUME NEW t \in Threads, t # c, BeginCall(t) \/ CallStep(t) \/ SpuriousWakeup(t)
      PROVE  pc[c] = "Returned" /\ batch'[c] = batch[c]
  <2>1. pc'[c] = pc[c] \/ Woken(c)
    BY <1>0, <1>7, GotoEffect, NotifyWakes
       DEF BeginCall, SubmitAccepted, SubmitRefused, Wait, CallStep, NotifyWorkAvailable,
           TestBatch, SpuriousWakeup
  <2>2. batch'[c] = batch[c]
    BY <1>0, <1>7 DEF BeginCall, SubmitAccepted, SubmitRefused, Wait, CallStep,
                      NotifyWorkAvailable, TestBatch, SpuriousWakeup
  <2> QED  BY <2>1, <2>2 DEF Woken
<1>8. CASE BeginCall(c) \/ CallStep(c) \/ SpuriousWakeup(c)
  <2>1. CASE \/ \E n \in 1 .. MaxTasks : SubmitAccepted(c, n)
             \/ SubmitRefused(c) \/ NotifyWorkAvailable(c) \/ SpuriousWakeup(c)
    <3>1. pc'[c] # "Returned"
      BY <1>0, <2>1, GotoEffect, NotifyWakes
         DEF SubmitAccepted, SubmitRefused, NotifyWorkAvailable, SpuriousWakeup, Back
    <3> QED  BY <3>1
  <2> QED  BY <1>3, <1>4, <1>8, <2>1 DEF BeginCall, CallStep
<1>9. ASSUME NEW d \in Callers, CallShutdown(d) \/ ShutdownStep(d)
      PROVE  pc[c] = "Returned" /\ batch'[c] = batch[c]
  <2>1. d \in Threads
    BY DEF Threads
  <2>2. \A u \in Threads \ {d} : pc'[u] = pc[u] \/ Woken(u)
    BY <1>0, <1>9, <2>1, GotoEffect, NotifyWakes
       DEF CallShutdown, ShutdownStep, StopRunning, AlreadyStopped, NotifyStop, JoinWorkers
  <2>3. pc'[d] # "Returned" /\ batch' = batch
    BY <1>0, <1>9, <2>1, GotoEffect, NotifyWakes
       DEF CallShutdown, ShutdownStep, StopRunning, AlreadyStopped, NotifyStop, JoinWorkers
  <2> QED  BY <1>0, <2>2, <2>3 DEF Woken
<1> QED  BY <1>2, <1>5, <1>6, <1>7, <1>8, <1>9 DEF Next

(***************************************************************************)
(* A worker in its loop is registered, so wait() refuses it.               *)
(***************************************************************************)
LEMMA NeverWaitStep ==
    ASSUME IInv, Next
    PROVE  WorkersNeverWait'
<1>1. WorkersNeverWait
  BY DEF IInv
<1>2. CASE Construction
  BY <1>1, <1>2, ThreadsAssumption
     DEF IInv, TypeOK, PcOK, Threads, Construction, CreateWorker, Register, RegisterFails,
         FinishConstruction, Goto, WorkersNeverWait
<1>3. ASSUME NEW w \in Workers, LeaveLoop(w) \/ Unregister(w) PROVE WorkersNeverWait'
  <2>1. PcOK /\ w \in Threads
    BY DEF IInv, TypeOK, Threads
  <2> QED  BY <1>1, <1>3, <2>1, GotoEffect DEF LeaveLoop, Unregister, WorkersNeverWait, Threads
<1>4. ASSUME \A w \in Workers : pc'[w] = pc[w] \/ (pc[w] \in InLoop /\ pc'[w] \in InLoop)
      PROVE  WorkersNeverWait'
  BY <1>1, <1>4 DEF WorkersNeverWait, InLoop
<1> QED  BY <1>2, <1>3, <1>4, LoopMoves DEF Next
-----------------------------------------------------------------------------
(* The theorems. *)

(***************************************************************************)
(* IInv holds initially and every step preserves it.                       *)
(***************************************************************************)
THEOREM Invariance == SafeSpec => []IInv
<1>1. Init => IInv
  BY InitIInv
<1>2. IInv /\ [Next]_vars => IInv'
  <2> SUFFICES ASSUME IInv, [Next]_vars PROVE IInv'
    OBVIOUS
  <2>1. CASE Next
    BY <2>1, TypeStep, HandStep, RegistryStep, ConstructionStep, StopStep, PlaceStep,
       AccountingStep, BarrierStep, NeverWaitStep DEF IInv
  <2>2. CASE UNCHANGED vars
    <3>1. Queued' = Queued /\ Held' = Held /\ Accounted' = Accounted /\ AllTasks' = AllTasks
      BY <2>2 DEF vars, Queued, Held, Accounted, AllTasks, Tasks
    <3>2. \A b : Unaccounted(b)' = Unaccounted(b)
      BY <2>2, <3>1 DEF vars, Unaccounted, Tasks
    <3>3. TypeOK' /\ HandInv' /\ RegistryInv' /\ WorkersNeverWait'
      BY <2>2 DEF vars, IInv, TypeOK, PcOK, HandInv, RegistryInv, WorkersNeverWait
    <3>4. ConstructionInv' /\ StopInv'
      BY <2>2 DEF vars, IInv, ConstructionInv, StopInv
    <3>5. InOnePlace' /\ PendingAccounting'
      BY <2>2, <3>1, <3>2 DEF vars, IInv, InOnePlace, PendingAccounting
    <3>6. BarrierHolds'
      BY <2>2 DEF vars, IInv, BarrierHolds, Tasks
    <3> QED  BY <3>3, <3>4, <3>5, <3>6 DEF IInv
  <2> QED  BY <2>1, <2>2
<1> QED  BY <1>1, <1>2, PTL DEF SafeSpec

(***************************************************************************)
(* Every variable keeps its type.                                          *)
(***************************************************************************)
THEOREM TypeCorrect == SafeSpec => []TypeOK
<1>1. IInv => TypeOK
  BY DEF IInv
<1> QED  BY <1>1, Invariance, PTL

(***************************************************************************)
(* wait(batch) returns to a thread outside the pool only when every task   *)
(* of the batch has run (JobSystem::wait, JobSystem::workerMain).          *)
(***************************************************************************)
THEOREM BarrierCorrect == SafeSpec => []BarrierHolds
<1>1. IInv => BarrierHolds
  BY DEF IInv
<1> QED  BY <1>1, Invariance, PTL

(***************************************************************************)
(* The counter of a pending batch is the number of its tasks still to be   *)
(* accounted for, and a batch that is not pending is complete.             *)
(***************************************************************************)
THEOREM AccountingCorrect == SafeSpec => []PendingAccounting
<1>1. IInv => PendingAccounting
  BY DEF IInv
<1> QED  BY <1>1, Invariance, PTL

(***************************************************************************)
(* Every accepted task is in one place and is run once.                    *)
(***************************************************************************)
THEOREM OnceCorrect == SafeSpec => []EachTaskOnce
<1>1. IInv => EachTaskOnce
  BY DEF IInv, HandInv, EachTaskOnce
<1> QED  BY <1>1, Invariance, PTL

(***************************************************************************)
(* Every accepted task is in one place, is run once, and is started in the *)
(* order of submission.                                                    *)
(***************************************************************************)
THEOREM EachTaskOnceInOrderCorrect == SafeSpec => []EachTaskOnceInOrder
<1>1. Init => SubmissionOrder
  BY DEF Init, SubmissionOrder, Held, Queued, Range
<1>2. IInv /\ SubmissionOrder /\ [Next]_vars => SubmissionOrder'
  <2> SUFFICES ASSUME IInv, SubmissionOrder, [Next]_vars PROVE SubmissionOrder'
    OBVIOUS
  <2>1. CASE Next
    BY <2>1, OrderStep
  <2>2. CASE UNCHANGED vars
    BY <2>2 DEF vars, SubmissionOrder, Held, Queued, Earlier
  <2> QED  BY <2>1, <2>2
<1>3. SafeSpec => []SubmissionOrder
  BY <1>1, <1>2, Invariance, PTL DEF SafeSpec
<1> QED  BY <1>3, OnceCorrect, PTL DEF EachTaskOnceInOrder

(***************************************************************************)
(* No worker ever waits at a barrier.                                      *)
(***************************************************************************)
THEOREM NeverWaitCorrect == SafeSpec => []WorkersNeverWait
<1>1. IInv => WorkersNeverWait
  BY DEF IInv
<1> QED  BY <1>1, Invariance, PTL

(***************************************************************************)
(* Whoever shutdown() returns to finds the pool drained: nothing queued,   *)
(* nothing pending, every accepted task run, no worker left.               *)
(***************************************************************************)
THEOREM ShutdownCorrect == SafeSpec => []ShutdownDrains
<1>1. IInv => ShutdownDrains
  <2> SUFFICES ASSUME IInv, NEW c \in Callers, pc[c] = "Stopped" PROVE Drained
    BY DEF ShutdownDrains
  <2>1. \A w \in Workers : pc[w] \in {"Unborn", "Exited"}
    BY DEF IInv, StopInv
  <2>2. Held = {}
    BY <2>1 DEF IInv, HandInv, Held
  <2>3. queue = <<>>
    <3>1. CASE built
      <4>1. PICK w \in Workers : TRUE
        BY ThreadsAssumption
      <4>2. pc[w] = "Exited"
        BY <2>1, <3>1, <4>1 DEF IInv, ConstructionInv
      <4> QED  BY <3>1, <4>1, <4>2 DEF IInv, StopInv
    <3>2. CASE ~built
      <4>1. batchSize = <<>>
        BY <3>2 DEF IInv, ConstructionInv
      <4>2. AllTasks = {}
        BY <4>1 DEF AllTasks
      <4>3. Range(queue) = {}
        BY <4>2 DEF IInv, InOnePlace, Queued
      <4>4. queue \in Seq(Nat \X Nat)
        BY DEF IInv, TypeOK
      <4>5. queue # <<>> => Head(queue) \in Range(queue)
        BY <4>4, PopFront DEF IInv, InOnePlace
      <4> QED  BY <4>3, <4>5
    <3> QED  BY <3>1, <3>2
  <2>4. Queued = {}
    BY <2>3 DEF Queued, Range
  <2>5. AllTasks \subseteq ran /\ AllTasks = Accounted
    BY <2>2, <2>4 DEF IInv, InOnePlace, Accounted
  <2>6. registered = {}
    BY <2>1 DEF IInv, RegistryInv, TypeOK
  <2>7. DOMAIN pendingBatches = {}
    <3>1. ASSUME NEW b \in DOMAIN pendingBatches PROVE FALSE
      <4>1. b \in 1 .. Len(batchSize)
        BY DEF IInv, TypeOK
      <4>2. pendingBatches[b] = Cardinality(Unaccounted(b)) /\ pendingBatches[b] > 0
        BY <4>1 DEF IInv, PendingAccounting
      <4>3. Unaccounted(b) = {}
        BY <2>5, <4>1 DEF Unaccounted, AllTasks
      <4> QED  BY <4>2, <4>3, FS_EmptySet
    <3> QED  BY <3>1
  <2> QED  BY <2>3, <2>5, <2>6, <2>7 DEF Drained
<1> QED  BY <1>1, Invariance, PTL

-----------------------------------------------------------------------------
(***************************************************************************)
(* The tables of the log, which threads of the pool and others register    *)
(* with: LogChannels, over constants and variables of its own.  For any    *)
(* number of calls, any size of the table and any levels, an id that was   *)
(* returned keeps its entry, although the calls that find the table full   *)
(* put the count back while others raise it.                               *)
(*                                                                         *)
(* The property needs two facts that it does not say: a claim inside the   *)
(* table is below the count, and once a claim lies outside, the count      *)
(* never falls below the limit again.                                      *)
(***************************************************************************)
CONSTANTS Registrants, Limit, Levels, Unnamed

VARIABLES count, entries, claim, id, minLevel, set

Channels == INSTANCE LogChannels

ChannelsTypeOK ==
    /\ count \in Nat \ {0}
    /\ entries \in [Channels!Ids -> [name : Registrants \cup {Unnamed}, level : Levels]]
    /\ claim \in [Registrants -> Nat \cup {Channels!NoSlot}]
    /\ id \in [Registrants -> Channels!Ids \cup {Channels!NoSlot}]
    /\ minLevel \in Levels
    /\ set \in [Registrants -> Levels]

\* A claim is an entry the count covers, or the table was full and stays full.
ClaimsCounted ==
    \A r \in Registrants : claim[r] # Channels!NoSlot =>
        /\ claim[r] # 0
        /\ claim[r] < count \/ (claim[r] >= Limit /\ count >= Limit)

ClaimsDistinct ==
    \A r, s \in Registrants : claim[r] = claim[s] /\ claim[r] \in Channels!Ids => r = s

\* A call returned the entry it claimed and filled it, or the default.
ReturnedFilled ==
    /\ \A r \in Registrants : id[r] \notin {Channels!NoSlot, 0} =>
          /\ claim[r] = id[r]
          /\ entries[id[r]] = [name |-> r, level |-> set[r]]
    /\ entries[0].name = Unnamed

ChannelsInv == ChannelsTypeOK /\ ClaimsCounted /\ ClaimsDistinct /\ ReturnedFilled

\* What the program fixes: a table with its default, and levels from 0.
TableAssumption == Limit \in Nat \ {0} /\ Levels \subseteq Nat /\ 0 \in Levels

LEMMA ChannelsInit == TableAssumption /\ Channels!Init => ChannelsInv
<1> SUFFICES ASSUME TableAssumption, Channels!Init PROVE ChannelsInv
  OBVIOUS
<1>1. 0 \in Channels!Ids
  BY DEF TableAssumption, Channels!Ids
<1>2. ChannelsTypeOK
  BY <1>1 DEF Channels!Init, ChannelsTypeOK, TableAssumption
<1> QED  BY <1>1, <1>2 DEF Channels!Init, ChannelsInv, ClaimsCounted, ClaimsDistinct, ReturnedFilled, Channels!NoSlot, Channels!Ids, TableAssumption

\* The slot claimed is the count, so above every claim inside the table.
LEMMA ClaimInvariant ==
  ASSUME TableAssumption, ChannelsInv, NEW r \in Registrants, Channels!Claim(r) PROVE ChannelsInv'
<1> USE DEF ChannelsInv
<1>1. ChannelsTypeOK'
  BY DEF Channels!Claim, ChannelsTypeOK, TableAssumption
<1>2. \A s \in Registrants : claim'[s] = IF s = r THEN count ELSE claim[s]
  BY DEF Channels!Claim, ChannelsTypeOK
<1>3. count \in Nat \ {0} /\ count' = count + 1 /\ Limit \in Nat
  BY DEF Channels!Claim, ChannelsTypeOK, TableAssumption
<1>4. \A s \in Registrants : claim[s] \in Nat \cup {Channels!NoSlot}
  BY DEF ChannelsTypeOK
<1>5. ClaimsCounted'
  BY <1>2, <1>3, <1>4 DEF ClaimsCounted, Channels!NoSlot
<1>6. ClaimsDistinct'
  <2>1. \A s \in Registrants : claim[s] \in Channels!Ids => claim[s] # count
    BY <1>3, <1>4 DEF ClaimsCounted, Channels!Ids, Channels!NoSlot
  <2> QED  BY <1>2, <2>1 DEF ClaimsDistinct
<1>7. ReturnedFilled'
  <2>1. id[r] \in {Channels!NoSlot, 0} \/ claim[r] = id[r]
    BY DEF ReturnedFilled
  <2>2. id[r] \in {Channels!NoSlot, 0}
    BY <2>1 DEF Channels!Claim, ChannelsTypeOK, Channels!Ids, Channels!NoSlot
  <2>3. UNCHANGED <<id, entries, set>>
    BY DEF Channels!Claim
  <2> QED  BY <1>2, <2>2, <2>3 DEF ReturnedFilled
<1> QED  BY <1>1, <1>5, <1>6, <1>7

\* Only the call that claimed an entry fills it.
LEMMA FillInvariant ==
  ASSUME TableAssumption, ChannelsInv, NEW r \in Registrants, NEW l \in Levels, Channels!Fill(r, l) PROVE ChannelsInv'
<1> USE DEF ChannelsInv
<1>1. claim[r] \in Channels!Ids \ {0}
  BY DEF Channels!Fill, Channels!Unfinished, ChannelsTypeOK, ClaimsCounted, TableAssumption, Channels!Ids, Channels!NoSlot
<1>2. UNCHANGED <<count, claim, minLevel>>
  BY DEF Channels!Fill
<1>3. /\ id' = [id EXCEPT ![r] = claim[r]]
      /\ set' = [set EXCEPT ![r] = l]
      /\ entries' = [entries EXCEPT ![claim[r]] = [name |-> r, level |-> l]]
  BY DEF Channels!Fill
<1>4. ChannelsTypeOK'
  BY <1>1, <1>2, <1>3 DEF ChannelsTypeOK
<1>5. ClaimsCounted' /\ ClaimsDistinct'
  BY <1>2 DEF ClaimsCounted, ClaimsDistinct
<1>6. ReturnedFilled'
  <2>1. entries'[0].name = Unnamed
    BY <1>1, <1>3 DEF ReturnedFilled, ChannelsTypeOK
  <2>2. ASSUME NEW s \in Registrants, id'[s] \notin {Channels!NoSlot, 0}
        PROVE  claim'[s] = id'[s] /\ entries'[id'[s]] = [name |-> s, level |-> set'[s]]
    <3>1. CASE s = r
      BY <1>1, <1>2, <1>3, <3>1 DEF ChannelsTypeOK
    <3>2. CASE s # r
      <4>1. id'[s] = id[s] /\ set'[s] = set[s] /\ id[s] \in Channels!Ids
        BY <1>3, <2>2, <3>2 DEF ChannelsTypeOK
      <4>2. claim[s] = id[s] /\ entries[id[s]] = [name |-> s, level |-> set[s]]
        BY <2>2, <4>1 DEF ReturnedFilled
      <4>3. claim[r] # id[s]
        BY <1>1, <3>2, <4>2 DEF ClaimsDistinct
      <4>4. entries'[id[s]] = entries[id[s]]
        BY <1>3, <4>1, <4>3 DEF ChannelsTypeOK
      <4> QED  BY <1>2, <4>1, <4>2, <4>4
    <3> QED  BY <3>1, <3>2
  <2> QED  BY <2>1, <2>2 DEF ReturnedFilled
<1> QED  BY <1>4, <1>5, <1>6

\* The count falls to the limit at most, and was there when the claim was made.
LEMMA OverflowInvariant ==
  ASSUME TableAssumption, ChannelsInv, NEW r \in Registrants, Channels!Overflow(r) PROVE ChannelsInv'
<1> USE DEF ChannelsInv
<1>1. Limit \in Nat \ {0} /\ 0 \in Channels!Ids /\ count' = Limit
  BY DEF TableAssumption, Channels!Ids, Channels!Overflow, Channels!Settled
<1>2. UNCHANGED <<entries, claim, minLevel, set>> /\ id' = [id EXCEPT ![r] = 0]
  BY DEF Channels!Overflow
<1>3. ChannelsTypeOK'
  BY <1>1, <1>2 DEF ChannelsTypeOK
<1>4. ClaimsCounted'
  BY <1>1, <1>2 DEF ClaimsCounted, ChannelsTypeOK, Channels!NoSlot
<1>5. ClaimsDistinct'
  BY <1>2 DEF ClaimsDistinct
<1>6. ReturnedFilled'
  BY <1>2 DEF ReturnedFilled, ChannelsTypeOK
<1> QED  BY <1>3, <1>4, <1>5, <1>6

\* A returned id is below the count, so a lookup finds its own entry.
LEMMA ReturnedResolves ==
  ASSUME TableAssumption, ChannelsInv, NEW r \in Registrants, id[r] \notin {Channels!NoSlot, 0}
  PROVE  Channels!Entry(id[r]) = id[r] /\ id[r] \in Channels!Ids
<1>1. claim[r] = id[r] /\ id[r] \in Channels!Ids
  BY DEF ChannelsInv, ReturnedFilled, ChannelsTypeOK
<1>2. id[r] < count
  BY <1>1 DEF ChannelsInv, ClaimsCounted, ChannelsTypeOK, TableAssumption, Channels!Ids
<1> QED  BY <1>1, <1>2 DEF Channels!Entry

LEMMA SetLevelInvariant ==
  ASSUME TableAssumption, ChannelsInv, NEW r \in Registrants, NEW l \in Levels, Channels!SetLevel(r, l) PROVE ChannelsInv'
<1> USE DEF ChannelsInv
<1>1. UNCHANGED <<count, claim, id, minLevel>> /\ set' = [set EXCEPT ![r] = l] /\ id[r] # Channels!NoSlot
  BY DEF Channels!SetLevel
<1>2. Channels!Entry(id[r]) = id[r] /\ id[r] \in Channels!Ids
  <2>1. CASE id[r] = 0
    BY <2>1 DEF Channels!Entry, TableAssumption, Channels!Ids
  <2>2. CASE id[r] # 0
    BY <1>1, <2>2, ReturnedResolves
  <2> QED  BY <2>1, <2>2
<1>3. entries' = [entries EXCEPT ![id[r]].level = l]
  BY <1>2 DEF Channels!SetLevel
<1>4. \A i \in Channels!Ids : entries'[i] = IF i = id[r] THEN [entries[i] EXCEPT !.level = l] ELSE entries[i]
  BY <1>3 DEF ChannelsTypeOK
<1>5. ChannelsTypeOK'
  BY <1>1, <1>2, <1>3 DEF ChannelsTypeOK
<1>6. ClaimsCounted' /\ ClaimsDistinct'
  BY <1>1 DEF ClaimsCounted, ClaimsDistinct
<1>7. ReturnedFilled'
  <2>1. 0 \in Channels!Ids
    BY DEF TableAssumption, Channels!Ids
  <2>2. entries'[0].name = Unnamed
    BY <1>4, <2>1 DEF ReturnedFilled, ChannelsTypeOK
  <2>3. ASSUME NEW s \in Registrants, id[s] \notin {Channels!NoSlot, 0}
        PROVE  claim[s] = id[s] /\ entries'[id[s]] = [name |-> s, level |-> set'[s]]
    <3>1. claim[s] = id[s] /\ entries[id[s]] = [name |-> s, level |-> set[s]] /\ id[s] \in Channels!Ids
      BY <2>3 DEF ReturnedFilled, ChannelsTypeOK
    <3>2. CASE s = r
      BY <1>1, <1>4, <3>1, <3>2 DEF ChannelsTypeOK
    <3>3. CASE s # r
      <4>1. id[s] # id[r]
        <5>1. CASE id[r] = 0
          BY <2>3, <5>1
        <5>2. CASE id[r] # 0
          BY <1>1, <3>1, <3>3, <5>2 DEF ReturnedFilled, ClaimsDistinct
        <5> QED  BY <5>1, <5>2
      <4> QED  BY <1>1, <1>4, <3>1, <3>3, <4>1 DEF ChannelsTypeOK
    <3> QED  BY <3>2, <3>3
  <2> QED  BY <1>1, <2>2, <2>3 DEF ReturnedFilled
<1> QED  BY <1>5, <1>6, <1>7

LEMMA ChannelsNext == TableAssumption /\ ChannelsInv /\ [Channels!Next]_(Channels!vars) => ChannelsInv'
<1> SUFFICES ASSUME TableAssumption, ChannelsInv, [Channels!Next]_(Channels!vars) PROVE ChannelsInv'
  OBVIOUS
<1>1. ASSUME NEW r \in Registrants, Channels!Claim(r) PROVE ChannelsInv'
  BY <1>1, ClaimInvariant
<1>2. ASSUME NEW r \in Registrants, Channels!Overflow(r) PROVE ChannelsInv'
  BY <1>2, OverflowInvariant
<1>3. ASSUME NEW r \in Registrants, NEW l \in Levels, Channels!Fill(r, l) PROVE ChannelsInv'
  BY <1>3, FillInvariant
<1>4. ASSUME NEW r \in Registrants, NEW l \in Levels, Channels!SetLevel(r, l) PROVE ChannelsInv'
  BY <1>4, SetLevelInvariant
<1>5. ASSUME NEW l \in Levels, Channels!SetMinLevel(l) PROVE ChannelsInv'
  BY <1>5 DEF Channels!SetMinLevel, ChannelsInv, ChannelsTypeOK, ClaimsCounted, ClaimsDistinct, ReturnedFilled
<1>6. CASE UNCHANGED Channels!vars
  BY <1>6 DEF Channels!vars, ChannelsInv, ChannelsTypeOK, ClaimsCounted, ClaimsDistinct, ReturnedFilled
<1> QED  BY <1>1, <1>2, <1>3, <1>4, <1>5, <1>6 DEF Channels!Next

LEMMA ChannelsInvImplies == TableAssumption /\ ChannelsInv => Channels!IdsKeepTheirEntries
<1> SUFFICES ASSUME TableAssumption, ChannelsInv PROVE Channels!IdsKeepTheirEntries
  OBVIOUS
<1>1. ASSUME NEW r \in Registrants, id[r] \notin {Channels!NoSlot, 0}
      PROVE  /\ entries[Channels!Entry(id[r])].name = r
             /\ \A l \in Levels : Channels!IsEnabled(l, id[r]) <=> l >= minLevel /\ l >= set[r]
  <2>1. Channels!Entry(id[r]) = id[r]
    BY <1>1, ReturnedResolves
  <2>2. entries[id[r]] = [name |-> r, level |-> set[r]]
    BY <1>1 DEF ChannelsInv, ReturnedFilled
  <2> QED  BY <2>1, <2>2 DEF Channels!IsEnabled
<1> QED  BY <1>1 DEF ChannelsInv, ClaimsDistinct, ReturnedFilled, Channels!IdsKeepTheirEntries

\* Registering modules and channels (Log.cpp): whatever the calls that overflow
\* the table do to its count, every returned id names its caller's entry and only
\* its caller's level and the minimum decide what it lets through.
THEOREM IdsKeepTheirEntriesCorrect == TableAssumption => (Channels!Spec => []Channels!IdsKeepTheirEntries)
<1> SUFFICES ASSUME TableAssumption PROVE Channels!Spec => []Channels!IdsKeepTheirEntries
  OBVIOUS
<1>1. Channels!Init => ChannelsInv
  BY ChannelsInit
<1>2. ChannelsInv /\ [Channels!Next]_(Channels!vars) => ChannelsInv'
  BY ChannelsNext
<1>3. ChannelsInv => Channels!IdsKeepTheirEntries
  BY ChannelsInvImplies
<1> QED  BY <1>1, <1>2, <1>3, PTL DEF Channels!Spec
=============================================================================
