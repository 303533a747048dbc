------------------------------ MODULE LogSinks ------------------------------
(***************************************************************************)
(* Delivery of log records (Log.cpp): the ring under its own lock, and the *)
(* sinks under the delivery lock.  A thread marks itself as delivering     *)
(* before it takes the lock, so that a record it logs from inside a sink's *)
(* write goes to the ring and to stderr only, and so that it cannot add or *)
(* remove a sink there.                                                    *)
(*                                                                         *)
(* Levels, channels and the text of a record are in LogChannels and        *)
(* FormatBuffer; a record here is one that passed the levels.              *)
(***************************************************************************)
EXTENDS Naturals, Sequences, FiniteSets

CONSTANTS
    Threads, Sinks,
    SinkSlots,      \* MAX_LOG_SINKS
    RingCapacity,   \* LOG_RING_CAPACITY
    Nobody,         \* no sink in a slot, no owner of a lock
    RecordBound     \* bound: records logged

VARIABLES
    logged,     \* the records so far, in the order they reached the ring: [by, level]
    ring,       \* g_ring
    sinks,      \* g_sinks
    sinkLock,   \* the owner of g_sinkMutex
    at,         \* where each thread is in deliverRecord()
    record,     \* the record each thread delivers
    slot,       \* the slot the next write() is for
    reached     \* history: what each record was written to

logVars == <<logged, ring, sinks, sinkLock, at, record, slot, reached>>

Places == {"idle", "locking", "writing", "waking"}

\* g_insideSinkWrite of a thread.  Mutant: the flag is only set under the lock.
InsideMutant(t) == at[t] = "waking"
Inside(t) == at[t] # "idle"

LogInit ==
    /\ logged = <<>> /\ ring = [i \in 0 .. RingCapacity - 1 |-> 0]
    /\ sinks = [i \in 1 .. SinkSlots |-> Nobody]
    /\ sinkLock = Nobody
    /\ at = [t \in Threads |-> "idle"]
    /\ record = [t \in Threads |-> 0] /\ slot = [t \in Threads |-> 1]
    /\ reached = <<>>

(***************************************************************************)
(* The ring: the last RingCapacity records, oldest first.                  *)
(***************************************************************************)
Written == Len(logged)
RingWrite(by, level) ==
    /\ Written < RecordBound
    /\ logged' = Append(logged, [by |-> by, level |-> level])
    /\ ring' = [ring EXCEPT ![Written % RingCapacity] = Written + 1]

Kept == IF Written < RingCapacity THEN Written ELSE RingCapacity
\* Mutant: the oldest record is looked for at the start of the array.
RingSnapshotMutant == [i \in 1 .. Kept |-> ring[i - 1]]
RingSnapshot == [i \in 1 .. Kept |-> ring[(Written - Kept + i - 1) % RingCapacity]]

(***************************************************************************)
(* deliverRecord.                                                          *)
(***************************************************************************)
\* A record logged outside a sink.
Log(t, level) ==
    /\ at[t] = "idle"
    /\ RingWrite(t, level)
    /\ reached' = Append(reached, {})
    /\ record' = [record EXCEPT ![t] = Written + 1]
    /\ at' = [at EXCEPT ![t] = "locking"]
    /\ UNCHANGED <<sinks, sinkLock, slot>>

LockSinks(t) ==
    /\ at[t] = "locking" /\ sinkLock = Nobody
    /\ sinkLock' = t
    /\ at' = [at EXCEPT ![t] = "writing"]
    /\ slot' = [slot EXCEPT ![t] = 1]
    /\ UNCHANGED <<logged, ring, sinks, record, reached>>

SinkOf(t) == IF slot[t] <= SinkSlots THEN sinks[slot[t]] ELSE Nobody

SkipSlot(t) ==
    /\ at[t] = "writing" /\ slot[t] <= SinkSlots /\ SinkOf(t) = Nobody
    /\ slot' = [slot EXCEPT ![t] = @ + 1]
    /\ UNCHANGED <<logged, ring, sinks, sinkLock, at, record, reached>>

\* One sink's write(); then names where the thread goes on.
WriteSink(t, then) ==
    /\ at[t] = "writing" /\ SinkOf(t) # Nobody
    /\ reached' = [reached EXCEPT ![record[t]] = @ \cup {SinkOf(t)}]
    /\ at' = [at EXCEPT ![t] = then]
    /\ slot' = [slot EXCEPT ![t] = @ + 1]
    /\ UNCHANGED <<logged, ring, sinks, sinkLock, record>>

\* A sink logs from inside its write().
LogInside(t) ==
    /\ at[t] = "writing" /\ SinkOf(t) # Nobody
    /\ RingWrite(t, "info")
    /\ \/ /\ Inside(t)
          /\ reached' = Append(reached, {"stderr"})
          /\ UNCHANGED <<at, record>>
       \/ /\ ~Inside(t)
          /\ reached' = Append(reached, {})
          /\ at' = [at EXCEPT ![t] = "locking"]
          /\ record' = [record EXCEPT ![t] = Written + 1]
    /\ UNCHANGED <<sinks, sinkLock, slot>>

UnlockSinks(t) ==
    /\ at[t] = "writing" /\ slot[t] > SinkSlots
    /\ sinkLock' = Nobody
    /\ at' = [at EXCEPT ![t] = "idle"]
    /\ reached' = [reached EXCEPT ![record[t]] = IF @ = {} THEN {"stderr"} ELSE @]
    /\ UNCHANGED <<logged, ring, sinks, record, slot>>

(***************************************************************************)
(* addLogSink and removeLogSink, by a thread outside a sink.               *)
(***************************************************************************)
Registered == {sinks[i] : i \in 1 .. SinkSlots} \ {Nobody}
FreeSlots == {i \in 1 .. SinkSlots : sinks[i] = Nobody}

AddSink(t, s) ==
    /\ ~Inside(t) /\ sinkLock = Nobody
    /\ s \notin Registered /\ FreeSlots # {}
    /\ LET first == CHOOSE i \in FreeSlots : \A j \in FreeSlots : i <= j
       IN sinks' = [sinks EXCEPT ![first] = s]
    /\ UNCHANGED <<logged, ring, sinkLock, at, record, slot, reached>>

\* Mutant: the table is changed without the delivery lock.
MayRemoveMutant(t) == ~Inside(t)
MayRemove(t) == ~Inside(t) /\ sinkLock = Nobody

RemoveSink(t, s) ==
    /\ MayRemove(t)
    /\ s \in Registered
    /\ sinks' = [i \in 1 .. SinkSlots |-> IF sinks[i] = s THEN Nobody ELSE sinks[i]]
    /\ UNCHANGED <<logged, ring, sinkLock, at, record, slot, reached>>

(***************************************************************************)
(* Properties.                                                             *)
(***************************************************************************)
\* A thread that delivers a record holds the lock, and one that waits for it
\* does not hold it already: logging from inside a sink does not block on itself.
NoSelfWait ==
    /\ \A t \in Threads : at[t] \in {"writing", "waking"} => sinkLock = t
    /\ sinkLock # Nobody => at[sinkLock] \in {"writing", "waking"}

\* A record whose call has returned was written to a sink or to stderr.
Delivering == {record[t] : t \in {u \in Threads : at[u] # "idle"}}
NothingVanishes == \A r \in 1 .. Written : r \in Delivering \/ reached[r] # {}

\* The ring shows the last records, oldest first, whatever thread logged them.
RingInOrder == RingSnapshot = [i \in 1 .. Kept |-> Written - Kept + i]

DeliverySound == NoSelfWait /\ NothingVanishes /\ RingInOrder
=============================================================================
