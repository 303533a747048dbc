----------------------------- MODULE ConsoleLog -----------------------------
(***************************************************************************)
(* The editor's console among the sinks of the log: the queue its sink     *)
(* fills (ConsoleLog.cpp), the lock under which the client wakes the main  *)
(* thread (Client.cpp), and the order in which the editor starts and stops *)
(* them (EditorApp.cpp).                                                   *)
(*                                                                         *)
(* The main thread sleeps in the window system until an event is posted.   *)
(* GLFW may log an error while the client holds its wake lock to start or  *)
(* to close the window; posting an event is taken never to log.  What the  *)
(* main thread does between two of its steps other than logging is left    *)
(* out.  The plain sink is the log's own (console and file).               *)
(***************************************************************************)
EXTENDS LogSinks, SequencesExt

CONSTANTS
    Main, Simulation, Renderer,
    Plain, Console,
    QueueCapacity   \* QUEUE_CAPACITY

VARIABLES
    phase,          \* where the main thread is in the life of the application
    queue,          \* m_queue
    dropped,        \* m_dropped
    wakePending,    \* m_wakePending
    wakeLock,       \* the owner of the client's wakeMutex
    posted,         \* the window system has an event for the main thread
    shown,          \* the records drained, a negative number for those dropped
    given,          \* history: the records pushed to the queue
    missed          \* history: the records before this one had left the ring

consoleVars == <<phase, queue, dropped, wakePending, wakeLock, posted, shown, given, missed>>
vars == <<logVars, consoleVars>>

Others == {Simulation, Renderer}
Running == {"wait", "frame"}

Init ==
    /\ LogInit
    /\ phase = "logging" /\ queue = <<>> /\ dropped = 0 /\ wakePending = FALSE
    /\ wakeLock = Nobody /\ posted = FALSE /\ shown = <<>>
    /\ given = <<>> /\ missed = 0

\* The threads that exist in a phase.  Mutant: the renderer starts under the wake lock.
AliveMutant(t) ==
    CASE t = Main -> TRUE
      [] t = Simulation -> phase \in Running \cup {"stopping"}
      [] OTHER -> phase \in Running \cup {"starting", "started", "stopping", "stopped", "unregistered"}
Alive(t) ==
    CASE t = Main -> TRUE
      [] t = Simulation -> phase \in Running \cup {"stopping"}
      [] OTHER -> phase \in Running \cup {"started", "stopping", "stopped", "unregistered"}

\* The client's initialized flag, as far as the wake lock shows it to others.
Initialized == phase \in Running \cup {"started", "stopping", "stopped", "unregistered", "joined"}

(***************************************************************************)
(* The sink.                                                               *)
(***************************************************************************)
Pushed(q, r) == Append(IF Len(q) >= QueueCapacity THEN Tail(q) ELSE q, r)
Overflowing(q) == IF Len(q) >= QueueCapacity THEN 1 ELSE 0

Urgent(t) == logged[record[t]].level = "warn" /\ t # Main

Push(t) ==
    /\ queue' = Pushed(queue, record[t])
    /\ dropped' = dropped + Overflowing(queue)
    /\ wakePending' = (wakePending \/ Urgent(t))
    /\ given' = Append(given, record[t])
    /\ UNCHANGED <<phase, wakeLock, posted, shown, missed>>

WriteConsole(t) ==
    /\ SinkOf(t) = Console
    /\ WriteSink(t, IF Urgent(t) /\ ~wakePending THEN "waking" ELSE "writing")
    /\ Push(t)

\* Client::wakeMain, under the delivery lock of the log.
WakeMain(t) ==
    /\ at[t] = "waking" /\ wakeLock = Nobody
    /\ posted' = (posted \/ Initialized)
    /\ at' = [at EXCEPT ![t] = "writing"]
    /\ UNCHANGED <<logged, ring, sinks, sinkLock, record, slot, reached,
                   phase, queue, dropped, wakePending, wakeLock, shown, given, missed>>

(***************************************************************************)
(* Any thread logs.                                                        *)
(***************************************************************************)
Deliver(t) ==
    \/ UNCHANGED consoleVars /\ (LockSinks(t) \/ SkipSlot(t) \/ UnlockSinks(t))
    \/ SinkOf(t) = Plain /\ WriteSink(t, "writing") /\ UNCHANGED consoleVars
    \/ WriteConsole(t)
    \/ WakeMain(t)

MainLogs == {"logging", "init", "starting", "frame", "stopped", "closing"}

StartRecord(t) ==
    /\ Alive(t) /\ (t = Main => phase \in MainLogs)
    /\ \E level \in {"info", "warn"} : Log(t, level)
    /\ UNCHANGED consoleVars

LogFromSink(t) == SinkOf(t) = Plain /\ LogInside(t) /\ UNCHANGED consoleVars

(***************************************************************************)
(* The main thread.                                                        *)
(***************************************************************************)
Goes(from, to) == at[Main] = "idle" /\ phase = from /\ phase' = to

InitLogging ==
    /\ Goes("logging", "init") /\ AddSink(Main, Plain)
    /\ UNCHANGED <<queue, dropped, wakePending, wakeLock, posted, shown, given, missed>>

ConsoleTakesRing ==
    /\ Goes("init", "ring")
    /\ queue' = FoldLeft(Pushed, queue, RingSnapshot)
    /\ dropped' = dropped + Len(queue) + Kept - Len(queue')
    /\ given' = given \o RingSnapshot
    /\ missed' = Written - Kept
    /\ UNCHANGED <<logVars, wakePending, wakeLock, posted, shown>>

ConsoleStart ==
    /\ Goes("ring", "console") /\ AddSink(Main, Console)
    /\ UNCHANGED <<queue, dropped, wakePending, wakeLock, posted, shown, given, missed>>

\* Client::start and Client::stop hold the wake lock while GLFW may log.
TakeWakeLock(from, to) ==
    /\ Goes(from, to)
    /\ wakeLock = Nobody /\ wakeLock' = Main
    /\ UNCHANGED <<logVars, queue, dropped, wakePending, posted, shown, given, missed>>
ReleaseWakeLock(from, to) ==
    /\ Goes(from, to)
    /\ wakeLock' = Nobody
    /\ UNCHANGED <<logVars, queue, dropped, wakePending, posted, shown, given, missed>>

\* The window system wakes the main thread.
WaitEvents ==
    /\ Goes("wait", "frame") /\ posted /\ posted' = FALSE
    /\ UNCHANGED <<logVars, queue, dropped, wakePending, wakeLock, shown, given, missed>>

\* Mutant: the next urgent record finds a wake still pending.
WakeAfterDrainMutant == wakePending
WakeAfterDrain == FALSE

\* The row that stands for the records dropped since the last drain.
Marker == IF dropped > 0 THEN <<0 - dropped>> ELSE <<>>

Frame ==
    /\ Goes("frame", "wait")
    /\ shown' = shown \o Marker \o queue
    /\ queue' = <<>> /\ dropped' = 0 /\ wakePending' = WakeAfterDrain
    /\ UNCHANGED <<logVars, wakeLock, posted, given, missed>>

Step(from, to, guard) ==
    /\ guard /\ Goes(from, to)
    /\ UNCHANGED <<logVars, queue, dropped, wakePending, wakeLock, posted, shown, given, missed>>

ConsoleStop ==
    /\ Goes("stopped", "unregistered") /\ RemoveSink(Main, Console)
    /\ UNCHANGED <<queue, dropped, wakePending, wakeLock, posted, shown, given, missed>>

ShutdownLogging ==
    /\ Goes("closed", "end") /\ RemoveSink(Main, Plain)
    /\ UNCHANGED <<queue, dropped, wakePending, wakeLock, posted, shown, given, missed>>

\* publishEdits, a click or a key: the simulation or the user wakes the main thread.
OtherEvent ==
    /\ phase \in Running /\ ~posted /\ posted' = TRUE
    /\ UNCHANGED <<logVars, phase, queue, dropped, wakePending, wakeLock, shown, given, missed>>

MainStep ==
    \/ InitLogging \/ ConsoleTakesRing \/ ConsoleStart
    \/ TakeWakeLock("console", "starting") \/ ReleaseWakeLock("starting", "started")
    \/ Step("started", "wait", TRUE)
    \/ WaitEvents \/ Frame
    \/ Step("stopping", "stopped", at[Simulation] = "idle")
    \/ ConsoleStop
    \/ Step("unregistered", "joined", at[Renderer] = "idle")
    \/ TakeWakeLock("joined", "closing") \/ ReleaseWakeLock("closing", "closed")
    \/ ShutdownLogging

Stop == Step("wait", "stopping", TRUE)

Next ==
    \/ MainStep \/ Stop \/ OtherEvent
    \/ \E t \in Threads : StartRecord(t) \/ LogFromSink(t) \/ Deliver(t)

(***************************************************************************)
(* Once started, calls go on: mutexes are released and the threads run.    *)
(* Nobody has to log, to press a key or to stop the application.           *)
(***************************************************************************)
Fairness == WF_vars(MainStep) /\ \A t \in Threads : WF_vars(Deliver(t))
Spec == Init /\ [][Next]_vars /\ Fairness

(***************************************************************************)
(* Properties.                                                             *)
(***************************************************************************)
Registering == phase \in {"console", "starting", "started", "stopping", "stopped"} \cup Running

Expanded(s) == FoldLeft(LAMBDA e, r : e \o IF r < 0 THEN [i \in 1 .. 0 - r |-> 0] ELSE <<r>>, <<>>, s)

\* What the console shows is what it was given, in that order, with each gap
\* marked by the number of records it stands for (ConsoleHistory's "records
\* dropped" row); from its start to its stop it is given every record once: what
\* the ring still held, then what is logged, but not what a sink itself logs.
ConsoleAccounted ==
    LET e == Expanded(shown \o Marker \o queue)
    IN /\ Len(e) = Len(given)
       /\ \A i \in DOMAIN e : e[i] \in {0, given[i]}
       /\ IsInjective(given)
       /\ Registering => \A r \in 1 .. Written :
             r \in ToSet(given) \cup Delivering \/ reached[r] = {"stderr"} \/ Console \in reached[r] \/ r <= missed

\* Once removeLogSink() has returned, no thread is inside the console's write(),
\* so that it may be destroyed (Log.hpp:133).
RemovedIsQuiet == Console \notin Registered => \A t \in Threads : at[t] # "waking"

ConsoleSound == DeliverySound /\ ConsoleAccounted /\ RemovedIsQuiet

\* Every log call returns, whatever locks it needs on its way.
LogReturns == \A t \in Threads : []<>(at[t] = "idle")

\* A warning logged by another thread is taken by the main thread while it
\* runs, even if nobody touches the window.
WarningShown ==
    \A r \in 1 .. RecordBound :
        []<>~(r \in ToSet(queue) /\ logged[r].level = "warn" /\ logged[r].by # Main /\ phase \in Running)
=============================================================================
