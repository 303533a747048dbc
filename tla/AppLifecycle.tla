---------------------------- MODULE AppLifecycle ----------------------------
(***************************************************************************)
(* engine/app: App::run on the main thread, the simulation thread it       *)
(* starts and joins, the command queue between them, and the threads that  *)
(* submit commands or request a stop while all this goes on.  One step is  *)
(* one critical section, one atomic access, one notify_all or one hook;    *)
(* a hook that may throw has a second action for it.                       *)
(*                                                                         *)
(* requestStop() takes five steps, on whichever thread calls it, and they   *)
(* interleave with everything else.  A hook that calls it (a save command, *)
(* a test's tick) is one of the behaviours of a concurrent stopper.  The   *)
(* three flags read by the simulation loop only rise during a run, so      *)
(* reading them one after another is reading them at once.                 *)
(***************************************************************************)
EXTENDS Naturals, Sequences

CONSTANTS
    Main,          \* the thread that calls App::run
    Sim,           \* the simulation thread, created anew in each run
    Stoppers,      \* client threads, run from init() to shutdown(): rendering
    Submitters,    \* threads that call submitCommand
    Programs,      \* which kinds of App: "server", "runtime", "editor"
    Capacity,      \* m_commandQueue's capacity
    MaxCommands,   \* bound: number of commands ever accepted
    MaxRuns        \* bound: number of calls of run()

Threads == {Main, Sim} \cup Stoppers \cup Submitters

ASSUME ThreadsAssumption ==
    /\ Main # Sim /\ {Main, Sim} \cap (Stoppers \cup Submitters) = {}
    /\ Stoppers \cap Submitters = {}
ASSUME BoundsAssumption ==
    /\ Capacity \in Nat \ {0}
    /\ MaxCommands \in Nat
    /\ MaxRuns \in Nat

VARIABLES
    windowed,         \* a ClientApp waits for window events, an App for m_mainWake
    ticks,            \* simulationTicks()
    appStop,          \* App::m_stopRequested
    simStop,          \* SimulationThread::m_stopRequested
    stopToken,        \* the stop token of the simulation's jthread
    posted,           \* an empty window event waits for the main thread
    commandsPending,  \* m_commandsPending
    closed,           \* m_commandQueue.m_closed
    queue,            \* m_commandQueue.m_pending, the commands by number
    batch,            \* the commands applyCommands has consumed, not applied yet
    outcome,          \* history: the fate of each accepted command
    startup,          \* the startup result in the DedicatedThread's state
    completion,       \* the completion in it
    startupError,     \* m_startupError is set
    simFailure,       \* an exception is on its way out of threadMain
    initialized, attempted, result,     \* run()'s locals
    runs,             \* history: number of calls of run() so far
    pc,               \* where each thread is
    ret,              \* where its requestStop() or stop() returns to
    stopped,          \* history: a requestStop() of this run has returned
    late,             \* history: the commands accepted after that
    failed            \* history: some stage of this run has failed

config == <<windowed, ticks>>
flags == <<appStop, simStop, stopToken, posted>>
commands == <<commandsPending, closed, queue, batch, outcome, late>>
simState == <<startup, completion, startupError, simFailure>>
runState == <<initialized, attempted, result, runs, failed>>
vars == <<config, flags, commands, simState, runState, pc, ret, stopped>>

StopLabels == {"SetStop", "NotifyMain", "CloseQueue", "PostEvent", "SetSimStop",
               "NotifySim"}
MainLabels == {"Idle", "Init", "Finalize", "Start", "Reset", "Create", "AwaitReady",
               "DropToken", "JoinFailed", "Loop", "Update", "Blocked", "Leave",
               "Stop", "SetToken", "Join", "Shutdown"}
SimLabels == {"None", "SimInit", "Publish", "Open", "Ready", "Load", "Loop", "Clear",
              "Consume", "Apply", "Edits", "Tick", "Wait", "Blocked", "Cancel",
              "Drain", "SimShutdown", "Leave", "Finish", "Exited"}
SubmitLabels == {"Idle", "SetPending", "NotifyCommands"}

TypeOK ==
    /\ {windowed, ticks, appStop, simStop, stopToken, posted, commandsPending, closed,
        startupError, simFailure, initialized, attempted, stopped, failed} \subseteq BOOLEAN
    /\ outcome \in Seq({"Pending", "Applied", "Discarded"})
    /\ queue \in Seq(DOMAIN outcome) /\ Len(queue) <= Capacity
    /\ batch \in Seq(DOMAIN outcome)
    /\ late \subseteq DOMAIN outcome
    /\ startup \in {"Unresolved", "Ready", "Failed"}
    /\ completion \in {"Running", "Completed", "Failed"}
    /\ result \in {0, 1}
    /\ runs \in 0 .. MaxRuns
    /\ pc \in [Threads -> MainLabels \cup SimLabels \cup SubmitLabels \cup StopLabels]
    /\ ret \in [Threads -> MainLabels \cup SimLabels]

\* How run() leaves the App, the submitters apart: RunEndsClean.
LeftByRun ==
    /\ appStop = TRUE /\ simStop = TRUE
    /\ posted \in {FALSE, windowed}
    /\ commandsPending \in BOOLEAN
    /\ \A s \in Submitters : pc[s] \in SubmitLabels

\* An App as constructed, and one that ran before, whose commands have had
\* their outcome.  What is kept of a simulation is written before it is read.
Init ==
    /\ \E program \in Programs :
          windowed = (program # "server") /\ ticks = (program # "editor")
    /\ closed = TRUE
    /\ queue = <<>> /\ batch = <<>> /\ outcome = <<>> /\ late = {}
    /\ startup = "Unresolved" /\ completion = "Running"
    /\ startupError = FALSE /\ simFailure = FALSE /\ stopToken = FALSE
    /\ initialized = FALSE /\ attempted = FALSE /\ result = 0 /\ runs = 0
    /\ failed = FALSE /\ stopped = FALSE
    /\ ret = [t \in Threads |-> "Idle"]
    /\ \E submitting \in [Submitters -> SubmitLabels] :
        pc = [t \in Threads |-> IF t = Sim THEN "None"
                                ELSE IF t \in Submitters THEN submitting[t] ELSE "Idle"]
    /\ \/ /\ appStop = FALSE /\ simStop = FALSE /\ posted = FALSE
          /\ commandsPending = FALSE
          /\ \A s \in Submitters : pc[s] = "Idle"
       \/ LeftByRun

Goto(t, label) == pc' = [pc EXCEPT ![t] = label]
\* t goes on, and a thread u blocked on the notified condition re-tests it.
GotoWaking(t, label, u, retest) ==
    pc' = [pc EXCEPT ![t] = label, ![u] = IF @ = "Blocked" THEN retest ELSE @]
\* Call requestStop() or SimulationThread::stop(), whose first step is `label`.
Call(t, label, back) == Goto(t, label) /\ ret' = [ret EXCEPT ![t] = back]

\* The commands that have been discarded among cs.
Discarding(cs) ==
    outcome' = [k \in DOMAIN outcome |->
                  IF \E i \in DOMAIN cs : cs[i] = k THEN "Discarded" ELSE outcome[k]]

(***************************************************************************)
(* App::requestStop, on thread t                                           *)
(***************************************************************************)

SetStop(t) ==
    /\ pc[t] = "SetStop"
    /\ appStop' = TRUE
    /\ Goto(t, IF windowed THEN "CloseQueue" ELSE "NotifyMain")
    /\ UNCHANGED <<config, simStop, stopToken, posted, commands, simState, runState,
                   ret, stopped>>

\* Nobody waits for m_mainWake in a windowed app.
NotifyMain(t) ==
    /\ pc[t] = "NotifyMain"
    /\ GotoWaking(t, "CloseQueue", Main, "Update")
    /\ UNCHANGED <<config, flags, commands, simState, runState, ret, stopped>>

CloseQueue(t) ==
    /\ pc[t] = "CloseQueue"
    /\ closed' = TRUE
    /\ Goto(t, IF windowed THEN "PostEvent" ELSE "SetSimStop")
    /\ UNCHANGED <<config, flags, commandsPending, queue, batch, outcome, late,
                   simState, runState, ret, stopped>>

\* Mutant: the base class's wakeMainThread, which does nothing.
PostEventMutant(t) ==
    /\ pc[t] = "PostEvent"
    /\ Goto(t, "SetSimStop")
    /\ UNCHANGED <<config, flags, commands, simState, runState, ret, stopped>>

\* wakeMainThread: a ClientApp posts an empty event, which is not lost; it
\* does nothing in an App without a window.
PostEvent(t) ==
    /\ pc[t] = "PostEvent"
    /\ posted' = TRUE
    /\ Goto(t, "SetSimStop")
    /\ UNCHANGED <<config, appStop, simStop, stopToken, commands, simState, runState,
                   ret, stopped>>

SetSimStop(t) ==
    /\ pc[t] = "SetSimStop"
    /\ simStop' = TRUE
    /\ Goto(t, "NotifySim")
    /\ UNCHANGED <<config, appStop, stopToken, posted, commands, simState, runState,
                   ret, stopped>>

NotifySim(t) ==
    /\ pc[t] = "NotifySim"
    /\ GotoWaking(t, ret[t], Sim, "Wait")
    /\ stopped' = (stopped \/ ret[t] \notin {"DropToken", "SetToken"})
    /\ ret' = [ret EXCEPT ![t] = "Idle"]
    /\ UNCHANGED <<config, flags, commands, simState, runState>>

RequestStopStep(t) ==
    SetStop(t) \/ NotifyMain(t) \/ CloseQueue(t) \/ PostEvent(t) \/ SetSimStop(t)
    \/ NotifySim(t)

(***************************************************************************)
(* App::run, on the main thread                                            *)
(***************************************************************************)

\* No client thread is inside requestStop(), so it can be joined.
StoppersJoined == \A s \in Stoppers : pc[s] \in {"Idle", "Exited"}

BeginRun ==
    /\ pc[Main] = "Idle"
    /\ runs < MaxRuns
    /\ runs' = runs + 1
    /\ appStop' = FALSE
    /\ initialized' = FALSE /\ attempted' = FALSE /\ result' = 0
    /\ failed' = FALSE /\ stopped' = FALSE /\ late' = {}
    /\ pc' = [t \in Threads |-> IF t = Main THEN "Init"
                               ELSE IF t \in Stoppers THEN "Idle" ELSE pc[t]]
    /\ UNCHANGED <<config, simStop, stopToken, posted, commandsPending, closed, queue,
                   batch, outcome, simState, ret>>

\* init() returns; on stop finalizeSimulation is skipped.
InitDone ==
    /\ pc[Main] = "Init"
    /\ initialized' = TRUE
    /\ Goto(Main, IF appStop THEN "Start" ELSE "Finalize")
    /\ UNCHANGED <<config, flags, commands, simState, attempted, result, runs, failed,
                   ret, stopped>>

\* A failing init() has joined what it started.
InitFails ==
    /\ pc[Main] = "Init"
    /\ StoppersJoined
    /\ result' = 1 /\ failed' = TRUE
    /\ Goto(Main, "Leave")
    /\ UNCHANGED <<config, flags, commands, simState, initialized, attempted, runs,
                   ret, stopped>>

FinalizeSimulation ==
    /\ pc[Main] = "Finalize"
    /\ Goto(Main, "Start")
    /\ UNCHANGED <<config, flags, commands, simState, runState, ret, stopped>>

\* finalizeSimulation, or a main update, throws: caught in run().
MainThrows ==
    /\ pc[Main] \in {"Finalize", "Update"}
    /\ result' = 1 /\ failed' = TRUE
    /\ Goto(Main, "Leave")
    /\ UNCHANGED <<config, flags, commands, simState, initialized, attempted, runs,
                   ret, stopped>>

\* The second test of the stop flag.
TestStop ==
    /\ pc[Main] = "Start"
    /\ attempted' = ~appStop
    /\ Goto(Main, IF appStop THEN "Leave" ELSE "Reset")
    /\ UNCHANGED <<config, flags, commands, simState, initialized, result, runs, failed,
                   ret, stopped>>

\* SimulationThread::start lowers its own flag: a stop requested since the
\* test is remembered by the app's flag only.
ResetSimStop ==
    /\ pc[Main] = "Reset"
    /\ simStop' = FALSE
    /\ startupError' = FALSE
    /\ Goto(Main, "Create")
    /\ UNCHANGED <<config, appStop, stopToken, posted, commands, startup, completion,
                   simFailure, runState, ret, stopped>>

CreateSimulationThread ==
    /\ pc[Main] = "Create"
    /\ stopToken' = FALSE
    /\ startup' = "Unresolved" /\ completion' = "Running" /\ simFailure' = FALSE
    /\ pc' = [pc EXCEPT ![Main] = "AwaitReady", ![Sim] = "SimInit"]
    /\ UNCHANGED <<config, appStop, simStop, posted, commands, startupError, runState,
                   ret, stopped>>

\* The new thread cannot register: finish() records it, no thread remains.
CreationFails ==
    /\ pc[Main] = "Create"
    /\ startup' = "Failed" /\ completion' = "Failed" /\ simFailure' = FALSE
    /\ failed' = TRUE
    /\ pc' = [pc EXCEPT ![Main] = "AwaitReady", ![Sim] = "Exited"]
    /\ UNCHANGED <<config, flags, commands, startupError, initialized, attempted,
                   result, runs, ret, stopped>>

\* waitUntilReady; a start that failed is stopped within start().
AwaitReady ==
    /\ pc[Main] = "AwaitReady"
    /\ startup # "Unresolved"
    /\ IF startup = "Ready"
       THEN Goto(Main, "Loop") /\ UNCHANGED ret
       ELSE Call(Main, "SetSimStop", "DropToken")
    /\ UNCHANGED <<config, flags, commands, simState, runState, stopped>>

\* jthread::request_stop, in SimulationThread::stop.
SetStopToken ==
    /\ pc[Main] \in {"DropToken", "SetToken"}
    /\ stopToken' = TRUE
    /\ Goto(Main, IF pc[Main] = "DropToken" THEN "JoinFailed" ELSE "Join")
    /\ UNCHANGED <<config, appStop, simStop, posted, commands, simState, runState,
                   ret, stopped>>

JoinFailedSimulation ==
    /\ pc[Main] = "JoinFailed"
    /\ pc[Sim] = "Exited"
    /\ Goto(Main, "Leave")
    /\ UNCHANGED <<config, flags, commands, simState, runState, ret, stopped>>

\* runMainThread: the loop's test, then shouldClose().
MainLoop ==
    /\ pc[Main] = "Loop"
    /\ Goto(Main, IF appStop THEN "Leave" ELSE "Update")
    /\ UNCHANGED <<config, flags, commands, simState, runState, ret, stopped>>

CloseWindow ==
    /\ pc[Main] = "Loop"
    /\ windowed /\ ~appStop
    /\ Call(Main, "SetStop", "Leave")
    /\ UNCHANGED <<config, flags, commands, simState, runState, stopped>>

\* mainThreadUpdate: the flag is tested once more, then the thread waits.
MainUpdate ==
    /\ pc[Main] = "Update"
    /\ Goto(Main, IF appStop THEN "Loop" ELSE "Blocked")
    /\ UNCHANGED <<config, flags, commands, simState, runState, ret, stopped>>

\* ClientApp's update after its events: a client that has failed stops the app.
AfterEvents ==
    \/ Goto(Main, "Loop") /\ UNCHANGED ret
    \/ (\E s \in Stoppers : pc[s] = "Exited") /\ Call(Main, "SetStop", "Loop")

\* An event posted by requestStop lets waitEvents() return.
TakeEvent ==
    /\ pc[Main] = "Blocked"
    /\ windowed /\ posted
    /\ posted' = FALSE
    /\ AfterEvents
    /\ UNCHANGED <<config, appStop, simStop, stopToken, commands, simState, runState,
                   stopped>>

\* Another window event, or a poll, which takes a posted event with it.
OtherEvent ==
    /\ pc[Main] = "Blocked"
    /\ windowed
    /\ posted' = FALSE
    /\ AfterEvents
    /\ UNCHANGED <<config, appStop, simStop, stopToken, commands, simState, runState,
                   stopped>>

SpuriousMainWakeup ==
    /\ pc[Main] = "Blocked"
    /\ ~windowed
    /\ Goto(Main, "Update")
    /\ UNCHANGED <<config, flags, commands, simState, runState, ret, stopped>>

LeaveMainThread ==
    /\ pc[Main] = "Leave"
    /\ Call(Main, "SetStop", "Stop")
    /\ UNCHANGED <<config, flags, commands, simState, runState, stopped>>

\* stopSimulation, when a start was attempted.
StopSimulation ==
    /\ pc[Main] = "Stop"
    /\ IF attempted THEN Call(Main, "SetSimStop", "SetToken")
                    ELSE Goto(Main, "Shutdown") /\ UNCHANGED ret
    /\ UNCHANGED <<config, flags, commands, simState, runState, stopped>>

\* Mutant: an error of the startup load is forgotten.
ResultMutant == IF completion = "Failed" THEN 1 ELSE result
\* stopSimulation's result, in run().
Result == IF completion = "Failed" \/ startupError THEN 1 ELSE result

\* Mutant: the thread is not joined.
JoinSimulationMutant ==
    /\ pc[Main] = "Join"
    /\ result' = Result
    /\ Goto(Main, "Shutdown")
    /\ UNCHANGED <<config, flags, commands, simState, initialized, attempted, runs,
                   failed, ret, stopped>>

JoinSimulation ==
    /\ pc[Main] = "Join"
    /\ pc[Sim] = "Exited"
    /\ result' = Result
    /\ Goto(Main, "Shutdown")
    /\ UNCHANGED <<config, flags, commands, simState, initialized, attempted, runs,
                   failed, ret, stopped>>

\* shutdown(), which joins the client's threads, and the end of run().
Shutdown ==
    /\ pc[Main] = "Shutdown"
    /\ StoppersJoined
    /\ \E throws \in IF initialized THEN BOOLEAN ELSE {FALSE} :
        /\ result' = IF throws THEN 1 ELSE result
        /\ failed' = (failed \/ throws)
    /\ initialized' = FALSE
    /\ Goto(Main, "Idle")
    /\ UNCHANGED <<config, flags, commands, simState, attempted, runs, ret, stopped>>

(***************************************************************************)
(* SimulationThread::threadMain                                            *)
(***************************************************************************)

\* A hook ends and the thread goes on.
HookReturns ==
    /\ \/ pc[Sim] = "SimInit" /\ Goto(Sim, "Publish")
       \/ pc[Sim] = "Publish" /\ Goto(Sim, "Open")
       \/ pc[Sim] = "Load" /\ Goto(Sim, "Loop")
       \/ pc[Sim] = "Edits" /\ Goto(Sim, IF ticks THEN "Tick" ELSE "Wait")
       \/ pc[Sim] = "Tick" /\ Goto(Sim, "Wait")
       \/ pc[Sim] = "SimShutdown" /\ Goto(Sim, "Leave")
    /\ UNCHANGED <<config, flags, commands, simState, runState, ret, stopped>>

\* A hook throws.  simulationInit and simulationShutdown are outside the try
\* block: nothing is cancelled, or shut down, after them.
HookThrows ==
    /\ pc[Sim] \in {"SimInit", "Publish", "Load", "Apply", "Edits", "Tick", "SimShutdown"}
    /\ simFailure' = TRUE /\ failed' = TRUE
    /\ Goto(Sim, IF pc[Sim] \in {"SimInit", "SimShutdown"} THEN "Leave" ELSE "Cancel")
    /\ batch' = <<>>
    /\ Discarding(batch)
    /\ UNCHANGED <<config, flags, commandsPending, closed, queue, late, startup,
                   completion, startupError, initialized, attempted, result, runs,
                   ret, stopped>>

OpenQueue ==
    /\ pc[Sim] = "Open"
    /\ closed' = FALSE
    /\ Goto(Sim, "Ready")
    /\ UNCHANGED <<config, flags, commandsPending, queue, batch, outcome, late,
                   simState, runState, ret, stopped>>

SignalReady ==
    /\ pc[Sim] = "Ready"
    /\ startup' = IF startup = "Unresolved" THEN "Ready" ELSE startup
    /\ Goto(Sim, "Load")
    /\ UNCHANGED <<config, flags, commands, completion, startupError, simFailure,
                   runState, ret, stopped>>

\* simulationStartupLoad returns an error.
StartupLoadFails ==
    /\ pc[Sim] = "Load"
    /\ startupError' = TRUE /\ failed' = TRUE
    /\ Goto(Sim, "Cancel")
    /\ UNCHANGED <<config, flags, commands, startup, completion, simFailure,
                   initialized, attempted, result, runs, ret, stopped>>

\* Mutant: the app's flag is not read.
SimLoopMutant ==
    /\ pc[Sim] = "Loop"
    /\ Goto(Sim, IF simStop \/ stopToken THEN "Cancel" ELSE "Clear")
    /\ UNCHANGED <<config, flags, commands, simState, runState, ret, stopped>>

SimLoop ==
    /\ pc[Sim] = "Loop"
    /\ Goto(Sim, IF simStop \/ appStop \/ stopToken THEN "Cancel" ELSE "Clear")
    /\ UNCHANGED <<config, flags, commands, simState, runState, ret, stopped>>

ClearPending ==
    /\ pc[Sim] = "Clear"
    /\ commandsPending' = FALSE
    /\ Goto(Sim, "Consume")
    /\ UNCHANGED <<config, flags, closed, queue, batch, outcome, late, simState,
                   runState, ret, stopped>>

ConsumeCommands ==
    /\ pc[Sim] = "Consume"
    /\ batch' = queue
    /\ queue' = <<>>
    /\ Goto(Sim, IF queue # <<>> THEN "Apply" ELSE IF ticks THEN "Tick" ELSE "Wait")
    /\ UNCHANGED <<config, flags, commandsPending, closed, outcome, late, simState,
                   runState, ret, stopped>>

\* The last command applied, its resources are loaded and edits published.
ApplyCommand ==
    /\ pc[Sim] = "Apply"
    /\ outcome' = [outcome EXCEPT ![Head(batch)] = "Applied"]
    /\ batch' = Tail(batch)
    /\ Goto(Sim, IF Tail(batch) = <<>> THEN "Edits" ELSE "Apply")
    /\ UNCHANGED <<config, flags, commandsPending, closed, queue, late, simState,
                   runState, ret, stopped>>

\* Mutant: a sleeping simulation that only a stop wakes.
SimWaitMutant ==
    /\ pc[Sim] = "Wait"
    /\ Goto(Sim, IF simStop THEN "Loop" ELSE "Blocked")
    /\ UNCHANGED <<config, flags, commands, simState, runState, ret, stopped>>

\* waitForNextTick, waitForCommands: the predicate, under m_waitMutex.
SimWait ==
    /\ pc[Sim] = "Wait"
    /\ Goto(Sim, IF simStop \/ commandsPending THEN "Loop" ELSE "Blocked")
    /\ UNCHANGED <<config, flags, commands, simState, runState, ret, stopped>>

TickDue ==
    /\ pc[Sim] = "Blocked"
    /\ ticks
    /\ Goto(Sim, "Loop")
    /\ UNCHANGED <<config, flags, commands, simState, runState, ret, stopped>>

SpuriousSimWakeup ==
    /\ pc[Sim] = "Blocked"
    /\ Goto(Sim, "Wait")
    /\ UNCHANGED <<config, flags, commands, simState, runState, ret, stopped>>

\* Mutant: the queue is not closed again.
CancelCommandsMutant ==
    /\ pc[Sim] = "Cancel"
    /\ Goto(Sim, "Drain")
    /\ UNCHANGED <<config, flags, commands, simState, runState, ret, stopped>>

\* cancelCommands, in its two critical sections.
CancelCommands ==
    /\ pc[Sim] = "Cancel"
    /\ closed' = TRUE
    /\ Goto(Sim, "Drain")
    /\ UNCHANGED <<config, flags, commandsPending, queue, batch, outcome, late,
                   simState, runState, ret, stopped>>

DrainCommands ==
    /\ pc[Sim] = "Drain"
    /\ Discarding(queue)
    /\ queue' = <<>>
    /\ Goto(Sim, "SimShutdown")
    /\ UNCHANGED <<config, flags, commandsPending, closed, batch, late, simState,
                   runState, ret, stopped>>

LeaveSimulation ==
    /\ pc[Sim] = "Leave"
    /\ Call(Sim, "SetStop", "Finish")
    /\ UNCHANGED <<config, flags, commands, simState, runState, stopped>>

\* State::finish; the thread has nothing left to do.
FinishSimulation ==
    /\ pc[Sim] = "Finish"
    /\ completion' = IF simFailure \/ startup = "Unresolved" THEN "Failed" ELSE "Completed"
    /\ startup' = IF startup = "Unresolved" THEN "Failed" ELSE startup
    /\ Goto(Sim, "Exited")
    /\ UNCHANGED <<config, flags, commands, startupError, simFailure, runState, ret,
                   stopped>>

(***************************************************************************)
(* submitCommand, and a stop requested by a client's thread                *)
(***************************************************************************)

\* Mutant: one command too many.
HasRoomMutant == Len(queue) <= Capacity
HasRoom == Len(queue) < Capacity

\* The late commands are those accepted after a requestStop() has returned.
SubmitAccepted(s) ==
    /\ pc[s] = "Idle"
    /\ ~closed
    /\ HasRoom
    /\ Len(outcome) < MaxCommands
    /\ queue' = Append(queue, Len(outcome) + 1)
    /\ outcome' = Append(outcome, "Pending")
    /\ late' = IF stopped THEN late \cup {Len(outcome) + 1} ELSE late
    /\ Goto(s, "SetPending")
    /\ UNCHANGED <<config, flags, commandsPending, closed, batch, simState, runState,
                   ret, stopped>>

\* Closed or full: an error is returned and nothing changes.
SubmitRefused(s) ==
    /\ pc[s] = "Idle"
    /\ closed \/ ~HasRoom
    /\ UNCHANGED vars

SetCommandsPending(s) ==
    /\ pc[s] = "SetPending"
    /\ commandsPending' = TRUE
    /\ Goto(s, "NotifyCommands")
    /\ UNCHANGED <<config, flags, closed, queue, batch, outcome, late, simState,
                   runState, ret, stopped>>

NotifyCommands(s) ==
    /\ pc[s] = "NotifyCommands"
    /\ GotoWaking(s, "Idle", Sim, "Wait")
    /\ UNCHANGED <<config, flags, commands, simState, runState, ret, stopped>>

\* A client thread runs from init() until shutdown() has joined it, or until
\* it fails: it then requests a stop, and ends.
BeginStop(s) ==
    /\ pc[s] = "Idle"
    /\ initialized \/ pc[Main] = "Init"
    /\ Call(s, "SetStop", "Exited")
    /\ UNCHANGED <<config, flags, commands, simState, runState, stopped>>

-----------------------------------------------------------------------------

\* What run() does of itself; closing the window and window events are not.
MainStep ==
    \/ InitDone \/ InitFails \/ FinalizeSimulation \/ TestStop \/ ResetSimStop
    \/ CreateSimulationThread \/ CreationFails \/ AwaitReady \/ SetStopToken
    \/ JoinFailedSimulation \/ MainLoop \/ MainUpdate \/ TakeEvent
    \/ LeaveMainThread \/ StopSimulation \/ JoinSimulation \/ Shutdown

SimStep ==
    \/ HookReturns \/ HookThrows \/ OpenQueue \/ SignalReady \/ StartupLoadFails
    \/ SimLoop \/ ClearPending \/ ConsumeCommands \/ ApplyCommand \/ SimWait \/ TickDue
    \/ CancelCommands \/ DrainCommands \/ LeaveSimulation \/ FinishSimulation

SubmitStep(s) == SetCommandsPending(s) \/ NotifyCommands(s)

Next ==
    \/ BeginRun \/ MainThrows \/ CloseWindow \/ OtherEvent \/ SpuriousMainWakeup
    \/ MainStep
    \/ SpuriousSimWakeup \/ SimStep
    \/ \E s \in Submitters : SubmitAccepted(s) \/ SubmitRefused(s) \/ SubmitStep(s)
    \/ \E s \in Stoppers : BeginStop(s)
    \/ \E t \in Threads \ Submitters : RequestStopStep(t)

(***************************************************************************)
(* Every runnable thread is scheduled, hooks end, a tick comes due.        *)
(* Nobody has to close the window, submit, or ask for a stop.              *)
(***************************************************************************)
Fairness ==
    /\ WF_vars(MainStep)
    /\ WF_vars(SimStep)
    /\ \A s \in Submitters : WF_vars(SubmitStep(s))
    /\ \A t \in Threads \ Submitters : WF_vars(RequestStopStep(t))

SafeSpec == Init /\ [][Next]_vars
Spec == SafeSpec /\ Fairness
-----------------------------------------------------------------------------

(***************************************************************************)
(* However a run ends - an error, a hook that throws on either thread, a   *)
(* stop at any moment of the startup - it leaves no command behind: none   *)
(* is queued or half done, each accepted one was applied or cancelled, and *)
(* the queue refuses more until the next run (App::run, cancelCommands).   *)
(* The next run starts from nothing worse than LeftByRun.                  *)
(***************************************************************************)
RunEndsClean ==
    pc[Main] = "Idle" /\ runs > 0 =>
        /\ LeftByRun
        /\ closed
        /\ queue = <<>> /\ batch = <<>>
        /\ \A k \in DOMAIN outcome : outcome[k] # "Pending"

(***************************************************************************)
(* The simulation thread exists only between its start and its join: it    *)
(* never runs beside init(), finalizeSimulation() or shutdown(), which     *)
(* change what it uses without a lock (App::run, SimulationThread::stop).  *)
(***************************************************************************)
SimulationEnclosed ==
    pc[Main] \in {"Idle", "Init", "Finalize", "Start", "Reset", "Create", "Shutdown"}
        => pc[Sim] \in {"None", "Exited"}

(***************************************************************************)
(* run() returns 1 exactly when some stage of the run failed, on whichever *)
(* thread and however early it did (App::run, stopSimulation).             *)
(***************************************************************************)
FailureReported ==
    pc[Main] = "Idle" => (result = 1 <=> failed)

(***************************************************************************)
(* What holds of every run, besides the types: it encloses its simulation  *)
(* thread, and ends with nothing left over and the right result.           *)
(***************************************************************************)
RunSound ==
    /\ TypeOK
    /\ SimulationEnclosed
    /\ RunEndsClean
    /\ FailureReported

(***************************************************************************)
(* A command accepted after a requestStop() has returned is never applied: *)
(* the simulation loop does not start once the app's flag is up            *)
(* (SimulationThread::threadMain; AppTests.cpp:1064).                      *)
(***************************************************************************)
NeverAppliedLate ==
    \A k \in late : outcome[k] # "Applied"

(***************************************************************************)
(* What the test at AppTests.cpp:1064 says: App rejects a command          *)
(* submitted after stop is requested.                                      *)
(***************************************************************************)
RejectedAfterStop == late = {}

-----------------------------------------------------------------------------
(* Why they hold: an inductive invariant of all five parts.                *)

\* Where a thread goes on when its requestStop() or stop() has returned.
At(t) == IF pc[t] \in StopLabels THEN ret[t] ELSE pc[t]
\* The calls of SimulationThread::stop() alone, which begin at SetSimStop.
Stops == {"DropToken", "SetToken"}
InRequestStop(t) == pc[t] \in StopLabels /\ ret[t] \notin Stops

\* Each thread is where its own code is.
ThreadsInPlace ==
    /\ pc \in [Threads -> MainLabels \cup SimLabels \cup SubmitLabels \cup StopLabels]
    /\ ret \in [Threads -> MainLabels \cup SimLabels]
    /\ pc[Main] \in MainLabels \cup StopLabels
    /\ pc[Main] \in StopLabels => ret[Main] \in {"Leave", "Loop", "Stop"} \cup Stops
    /\ pc[Main] \in StopLabels /\ ret[Main] \in Stops => pc[Main] \in {"SetSimStop", "NotifySim"}
    /\ pc[Sim] \in SimLabels \cup StopLabels
    /\ pc[Sim] \in StopLabels => ret[Sim] = "Finish"
    /\ \A s \in Stoppers : /\ pc[s] \in {"Idle", "Exited"} \cup StopLabels
                           /\ pc[s] \in StopLabels => ret[s] = "Exited"
    /\ \A s \in Submitters : pc[s] \in SubmitLabels

\* A simulation thread is there only after a start was attempted and before
\* its join.
Unstarted == {"Idle", "Init", "Finalize", "Start", "Reset", "Create"}
ThreadEnclosed ==
    /\ attempted \in BOOLEAN
    /\ pc[Sim] \notin {"None", "Exited"} => attempted /\ At(Main) \notin Unstarted \cup {"Shutdown"}
    /\ At(Main) \in {"Init", "Finalize", "Start"} => ~attempted
    /\ At(Main) \in {"Reset", "Create", "AwaitReady", "Loop", "Update", "Blocked", "JoinFailed", "Join"} \cup Stops
          => attempted
    /\ At(Main) \in {"Idle", "Shutdown"} /\ attempted => pc[Sim] = "Exited"

\* Windows alone are sent events.
FlagsTyped ==
    /\ {windowed, ticks, appStop, simStop, stopToken, posted, commandsPending, closed,
        initialized, stopped} \subseteq BOOLEAN
    /\ runs \in 0 .. MaxRuns
    /\ posted => windowed
    /\ \A t \in Threads : pc[t] = "PostEvent" => windowed

\* What the flags say once a stop went through them, up to the next start: on
\* any thread, and on the main thread at the end of a run.
RequestsSeen ==
    /\ stopped => appStop
    /\ \A t \in Threads : InRequestStop(t) /\ pc[t] # "SetStop" => appStop
StopsRaised ==
    /\ At(Main) \in {"Stop", "SetToken", "Join", "Shutdown"} /\ pc[Main] # "SetStop" => appStop
    /\ pc[Main] \in {"Stop", "SetToken", "Join", "Shutdown"} => simStop
    /\ pc[Main] \in {"SetSimStop", "NotifySim"} /\ ret[Main] = "SetToken" => simStop
    /\ pc[Main] = "NotifySim" /\ ret[Main] = "Stop" => simStop
    /\ pc[Main] = "Idle" /\ runs > 0 => appStop /\ simStop

\* Accepted commands keep their order, from the queue to the batch to their
\* outcome; an open queue and commands without outcome need the simulation.
OpenSteps == {"Ready", "Load", "Loop", "Clear", "Consume", "Apply", "Edits", "Tick", "Wait",
              "Blocked", "Cancel"}
Settled == Len(outcome) - Len(batch) - Len(queue)
CommandsInOrder ==
    /\ outcome \in Seq({"Pending", "Applied", "Discarded"})
    /\ queue \in Seq(Nat) /\ Len(queue) <= Capacity
    /\ batch \in Seq(Nat)
    /\ Settled \in Nat
    /\ \A i \in 1 .. Len(batch) : batch[i] = Settled + i
    /\ \A i \in 1 .. Len(queue) : queue[i] = Settled + Len(batch) + i
    /\ \A k \in 1 .. Len(outcome) : outcome[k] = "Pending" <=> k > Settled
    /\ ~closed => pc[Sim] \in OpenSteps
    /\ queue # <<>> => pc[Sim] \in OpenSteps \cup {"Drain"}
    /\ batch # <<>> <=> pc[Sim] = "Apply"

\* The client of a stop finds the queue closed, unless the simulation opened it
\* since and has yet to test the flag: nothing accepted then is applied.
Untested == {"Ready", "Load", "Loop", "Cancel"}
PastClose(t) == InRequestStop(t) /\ pc[t] \in {"PostEvent", "SetSimStop", "NotifySim"}
LateCancelled ==
    /\ ~closed /\ (stopped \/ \E t \in Threads : PastClose(t)) => pc[Sim] \in Untested
    /\ late \subseteq 1 .. Len(outcome)
    /\ late # {} => stopped
    /\ \A k \in late : outcome[k] = "Pending" => pc[Sim] \in Untested \cup {"Drain"}
    /\ NeverAppliedLate

\* A failure is in the result already, or in what stopSimulation will read.
Started == attempted /\ At(Main) \notin {"Reset", "Create"}
SimulationFailed == simFailure \/ startupError \/ completion = "Failed"
FailuresKept ==
    /\ {startupError, simFailure, failed} \subseteq BOOLEAN
    /\ startup \in {"Unresolved", "Ready", "Failed"}
    /\ completion \in {"Running", "Completed", "Failed"}
    /\ result \in {0, 1}
    /\ failed <=> result = 1 \/ (Started /\ SimulationFailed)
    /\ At(Main) = "Create" => ~startupError
    /\ pc[Sim] \notin {"None", "Exited"} => completion = "Running"
    /\ Started /\ pc[Sim] = "Exited" /\ simFailure => completion = "Failed"
    /\ pc[Sim] \in {"Load", "Loop", "Clear", "Consume", "Apply", "Edits", "Tick", "Wait", "Blocked"}
          => startup # "Unresolved"
    /\ pc[Sim] \in {"Cancel", "Drain", "SimShutdown", "Leave", "Finish"} \cup StopLabels /\ startup = "Unresolved"
          => simFailure
    /\ pc[Main] \in {"Shutdown", "Idle"} /\ attempted /\ (startupError \/ completion = "Failed") => result = 1

IInv == /\ ThreadsInPlace /\ ThreadEnclosed /\ FlagsTyped /\ RequestsSeen /\ StopsRaised
        /\ CommandsInOrder /\ LateCancelled /\ FailuresKept

-----------------------------------------------------------------------------
(***************************************************************************)
(* A stop ends the run: once any thread has begun a requestStop(), run()   *)
(* returns, wherever the main and the simulation thread were, asleep or    *)
(* still starting; a failed simulation ends it the same way.               *)
(***************************************************************************)
StopEndsRun ==
    (\E t \in Threads \ Submitters : pc[t] = "SetStop") ~> pc[Main] = "Idle"

(***************************************************************************)
(* The app implements CommandLog: accepted commands are applied or         *)
(* discarded one after another in order, and each in the end, also by an   *)
(* app that does not tick and sleeps until a command wakes it.             *)
(***************************************************************************)
Log == INSTANCE CommandLog
ImplementsLog == Log!Spec
=============================================================================
