----------------------------- MODULE ProjectRun -----------------------------
(***************************************************************************)
(* Exporting and running a project: Run submits an export, the simulation  *)
(* thread writes the export's folder file by file (Project::exportTo), its *)
(* result comes back through an atomic that the main thread polls, and the *)
(* main thread starts the exported runtime and watches it (EditorApp.cpp,  *)
(* Process.cpp).  Export, without Run, is always offered.                  *)
(*                                                                         *)
(* Every file of the folder is named by the export that wrote it; a write  *)
(* of a pack is whole or nothing (ProjectFiles).  On Windows the file of a *)
(* running executable cannot be removed.                                   *)
(***************************************************************************)
EXTENDS Naturals, Sequences

CONSTANTS
    ExportBound,    \* bound: exports
    QueueBound      \* bound: commands in the queue

VARIABLES
    locks,          \* does the system lock a running executable
    queue,          \* the exports submitted: is each one Run's
    step, ofRun,    \* where the export of the simulation thread is, and is it Run's
    number,         \* the exports begun
    folder,         \* who wrote each file of the folder; 0 is no file
    outcome,        \* how the export ended
    runExport,      \* m_runExport, and the number of the export it is of
    posted,         \* an event wakes the main thread
    main,
    runPending,     \* m_runPending
    child,          \* the child process: "none", "running", or "exited" and not reaped
    started,        \* the folder the child was started on
    overlapped      \* had another export begun when the child started

export == <<step, ofRun, number, folder, outcome>>
process == <<child, started, overlapped>>
vars == <<locks, queue, export, runExport, posted, main, runPending, process>>

Files == {"runtime", "common", "client"}
NoExport == [result |-> "none", number |-> 0]

----------------------------------------------------------------------------
\* The simulation thread.

\* Mutant: the packs are written before the runtime is replaced.
OrderMutant == <<"common", "client", "runtime", "copy">>
Order == <<"runtime", "copy", "common", "client">>
First == Order[1]
After(s) ==
    LET i == CHOOSE i \in DOMAIN Order : Order[i] = s
    IN  IF i = Len(Order) THEN "ended" ELSE Order[i + 1]

Begin ==
    /\ step = "idle" /\ queue # <<>>
    /\ ofRun' = Head(queue) /\ queue' = Tail(queue)
    /\ number' = number + 1 /\ step' = First /\ outcome' = "none"
    /\ UNCHANGED <<locks, folder, runExport, posted, main, runPending, process>>

\* Any step may fail, the reading of the assets before the first one too.
Fail ==
    /\ step \in {"runtime", "copy", "common", "client"}
    /\ outcome' = "failed" /\ step' = "ended"
    /\ UNCHANGED <<locks, queue, ofRun, number, folder, runExport, posted, main, runPending, process>>

Proceed(file, who) ==
    /\ folder' = [folder EXCEPT ![file] = who]
    /\ step' = After(step)
    /\ outcome' = IF step' = "ended" THEN "succeeded" ELSE "none"
    /\ UNCHANGED <<locks, queue, ofRun, number, runExport, posted, main, runPending, process>>

\* replaceRuntime
RemoveRuntime ==
    /\ step = "runtime" /\ (locks => child # "running")
    /\ Proceed("runtime", 0)
CopyRuntime == step = "copy" /\ Proceed("runtime", number)
WriteCommon == step = "common" /\ Proceed("common", number)
WriteClient == step = "client" /\ Proceed("client", number)

\* makeRunCommand's callback: the outcome, then the wake of the main thread.
\* Mutant: the main thread is woken first.
AnnouncedMutant == <<"wake", "store">>
Announced == <<"store", "wake">>
Announce(what) ==
    IF what = "store" THEN runExport' = [result |-> outcome, number |-> number] /\ UNCHANGED posted
    ELSE posted' = TRUE /\ UNCHANGED runExport

\* ExportCommand::apply calls onFinished, if it is Run's.
Finish ==
    /\ step = "ended"
    /\ IF ofRun THEN Announce(Announced[1]) ELSE UNCHANGED <<runExport, posted>>
    /\ step' = IF ofRun THEN "wake" ELSE "idle"
    /\ UNCHANGED <<locks, queue, ofRun, number, folder, outcome, main, runPending, process>>
Wake ==
    /\ step = "wake" /\ Announce(Announced[2]) /\ step' = "idle"
    /\ UNCHANGED <<locks, queue, ofRun, number, folder, outcome, main, runPending, process>>

----------------------------------------------------------------------------
\* The main thread.

Woken ==
    /\ main = "wait" /\ posted /\ posted' = FALSE /\ main' = "poll"
    /\ UNCHANGED <<locks, queue, export, runExport, runPending, process>>
WindowEvent ==
    /\ main = "wait" /\ posted' = FALSE /\ main' = "poll"
    /\ UNCHANGED <<locks, queue, export, runExport, runPending, process>>

\* pollRuntime: startRuntime, which may fail, then pollExit.
Poll ==
    /\ main = "poll" /\ main' = "draw"
    /\ runExport' = NoExport
    /\ runPending' = (runPending /\ runExport = NoExport)
    /\ \/ /\ runExport.result = "succeeded" /\ folder["runtime"] # 0
          /\ child' = "running" /\ started' = folder /\ overlapped' = (runExport.number # number)
       \/ /\ child' = IF child = "exited" THEN "none" ELSE child
          /\ UNCHANGED <<started, overlapped>>
    /\ UNCHANGED <<locks, queue, export, posted>>

\* Mutant: Run is offered while its export is under way.
CanRunMutant == child = "none"
CanRun == ~runPending /\ child = "none"

Submit(isRun) ==
    /\ Len(queue) < QueueBound /\ number + Len(queue) < ExportBound
    /\ queue' = Append(queue, isRun)
UserRuns ==
    /\ main = "draw" /\ main' = "wait"
    /\ CanRun /\ Submit(TRUE) /\ runPending' = TRUE
    /\ UNCHANGED <<locks, export, runExport, posted, process>>
UserExports ==
    /\ main = "draw" /\ main' = "wait"
    /\ Submit(FALSE)
    /\ UNCHANGED <<locks, export, runExport, posted, runPending, process>>
UserWaits ==
    /\ main = "draw" /\ main' = "wait"
    /\ UNCHANGED <<locks, queue, export, runExport, posted, runPending, process>>

ChildExits ==
    /\ child = "running" /\ child' = "exited"
    /\ UNCHANGED <<locks, queue, export, runExport, posted, main, runPending, started, overlapped>>

----------------------------------------------------------------------------
Init ==
    /\ locks \in BOOLEAN /\ queue = <<>>
    /\ step = "idle" /\ ofRun = FALSE /\ number = 0 /\ folder = [f \in Files |-> 0] /\ outcome = "none"
    /\ runExport = NoExport /\ posted = FALSE /\ main = "wait" /\ runPending = FALSE
    /\ child = "none" /\ started = folder /\ overlapped = FALSE

Simulation == Begin \/ Fail \/ RemoveRuntime \/ CopyRuntime \/ WriteCommon \/ WriteClient \/ Finish \/ Wake
Loop == Woken \/ Poll
User == UserRuns \/ UserExports \/ UserWaits
Next == Simulation \/ Loop \/ WindowEvent \/ User \/ ChildExits
Fairness == WF_vars(Simulation) /\ WF_vars(Loop) /\ WF_vars(User)
Spec == Init /\ [][Next]_vars /\ Fairness

----------------------------------------------------------------------------
\* Process::start is not called while a child runs, and one export at a time is
\* Run's.
OneRuntime ==
    /\ runPending => child = "none"
    /\ (runExport # NoExport \/ (step # "idle" /\ step # "wake" /\ ofRun)) => runPending
    /\ Len(SelectSeq(queue, LAMBDA r : r)) <= IF runPending THEN 1 ELSE 0

\* An export that succeeded wrote every file.
WholeFolder == outcome = "succeeded" => \A f \in Files : folder[f] = number

\* The runtime starts on the files of the export Run asked for, unless another
\* export, asked for meanwhile, has begun to replace them.
StartsOnExport ==
    child = "running" /\ ~overlapped => started["runtime"] # 0 /\ \A f \in Files : started[f] = started["runtime"]

\* "Windows locks a running executable, so a runtime still running fails here,
\* before any pack changes" (Project.cpp:230): no file changes under a runtime
\* that was running before the export.
LockedFolder == locks /\ child = "running" /\ ~overlapped => folder = started
RunSound == OneRuntime /\ WholeFolder /\ StartsOnExport /\ LockedFolder

\* Run is offered again: its export ends and the main thread hears of it.
RunReturns == []<>~runPending
=============================================================================
