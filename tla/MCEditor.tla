------------------------------ MODULE MCEditor ------------------------------
(***************************************************************************)
(* The log and the editor, for TLC.  The modules below are about different *)
(* state of one program (the log's and the console's; the session and the  *)
(* snapshot; the scene's lists; the fields; the files) and share none of   *)
(* it but what each says it leaves to another, so a behaviour is one of    *)
(* one of them, chosen at the start.                                       *)
(***************************************************************************)
EXTENDS Naturals, Sequences, TLC

CONSTANTS
    e1, e2, e3, e4, \* entities
    nobody,         \* no entity, no sink
    mesh, noMesh,
    mainThread, simThread, renderThread, Plain, Console

VARIABLES
    machine,
    \* ConsoleLog
    logged, ring, sinks, sinkLock, at, record, slot, reached,
    phase, queue, dropped, wakePending, wakeLock, posted, shown, given, missed,
    \* LogChannels, FormatBuffer, ConsoleHistory
    count, entries, claim, id, minLevel, set,
    data, truncated, produced, stage,
    records, levelCounts, levelShown, searching, visibleRows, selected, added,
    \* HierarchyEdit
    roots, kids, unused, hEdits, rows, collapsed,
    \* EditorSession
    sLive, file, session, sQueue, batch, sim, sSlot, sShown, panel, main, sPosted,
    closing, prompt, agreed, stop,
    \* InspectorEdit, InspectorFields
    scene, iLive, ready, iSession, edits, editRecords, iShown, iQueue, iSent, chosen,
    rotation, active, snapshot, fQueue, fSent, lost, worldMode, euler, name, begun, renamed,
    \* ProjectFiles, ProjectRun, FileMounts
    disk, temporary, doing, writing, index, taken, opened, startup, body, saved,
    issued, crashes, saves,
    locks, exports, step, ofRun, number, folder, outcome, runExport, rPosted, rMain,
    runPending, child, started, overlapped,
    mounts, mDisk, calls, last, owed

Log == INSTANCE ConsoleLog WITH
    Threads <- {mainThread, simThread, renderThread}, Sinks <- {Plain, Console}, Nobody <- nobody,
    Main <- mainThread, Simulation <- simThread, Renderer <- renderThread,
    SinkSlots <- 2, RingCapacity <- 2, QueueCapacity <- 2, RecordBound <- 3
Channels == INSTANCE LogChannels WITH
    Registrants <- {e1, e2, e3}, Limit <- 3, Levels <- 0 .. 1, Unnamed <- nobody
Format == INSTANCE FormatBuffer WITH Capacity <- 4, MarkerSize <- 2, LengthBound <- 6
History == INSTANCE ConsoleHistory WITH
    Levels <- {1, 2}, RecordCapacity <- 2, BatchSize <- 2, RecordBound <- 4
Hierarchy == INSTANCE HierarchyEdit WITH
    Entities <- {e1, e2, e3, e4}, NoEntity <- nobody, EditBound <- 1, edits <- hEdits
Session == INSTANCE EditorSession WITH
    Entities <- {e1}, NoEntity <- nobody, EditBound <- 1, SelectBound <- 2, QueueBound <- 2,
    live <- sLive, queue <- sQueue, slot <- sSlot, shown <- sShown, posted <- sPosted

\* Two entities that differ in the number, and in one of the angles.
Component(held) == [fixed |-> 0, number |-> held, asset |-> noMesh]
Start == (e1 :> [name |-> 0, angles |-> <<0, 0>>, component |-> Component(0)])
         @@ (e2 :> [name |-> 1, angles |-> <<0, 1>>, component |-> Component(1)])
Inspector == INSTANCE InspectorEdit WITH
    Entities <- {e1, e2}, NoEntity <- nobody, Asset <- mesh, NoAsset <- noMesh,
    Shift <- (e1 :> 0) @@ (e2 :> 1), EditBound <- 2, SelectBound <- 2,
    live <- iLive, session <- iSession, records <- editRecords, shown <- iShown,
    queue <- iQueue, sent <- iSent
Fields == INSTANCE InspectorFields WITH
    Entities <- {e1, e2}, NoEntity <- nobody, Turn <- 2, CommandBound <- 3,
    queue <- fQueue, sent <- fSent
Files == INSTANCE ProjectFiles WITH
    CrashBound <- 3, SaveBound <- 2, IdBound <- 4, at <- doing, records <- index
Run == INSTANCE ProjectRun WITH
    ExportBound <- 3, QueueBound <- 2, queue <- exports, posted <- rPosted, main <- rMain
Mounts == INSTANCE FileMounts WITH
    RootPriority <- [common |-> 0, client |-> 100],
    Paths <- {<<"d">>, <<"d", "x">>, <<"d", "X">>, <<"e">>, <<"e", "x">>},
    CallBound <- 3, TextBound <- 5, Width <- 3, entries <- mounts, disk <- mDisk

logVars == <<logged, ring, sinks, sinkLock, at, record, slot, reached,
             phase, queue, dropped, wakePending, wakeLock, posted, shown, given, missed>>
channelVars == <<count, entries, claim, id, minLevel, set>>
formatVars == <<data, truncated, produced, stage>>
historyVars == <<records, levelCounts, levelShown, searching, visibleRows, selected, added>>
hierarchyVars == <<roots, kids, unused, hEdits, rows, collapsed>>
sessionVars == <<sLive, file, session, sQueue, batch, sim, sSlot, sShown, panel, main, sPosted,
                 closing, prompt, agreed, stop>>
inspectorVars == <<scene, iLive, ready, iSession, edits, editRecords, iShown, iQueue, iSent, chosen>>
fieldVars == <<rotation, active, snapshot, fQueue, fSent, lost, worldMode, euler, name, begun, renamed>>
fileVars == <<disk, temporary, doing, writing, index, taken, opened, startup, body, saved,
              issued, crashes, saves>>
runVars == <<locks, exports, step, ofRun, number, folder, outcome, runExport, rPosted, rMain,
             runPending, child, started, overlapped>>
mountVars == <<mounts, mDisk, calls, last, owed>>

textVars == <<channelVars, formatVars, historyVars>>
sceneVars == <<hierarchyVars, inspectorVars, fieldVars>>
projectVars == <<fileVars, runVars, mountVars>>
allVars == <<machine, logVars, textVars, sessionVars, sceneVars, projectVars>>

Machines == {"log", "channels", "format", "history", "hierarchy", "session",
             "inspector", "fields", "files", "run", "mounts"}

\* The modules that start in one of several states are in one of them alone.
\* A scene of the hierarchy is named in the order of its rows: the names of
\* entities tell nothing, and every other scene is a renaming of such a one.
EditorInit ==
    /\ machine \in Machines
    /\ Log!Init /\ Channels!Init /\ Format!Init /\ History!Init
    /\ Session!Init /\ Inspector!Init /\ Fields!Init /\ Files!Init /\ Mounts!Init
    /\ Hierarchy!Init /\ (machine # "hierarchy" => roots = <<>>)
    /\ \A i \in DOMAIN rows : rows[i].entity = <<e1, e2, e3, e4>>[i]
    /\ Run!Init /\ (machine # "run" => locks)

TextNext ==
    \/ machine = "channels" /\ Channels!Next /\ UNCHANGED <<formatVars, historyVars>>
    \/ machine = "format" /\ Format!Next /\ UNCHANGED <<channelVars, historyVars>>
    \/ machine = "history" /\ History!Next /\ UNCHANGED <<channelVars, formatVars>>
SceneNext ==
    \/ machine = "hierarchy" /\ Hierarchy!Next /\ UNCHANGED <<inspectorVars, fieldVars>>
    \/ machine = "inspector" /\ Inspector!Next /\ UNCHANGED <<hierarchyVars, fieldVars>>
    \/ machine = "fields" /\ Fields!Next /\ UNCHANGED <<hierarchyVars, inspectorVars>>
ProjectNext ==
    \/ machine = "files" /\ Files!Next /\ UNCHANGED <<runVars, mountVars>>
    \/ machine = "run" /\ Run!Next /\ UNCHANGED <<fileVars, mountVars>>
    \/ machine = "mounts" /\ Mounts!Next /\ UNCHANGED <<fileVars, runVars>>

EditorNext ==
    /\ UNCHANGED machine
    /\ \/ machine = "log" /\ Log!Next /\ UNCHANGED <<textVars, sessionVars, sceneVars, projectVars>>
       \/ TextNext /\ UNCHANGED <<logVars, sessionVars, sceneVars, projectVars>>
       \/ machine = "session" /\ Session!Next /\ UNCHANGED <<logVars, textVars, sceneVars, projectVars>>
       \/ SceneNext /\ UNCHANGED <<logVars, textVars, sessionVars, projectVars>>
       \/ ProjectNext /\ UNCHANGED <<logVars, textVars, sessionVars, sceneVars>>

\* The fairness of the machine that runs.
Fairness ==
    /\ WF_logVars(machine = "log" /\ Log!MainStep)
    /\ \A t \in {mainThread, simThread, renderThread} : WF_logVars(machine = "log" /\ Log!Deliver(t))
    /\ WF_sessionVars(machine = "session" /\ Session!Simulation)
    /\ WF_sessionVars(machine = "session" /\ Session!Loop)
    /\ WF_sessionVars(machine = "session" /\ Session!User)
    /\ WF_runVars(machine = "run" /\ Run!Simulation)
    /\ WF_runVars(machine = "run" /\ Run!Loop)
    /\ WF_runVars(machine = "run" /\ Run!User)
EditorSpec == EditorInit /\ [][EditorNext]_allVars /\ Fairness

----------------------------------------------------------------------------
\* Records: each is delivered, kept in the ring and shown by the console once
\* and in order or counted as dropped; ids keep their entries, a text fits its
\* buffer or says that it was cut, and the rows of the console are its records.
LogSound ==
    /\ machine = "log" => Log!ConsoleSound
    /\ machine = "channels" => Channels!IdsKeepTheirEntries
    /\ machine = "format" => Format!TextSound
    /\ machine = "history" => History!HistorySound

\* Every log call returns, whatever locks it needs on its way.
LogReturns == Log!LogReturns

\* Edits made on a snapshot that lags behind: a drop lands where it was drawn,
\* the selection and the saved revision of the session are what the panels take
\* them for, fields and undo records are those of the entities shown, and what is
\* being typed or turned is not undone by an older snapshot.
EditingSound ==
    /\ machine = "hierarchy" => Hierarchy!HierarchyEditSound
    /\ machine = "session" => Session!SessionSound
    /\ machine = "inspector" => Inspector!InspectorSound
    /\ machine = "fields" => Fields!FieldsSound

\* An edit lands in the field and the entities it was made for, and in no other,
\* and the scene counts as edited exactly when it changed.
EditLands == Inspector!EditLands

\* The files of a project survive crashes and failures between any two steps,
\* a runtime starts on one whole export and keeps it, and a virtual path is what
\* was last written to it, on every disk.
ProjectSound ==
    /\ machine = "files" => Files!FilesSound
    /\ machine = "run" => Run!RunSound
    /\ machine = "mounts" => Mounts!MountsSound

\* What another thread has for the main thread reaches it though nobody touches
\* the window: a warning in the console, the selection that was sent, the end of
\* the export that Run waits for.
MainHears ==
    /\ Log!WarningShown
    /\ Session!SelectionReturns
    /\ Run!RunReturns
=============================================================================
