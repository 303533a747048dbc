--------------------------- MODULE EditorSession ----------------------------
(***************************************************************************)
(* The two threads of the editor around one edit session: the main thread  *)
(* draws the last snapshot, sends commands and decides on closing          *)
(* (EditorApp.cpp, HierarchyPanel.cpp, ClosePrompt.cpp); the simulation    *)
(* thread applies them to the scene and to the session and publishes the   *)
(* next snapshot (EditSession.cpp, SaveSceneCommand.cpp).                  *)
(*                                                                         *)
(* What a command does to the scene is HierarchyEdit's and InspectorEdit's: *)
(* here an edit destroys some entities, possibly none, and makes another   *)
(* content, which its number names.  The loops of the two threads are      *)
(* AppLifecycle's, cut down to what happens between two waits.             *)
(***************************************************************************)
EXTENDS Naturals, Sequences

CONSTANTS
    Entities, NoEntity,
    EditBound,      \* bound: edits that reach the scene
    SelectBound,    \* bound: selections the panel sends
    QueueBound      \* bound: commands in the queue

VARIABLES
    live,           \* the entities of the scene
    file,           \* the edit whose outcome the scene's file holds
    session,        \* EditSession
    queue, batch,   \* the command queue; what the simulation took from it
    sim,            \* where the simulation thread is
    slot,           \* EditorSnapshotSlot: <<>> or the snapshot in it
    shown,          \* m_snapshot
    panel,          \* HierarchyPanel: its selection and m_sentSequence
    main,           \* where the main thread is
    posted,         \* an event wakes the main thread
    closing,        \* the window's close flag
    prompt,         \* ClosePrompt
    agreed,         \* the revision on screen when Save was chosen in the prompt
    stop            \* who requested the stop

commands == <<queue, batch>>
window == <<closing, prompt, agreed>>
vars == <<live, file, session, commands, sim, slot, shown, panel, main, posted, window, stop>>

Stopped == stop # "no"

----------------------------------------------------------------------------
\* The session and its snapshot.

\* removeDeadFromSelection
OfLive(s, alive) ==
    [s EXCEPT !.selection = @ \cap alive, !.active = IF @ \in alive THEN @ ELSE NoEntity]

\* Mutant: a selection that was sent earlier replaces a later one.
SetSelectionMutant(s, c) == [s EXCEPT !.selection = c.selection, !.active = c.active]
SetSelection(s, c) ==
    IF c.sequence < s.sequence THEN s
    ELSE [s EXCEPT !.selection = c.selection, !.active = c.active, !.sequence = c.sequence]

RecordSceneChange(s) == [s EXCEPT !.edits = @ + 1]
RecordSave(s) == [s EXCEPT !.saved = s.edits]

Snapshot == [live |-> live, selection |-> session.selection, active |-> session.active,
             sequence |-> session.sequence, edits |-> session.edits, saved |-> session.saved]
HasUnsavedEdits(s) == s.edits # s.saved

----------------------------------------------------------------------------
\* The simulation thread.

TakeBatch ==
    /\ sim = "wait" /\ ~Stopped /\ queue # <<>>
    /\ batch' = queue /\ queue' = <<>>
    /\ sim' = "apply"
    /\ UNCHANGED <<live, file, session, slot, shown, panel, main, posted, window, stop>>

Applied == sim = "apply" /\ batch # <<>> /\ batch' = Tail(batch) /\ UNCHANGED queue

\* A command that changes the scene: what it was sent for may be dead by now.
ApplyEdit ==
    /\ Applied /\ Head(batch).kind = "edit"
    /\ \/ /\ live' = live \ Head(batch).destroyed
          /\ Head(batch).destroyed = {} \/ live' # live
          /\ session' = RecordSceneChange(OfLive(session, live'))
       \/ /\ Head(batch).destroyed \cap live = {}
          /\ UNCHANGED <<live, session>>
    /\ UNCHANGED <<file, sim, slot, shown, panel, main, posted, window, stop>>

\* SelectEntityCommand::apply
ApplySelect ==
    /\ Applied /\ Head(batch).kind = "select"
    /\ session' = OfLive(SetSelection(session, Head(batch)), live)
    /\ UNCHANGED <<live, file, sim, slot, shown, panel, main, posted, window, stop>>

\* SaveSceneCommand::apply where the scene has no file or the write fails.
ApplySaveFails ==
    /\ Applied /\ Head(batch).kind = "save"
    /\ UNCHANGED <<live, file, session, sim, slot, shown, panel, main, posted, window, stop>>

\* App::requestStop wakes the main thread.
RequestStop(who) == stop' = (IF Stopped THEN stop ELSE who) /\ posted' = TRUE

\* Mutant: the session is marked saved though nothing is written.
WrittenMutant == UNCHANGED file
Written == file' = session.edits

ApplySave ==
    /\ Applied /\ Head(batch).kind = "save"
    /\ Written /\ session' = RecordSave(session)
    /\ IF Head(batch).close THEN RequestStop("save") ELSE UNCHANGED <<stop, posted>>
    /\ UNCHANGED <<live, sim, slot, shown, panel, main, window>>

\* publishEdits: the snapshot, then the wake of the main thread.
\* Mutant: the main thread is woken first.
AnnouncedMutant == <<"wake", "publish">>
Announced == <<"publish", "wake">>
Announce(what) ==
    IF what = "publish" THEN slot' = <<Snapshot>> /\ UNCHANGED posted
    ELSE posted' = TRUE /\ UNCHANGED slot

Publish ==
    /\ sim = "apply" /\ batch = <<>>
    /\ Announce(Announced[1])
    /\ sim' = "wake"
    /\ UNCHANGED <<live, file, session, commands, shown, panel, main, window, stop>>
Wake ==
    /\ sim = "wake" /\ Announce(Announced[2]) /\ sim' = "wait"
    /\ UNCHANGED <<live, file, session, commands, shown, panel, main, window, stop>>

\* cancelCommands: what is still queued when the simulation stops is dropped.
Cancel ==
    /\ sim = "wait" /\ Stopped
    /\ queue' = <<>> /\ sim' = "done"
    /\ UNCHANGED <<live, file, session, batch, slot, shown, panel, main, posted, window, stop>>

----------------------------------------------------------------------------
\* The main thread: wait, poll the close flag, draw a frame, check the flag.

\* ClientApp::mainThreadUpdate returns for a posted event or one of the window.
Woken ==
    /\ main = "wait" /\ posted
    /\ posted' = FALSE /\ main' = "close"
    /\ UNCHANGED <<live, file, session, commands, sim, slot, shown, panel, window, stop>>
WindowEvent ==
    /\ main = "wait"
    /\ posted' = FALSE /\ main' = "close"
    /\ closing' \in {closing, TRUE}
    /\ UNCHANGED <<live, file, session, commands, sim, slot, shown, panel, prompt, agreed, stop>>

\* handleCloseRequest: decided on the snapshot of the last frame.
HandleClose ==
    /\ main = "close"
    /\ IF closing /\ HasUnsavedEdits(shown)
       THEN closing' = FALSE /\ prompt' = "requested"
       ELSE UNCHANGED <<closing, prompt>>
    /\ main' = "frame"
    /\ UNCHANGED <<live, file, session, commands, sim, slot, shown, panel, posted, agreed, stop>>

\* Mutant: the panel takes the selection of any snapshot.
AdoptedMutant(s) == [panel EXCEPT !.selection = s.selection, !.active = s.active]
Adopted(s) ==
    IF s.sequence < panel.sent THEN panel
    ELSE [panel EXCEPT !.selection = s.selection, !.active = s.active]

\* buildImGuiFrame takes the snapshot; the hierarchy panel adopts its selection.
TakeSnapshot ==
    /\ main = "frame"
    /\ IF Stopped THEN main' = "check" /\ UNCHANGED <<slot, shown, panel>>
       ELSE /\ main' = "draw"
            /\ shown' = IF slot = <<>> THEN shown ELSE slot[1]
            /\ slot' = <<>>
            /\ panel' = Adopted(shown')
    /\ UNCHANGED <<live, file, session, commands, sim, posted, window, stop>>

\* EditorCommands::submit: refused once the queue is closed.
Submit(c) ==
    /\ Len(queue) < QueueBound
    /\ queue' = IF Stopped THEN queue ELSE Append(queue, c)
    /\ UNCHANGED batch

Drawn == main = "draw" /\ main' = "check"

DrawNothing ==
    /\ Drawn
    /\ prompt' = IF prompt = "requested" THEN "open" ELSE prompt
    /\ UNCHANGED <<live, file, session, commands, sim, slot, shown, panel, posted, closing, agreed, stop>>

\* The user of one frame acts on a panel, which the prompt, while open, covers.
UserEdits ==
    /\ Drawn /\ prompt = "closed" /\ session.edits + Len(SelectSeq(batch \o queue, LAMBDA c : c.kind = "edit")) < EditBound
    /\ \E destroyed \in {{}, panel.selection} : Submit([kind |-> "edit", destroyed |-> destroyed])
    /\ UNCHANGED <<live, file, session, sim, slot, shown, panel, posted, window, stop>>

\* applySelectionRequests and sendSelection: only a change is sent.
UserSelects ==
    /\ Drawn /\ prompt = "closed" /\ panel.sent < SelectBound
    /\ \E s \in SUBSET shown.live, a \in Entities \cup {NoEntity} :
         /\ a \in s \/ (s = {} /\ a = NoEntity)
         /\ <<s, a>> # <<panel.selection, panel.active>>
         /\ panel' = [selection |-> s, active |-> a, sent |-> panel.sent + 1]
         /\ Submit([kind |-> "select", selection |-> s, active |-> a, sequence |-> panel'.sent])
    /\ UNCHANGED <<live, file, session, sim, slot, shown, posted, window, stop>>

UserSaves ==
    /\ Drawn /\ prompt = "closed"
    /\ Submit([kind |-> "save", close |-> FALSE])
    /\ UNCHANGED <<live, file, session, sim, slot, shown, panel, posted, window, stop>>

\* drawClosePrompt
PromptSave ==
    /\ Drawn /\ prompt = "open"
    /\ Submit([kind |-> "save", close |-> TRUE])
    /\ prompt' = "closed" /\ agreed' = shown.edits
    /\ UNCHANGED <<live, file, session, sim, slot, shown, panel, posted, closing, stop>>
PromptDiscard ==
    /\ Drawn /\ prompt = "open" /\ RequestStop("discard") /\ prompt' = "closed"
    /\ UNCHANGED <<live, file, session, commands, sim, slot, shown, panel, closing, agreed>>
PromptCancel ==
    /\ Drawn /\ prompt = "open" /\ prompt' = "closed"
    /\ UNCHANGED <<live, file, session, commands, sim, slot, shown, panel, posted, closing, agreed, stop>>

\* App::runMainThread
CheckClose ==
    /\ main = "check"
    /\ IF Stopped THEN main' = "done" /\ UNCHANGED <<stop, posted>>
       ELSE IF closing THEN main' = "done" /\ RequestStop("window")
       ELSE main' = "wait" /\ UNCHANGED <<stop, posted>>
    /\ UNCHANGED <<live, file, session, commands, sim, slot, shown, panel, window>>

----------------------------------------------------------------------------
\* simulationStartupLoad publishes before the first frame.
Init ==
    /\ live = Entities /\ file = 0
    /\ session = [selection |-> {}, active |-> NoEntity, sequence |-> 0, edits |-> 0, saved |-> 0]
    /\ queue = <<>> /\ batch = <<>> /\ sim = "wait"
    /\ slot = <<Snapshot>> /\ shown = [Snapshot EXCEPT !.live = {}]
    /\ panel = [selection |-> {}, active |-> NoEntity, sent |-> 0]
    /\ main = "check" /\ posted = TRUE
    /\ closing = FALSE /\ prompt = "closed" /\ agreed = 0
    /\ stop = "no"

Simulation == TakeBatch \/ ApplyEdit \/ ApplySelect \/ ApplySaveFails \/ ApplySave \/ Publish \/ Wake \/ Cancel
Loop == Woken \/ HandleClose \/ TakeSnapshot \/ CheckClose
User == DrawNothing \/ UserEdits \/ UserSelects \/ UserSaves \/ PromptSave \/ PromptDiscard \/ PromptCancel
Done == main = "done" /\ sim = "done" /\ UNCHANGED vars
Next == Simulation \/ Loop \/ WindowEvent \/ User \/ Done

\* Both threads are scheduled; a frame is drawn whatever the user does in it.
Fairness == WF_vars(Simulation) /\ WF_vars(Loop) /\ WF_vars(User)
Spec == Init /\ [][Next]_vars /\ Fairness

----------------------------------------------------------------------------
Pending == batch \o queue
LastSelect == {i \in DOMAIN Pending : Pending[i].kind = "select" /\ Pending[i].sequence = panel.sent}

\* The session never names a dead entity, and the active one is selected.
SelectionLive ==
    /\ session.selection \subseteq live
    /\ session.active \in session.selection \cup {NoEntity}

\* What was clicked last is what the panel shows, what the session holds and
\* what is still on its way to it, whatever snapshots and deaths come between.
SelectionAgrees ==
    IF session.sequence = panel.sent
    THEN session.selection = panel.selection \cap live
    ELSE Stopped \/ \E i \in LastSelect :
             Pending[i].selection = panel.selection /\ Pending[i].active = panel.active

\* A session without unsaved edits is its file, and one closed with Save has
\* saved what was on screen then.
SavedIsFile ==
    /\ session.saved = file
    /\ stop = "save" => file >= agreed
SessionSound == SelectionLive /\ SelectionAgrees /\ SavedIsFile

\* The selection that was sent last comes back in a snapshot, unless the
\* editor stops.
SelectionReturns == []<>(Stopped \/ shown.sequence >= panel.sent)

\* "Before the loop's next shouldClose() check, which would stop the app
\* without asking." (EditorApp.cpp:130): the window does not close on a frame
\* that shows unsaved edits.
AsksBeforeClosing == stop = "window" => ~HasUnsavedEdits(shown)
=============================================================================
