--------------------------- MODULE PresentedInput --------------------------
(***************************************************************************)
(* The input a frame shows.  A snapshot carries the state its tick held;   *)
(* SnapshotHistory::prepareFrame() replaces it with the state the buffer   *)
(* keeps for presentation when that is newer.  Composes InputBuffer with   *)
(* the mailbox and the render thread, for the input alone.                 *)
(***************************************************************************)
EXTENDS InputBuffer

CONSTANT None       \* an empty std::optional

VARIABLES
    command,    \* SnapshotMailbox::m_command: the input of the last snapshot, or None
    acquired,   \* the input of SnapshotHistory::m_current, or None
    drawing,    \* the render thread has read the mailbox and not yet the buffer
    shown       \* history: the date of the input of the last frame drawn

renderVars == <<command, acquired, drawing, shown>>
allVars == <<vars, renderVars>>

\* The part of an input that Newer compares.
DateOf(input) == [sequence |-> input.sequence, focusGeneration |-> input.focusGeneration]

PInit ==
    /\ Init
    /\ command = None
    /\ acquired = None
    /\ drawing = FALSE
    /\ shown = DateOf(InitialState)

\* ClientApp::publishSnapshot(): before the startup load, and after ticks.
Snap ==
    /\ Handling
    /\ command' = frame.held
    /\ UNCHANGED <<vars, acquired, drawing, shown>>

\* The frame begins: the mailbox is read under its own lock.  Snapshots come
\* in order, so the history takes what is there.
AcquireSnapshot ==
    /\ phase # "Closed"
    /\ ~drawing
    /\ drawing' = TRUE
    /\ acquired' = IF command = None THEN acquired ELSE command
    /\ UNCHANGED <<vars, command, shown>>

\* Mutant: the snapshot's input is shown whenever there is one.
NewerMutant(input, held) == FALSE

\* prepareFrame(): a change of focus outranks the sequence.
Newer(input, held) ==
    \/ input.focusGeneration > held.focusGeneration
    \/ input.focusGeneration = held.focusGeneration /\ input.sequence >= held.sequence

FrameInput ==
    IF acquired = None \/ Newer(presentationState, acquired)
    THEN presentationState
    ELSE acquired

\* presentationState() under its lock, and the frame it goes into.
DrawFrame ==
    /\ drawing
    /\ drawing' = FALSE
    /\ shown' = DateOf(FrameInput)
    /\ UNCHANGED <<vars, command, acquired>>

\* Client::start() and stop() empty the mailbox; stop() ends the render thread.
OpenClient ==
    /\ Open
    /\ command' = None
    /\ UNCHANGED <<acquired, drawing, shown>>

CloseClient ==
    /\ Close
    /\ command' = None
    /\ acquired' = None
    /\ drawing' = FALSE
    /\ UNCHANGED shown

InputStep ==
    \/ PublishIngress
    \/ \E k \in Keys : KeyPressed(k) \/ KeyReleased(k)
    \/ FocusChanged \/ CursorMoved \/ Consume
    \/ StartSimulation \/ BeginTicks

PNext ==
    \/ InputStep /\ UNCHANGED renderVars
    \/ Snap \/ AcquireSnapshot \/ DrawFrame
    \/ OpenClient \/ CloseClient

PSpec == PInit /\ [][PNext]_allVars

-----------------------------------------------------------------------------

\* The input on the screen never goes back to an older one, across ticks,
\* overflows, changes of focus and runs, though the simulation's does when a
\* run begins and the buffer's does not.
ShownNeverOlder ==
    [][DrawFrame => /\ shown'.sequence >= shown.sequence
                    /\ shown'.focusGeneration >= shown.focusGeneration]_allVars
=============================================================================
