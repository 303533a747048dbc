---------------------------- MODULE InputBuffer ----------------------------
(***************************************************************************)
(* engine/platform InputBuffer and InputState: the main thread publishes   *)
(* what the window's callbacks report, the simulation thread takes it once *)
(* a tick, and the render thread reads the state that is ahead of both.    *)
(* A publication takes two locks one after the other.  The buffer outlives *)
(* a run of the App; the frame it fills is reset at the start of each run. *)
(*                                                                         *)
(* Mouse buttons are handled as keys are, so Keys stands for both.         *)
(***************************************************************************)
EXTENDS Naturals, Sequences

CONSTANTS
    Keys,           \* keys and mouse buttons the window translates
    Capacity,       \* m_capacity
    MaxEvents,      \* bound: events published
    MaxRuns         \* bound: runs of the App

ASSUME CapacityAssumption == Capacity \in Nat \ {0}     \* the TE_CHECK of the constructor
ASSUME BoundsAssumption == MaxEvents \in Nat /\ MaxRuns \in Nat

VARIABLES
    sequence,           \* m_sequence, of the publishing thread alone
    presentationState,  \* m_presentationState
    mainState,          \* m_mainState
    pending,            \* m_pending
    overflowed,         \* m_overflowed
    recoveryGeneration, \* m_recoveryGeneration
    firstLost,          \* m_firstLostSequence
    lastLost,           \* m_lastLostSequence
    publishing,         \* the event between the two locks of publish(), or NoEvent
    frame,              \* SimulationThread::m_inputFrame
    taken,              \* history: mainState.sequence at the last consume()
    phase,              \* what the App does: see Phases
    runs,               \* runs begun
    focus,              \* of the window, as the platform has it
    down                \* keys the platform has reported down in this window

buffer == <<sequence, presentationState, mainState, pending, overflowed,
            recoveryGeneration, firstLost, lastLost, publishing>>
window == <<focus, down>>
vars == <<buffer, frame, taken, phase, runs, window>>

Phases == {"Closed", "Open", "Loading", "Ticking"}

State == [keys : SUBSET Keys, look : Nat, focused : BOOLEAN,
          focusGeneration : Nat, sequence : Nat]

InitialState == [keys |-> {}, look |-> 0, focused |-> FALSE,
                 focusGeneration |-> 0, sequence |-> 0]

\* Fields an event's kind does not use have a fixed value.
KeyEvent(k, p) == [kind |-> "Key", keys |-> {k}, pressed |-> p, sequence |-> sequence + 1]
Motion == [kind |-> "Motion", keys |-> {}, pressed |-> FALSE, sequence |-> sequence + 1]
Focus(p) == [kind |-> "Focus", keys |-> {}, pressed |-> p, sequence |-> sequence + 1]

Event == {e \in [kind : {"Key", "Motion", "Focus"}, keys : SUBSET Keys,
                 pressed : BOOLEAN, sequence : Nat \ {0}] :
             e.kind = "Key" => e.keys # {}}
NoEvent == [kind |-> "None"]

-----------------------------------------------------------------------------
(* InputState::apply(): what it returns, and the state it leaves.          *)

Changes(s, e) ==
    CASE e.kind = "Key" -> s.focused /\ (e.pressed <=> ~(e.keys \subseteq s.keys))
      [] e.kind = "Motion" -> s.focused
      [] e.kind = "Focus" -> s.focused # e.pressed

Applied(s, e) ==
    CASE e.kind = "Key" ->
            [s EXCEPT !.keys = IF e.pressed THEN @ \union e.keys ELSE @ \ e.keys,
                      !.sequence = e.sequence]
      [] e.kind = "Motion" ->
            [s EXCEPT !.look = @ + 1, !.sequence = e.sequence]
      [] e.kind = "Focus" ->
            [keys |-> {}, look |-> 0, focused |-> e.pressed,
             focusGeneration |-> s.focusGeneration + 1, sequence |-> e.sequence]

\* An event that changes nothing still dates the state.
Apply(s, e) ==
    IF Changes(s, e) THEN Applied(s, e) ELSE [s EXCEPT !.sequence = e.sequence]

\* The state after the first n of the events, for each n.
StatesAfter(s, events) ==
    LET after[n \in 0 .. Len(events)] ==
            IF n = 0 THEN s ELSE Apply(after[n - 1], events[n])
    IN  after

StateAfter(s, events) == StatesAfter(s, events)[Len(events)]

\* Mutant: every event is delivered, whether it changed anything or not.
KeptMutant(s, events) == events

\* The events that changed the state they found, among the first n, for each n.
KeptAfter(s, events) ==
    LET after == StatesAfter(s, events)
        kept[n \in 0 .. Len(events)] ==
            IF n = 0 THEN <<>>
            ELSE IF Changes(after[n - 1], events[n]) THEN Append(kept[n - 1], events[n])
            ELSE kept[n - 1]
    IN  kept

Kept(s, events) == KeptAfter(s, events)[Len(events)]

-----------------------------------------------------------------------------

Init ==
    /\ sequence = 0
    /\ presentationState = InitialState
    /\ mainState = InitialState
    /\ pending = <<>>
    /\ overflowed = FALSE
    /\ recoveryGeneration = 0
    /\ firstLost = 0
    /\ lastLost = 0
    /\ publishing = NoEvent
    /\ frame = [events |-> <<>>, held |-> InitialState, recovered |-> FALSE,
                recoveryGeneration |-> 0, firstLost |-> 0, lastLost |-> 0]
    /\ taken = 0
    /\ phase = "Closed"
    /\ runs = 0
    /\ focus = FALSE
    /\ down = {}

-----------------------------------------------------------------------------
(* publish(), on the main thread                                           *)

\* The first of the two locks: the state the render thread reads.
PublishPresentation(e) ==
    /\ publishing = NoEvent
    /\ sequence < MaxEvents
    /\ sequence' = e.sequence
    /\ presentationState' = Apply(presentationState, e)
    /\ publishing' = e
    /\ UNCHANGED <<mainState, pending, overflowed, recoveryGeneration, firstLost, lastLost>>

\* Mutant: the queue grows one past its capacity.
FullMutant == Len(pending) = Capacity + 1

Full == Len(pending) = Capacity

\* Mutant: the interval begins at the event that did not fit.
OverflowMutant(e) ==
    /\ overflowed' = TRUE
    /\ recoveryGeneration' = recoveryGeneration + 1
    /\ firstLost' = e.sequence
    /\ lastLost' = e.sequence
    /\ pending' = <<>>

\* The queue is full: everything in it is lost, and the event with it.
Overflow(e) ==
    /\ overflowed' = TRUE
    /\ recoveryGeneration' = recoveryGeneration + 1
    /\ firstLost' = pending[1].sequence
    /\ lastLost' = e.sequence
    /\ pending' = <<>>

\* Mutant: each event lost counts as an overflow of its own.
LoseTooMutant(e) ==
    /\ lastLost' = e.sequence
    /\ recoveryGeneration' = recoveryGeneration + 1
    /\ UNCHANGED <<pending, overflowed, firstLost>>

LoseToo(e) ==
    /\ lastLost' = e.sequence
    /\ UNCHANGED <<pending, overflowed, recoveryGeneration, firstLost>>

Queue(e) ==
    /\ pending' = Append(pending, e)
    /\ UNCHANGED <<overflowed, recoveryGeneration, firstLost, lastLost>>

\* Mutant: events lost to the overflow do not reach the state to recover to.
RememberedMutant(e) == IF overflowed THEN mainState ELSE Apply(mainState, e)

Remembered(e) == Apply(mainState, e)

\* The second lock.
PublishIngress ==
    /\ publishing # NoEvent
    /\ publishing' = NoEvent
    /\ mainState' = Remembered(publishing)
    /\ \/ overflowed /\ LoseToo(publishing)
       \/ ~overflowed /\ Full /\ Overflow(publishing)
       \/ ~overflowed /\ ~Full /\ Queue(publishing)
    /\ UNCHANGED <<sequence, presentationState, frame, taken, phase, runs, window>>

-----------------------------------------------------------------------------
(* The window's callbacks, while the main thread handles its events        *)

Handling == phase \in {"Loading", "Ticking"}

\* A press in the focused window.
KeyPressed(k) ==
    /\ Handling
    /\ focus
    /\ k \notin down
    /\ PublishPresentation(KeyEvent(k, TRUE))
    /\ down' = down \union {k}
    /\ UNCHANGED <<frame, taken, phase, runs, focus>>

\* A release: of the user, or the platform's own once the focus is lost.
KeyReleased(k) ==
    /\ Handling
    /\ k \in down
    /\ PublishPresentation(KeyEvent(k, FALSE))
    /\ down' = down \ {k}
    /\ UNCHANGED <<frame, taken, phase, runs, focus>>

\* The platform releases what was down before it reports another focus.
FocusChanged ==
    /\ Handling
    /\ focus \/ down = {}
    /\ PublishPresentation(Focus(~focus))
    /\ focus' = ~focus
    /\ UNCHANGED <<frame, taken, phase, runs, down>>

\* The cursor may move over a window that has no focus.
CursorMoved ==
    /\ Handling
    /\ focus \/ down = {}
    /\ PublishPresentation(Motion)
    /\ UNCHANGED <<frame, taken, phase, runs, window>>

-----------------------------------------------------------------------------
(* consume(), on the simulation thread.  What follows its lock works on    *)
(* the frame, which no other thread reads.                                 *)

\* Mutant: the state of the render thread is taken for the queue's.
RecoveredStateMutant == presentationState

RecoveredState == mainState

Recover ==
    /\ overflowed
    /\ frame' = [events |-> pending, held |-> RecoveredState, recovered |-> TRUE,
                 recoveryGeneration |-> recoveryGeneration,
                 firstLost |-> firstLost, lastLost |-> lastLost]
    /\ overflowed' = FALSE

Deliver ==
    /\ ~overflowed
    /\ frame' = [frame EXCEPT !.events = Kept(frame.held, pending),
                              !.held = StateAfter(frame.held, pending),
                              !.recovered = FALSE]
    /\ UNCHANGED overflowed

Consume ==
    /\ phase = "Ticking"
    /\ Recover \/ Deliver
    /\ pending' = <<>>
    /\ taken' = mainState.sequence
    /\ UNCHANGED <<sequence, presentationState, mainState, recoveryGeneration,
                   firstLost, lastLost, publishing, phase, runs, window>>

-----------------------------------------------------------------------------
(* A run of the App                                                        *)

\* Client::start(): the new window is given the buffer and reports its focus.
Open ==
    /\ phase = "Closed"
    /\ runs < MaxRuns
    /\ runs' = runs + 1
    /\ focus' \in BOOLEAN
    /\ PublishPresentation(Focus(focus'))
    /\ phase' = "Open"
    /\ UNCHANGED <<frame, taken, down>>

\* The part of restartTimeline() that is about input.
ResetFrame ==
    frame' = [frame EXCEPT !.events = <<>>, !.held = InitialState, !.recovered = FALSE]

\* The simulation thread starts; the main thread waits for it, then handles events.
StartSimulation ==
    /\ phase = "Open"
    /\ publishing = NoEvent
    /\ ResetFrame
    /\ phase' = "Loading"
    /\ UNCHANGED <<buffer, taken, runs, window>>

\* The startup load is over: the timeline starts again and the ticks begin.
BeginTicks ==
    /\ phase = "Loading"
    /\ ResetFrame
    /\ phase' = "Ticking"
    /\ UNCHANGED <<buffer, taken, runs, window>>

\* The run ends: Client::stop() takes the buffer from the window and destroys it.
Close ==
    /\ phase # "Closed"
    /\ publishing = NoEvent
    /\ phase' = "Closed"
    /\ focus' = FALSE
    /\ down' = {}
    /\ UNCHANGED <<buffer, frame, taken, runs>>

Next ==
    \/ PublishIngress
    \/ \E k \in Keys : KeyPressed(k) \/ KeyReleased(k)
    \/ FocusChanged
    \/ CursorMoved
    \/ Consume
    \/ Open
    \/ StartSimulation
    \/ BeginTicks
    \/ Close

Spec == Init /\ [][Next]_vars

-----------------------------------------------------------------------------
(* Properties                                                              *)

Frame == [events : Seq(Event), held : State, recovered : BOOLEAN,
          recoveryGeneration : Nat, firstLost : Nat, lastLost : Nat]

\* The types of the buffer, and its bound: the queue never outgrows the
\* capacity the constructor reserved.
TypeOK ==
    /\ sequence \in Nat
    /\ presentationState \in State
    /\ mainState \in State
    /\ pending \in Seq(Event)
    /\ Len(pending) <= Capacity
    /\ overflowed \in BOOLEAN
    /\ recoveryGeneration \in Nat
    /\ firstLost \in Nat
    /\ lastLost \in Nat
    /\ publishing \in Event \union {NoEvent}
    /\ frame \in Frame
    /\ taken \in Nat
    /\ phase \in Phases
    /\ runs \in Nat
    /\ focus \in BOOLEAN
    /\ down \in SUBSET Keys

\* No event falls between two ticks: what was published since the last
\* consume() waits in the queue, in order and without a gap, or the whole of
\* it is the interval the overflow will report.
Accounted ==
    /\ overflowed =>
        /\ pending = <<>>
        /\ firstLost = taken + 1
        /\ lastLost = mainState.sequence
        /\ firstLost <= lastLost
    /\ ~overflowed =>
        /\ mainState.sequence = taken + Len(pending)
        /\ \A n \in 1 .. Len(pending) : pending[n].sequence = taken + n

\* Every overflow is reported to exactly one tick: the generation of the last
\* frame that recovered is the buffer's, or one behind while a recovery waits.
OverflowReportedOnce ==
    recoveryGeneration =
        frame.recoveryGeneration + IF overflowed THEN 1 ELSE 0

\* The state the render thread reads has seen every event the simulation may
\* be given, and at most the one publish() has between its two locks besides.
PresentationLeads ==
    presentationState =
        IF publishing = NoEvent THEN mainState ELSE Apply(mainState, publishing)

\* In the first run the simulation has the state the events it was given lead
\* to, and what waits for it leads on to the main thread's, overflow or not.
\* A later run begins with a new frame and the old mainState.
HeldAgrees ==
    runs <= 1 =>
        /\ ~overflowed => StateAfter(frame.held, pending) = mainState
        /\ taken > 0 => frame.held.sequence = taken

\* A handler is told of changes only: each event of a frame that did not
\* recover changes more than the date of the state the events before it, and
\* the frame before, led to.
OnlyChanges ==
    [][Consume /\ ~frame'.recovered =>
        LET events == frame'.events
            before(n) == StatesAfter(frame.held, events)[n - 1]
        IN  \A n \in 1 .. Len(events) :
                Apply(before(n), events[n])
                    # [before(n) EXCEPT !.sequence = events[n].sequence]]_vars

\* The fields of the frame, of which the first two are left open.
FrameFields ==
    frame = [events |-> frame.events, held |-> frame.held, recovered |-> frame.recovered,
             recoveryGeneration |-> frame.recoveryGeneration,
             firstLost |-> frame.firstLost, lastLost |-> frame.lastLost]

\* TypeOK, but for the events and the held state of the frame.
BufferTypeOK ==
    /\ sequence \in Nat
    /\ presentationState \in State
    /\ mainState \in State
    /\ pending \in Seq(Event)
    /\ overflowed \in BOOLEAN
    /\ recoveryGeneration \in Nat
    /\ firstLost \in Nat
    /\ lastLost \in Nat
    /\ publishing \in Event \union {NoEvent}
    /\ FrameFields
    /\ frame.recoveryGeneration \in Nat
    /\ taken \in Nat
    /\ focus \in BOOLEAN

QueueBounded == Len(pending) <= Capacity

\* The numbers of the events published, through the two locks.
Numbered ==
    /\ publishing = NoEvent => mainState.sequence = sequence
    /\ publishing # NoEvent =>
        /\ publishing.sequence = sequence
        /\ sequence = mainState.sequence + 1

IInv ==
    /\ BufferTypeOK
    /\ QueueBounded
    /\ Numbered
    /\ Accounted
    /\ OverflowReportedOnce
    /\ PresentationLeads

\* The simulation of the first run starts from the state of a buffer to which
\* nothing was published, and from which nothing was taken.
FirstRunFresh ==
    /\ runs = 0 => phase = "Closed"
    /\ runs = 0 \/ (runs = 1 /\ phase \in {"Open", "Loading"})
            => frame.held = InitialState /\ taken = 0

\* The types, what accounts for the events, and what the simulation holds of them.
InputSound == TypeOK /\ IInv /\ FirstRunFresh /\ HeldAgrees

\* Once a tick has recovered from an overflow and nothing is left to take, it
\* holds no key that the platform has released.
NoStuckKey ==
    /\ phase = "Ticking"
    /\ frame.recovered
    /\ frame.held.sequence = sequence
    /\ publishing = NoEvent
    => frame.held.keys \subseteq down

=============================================================================
