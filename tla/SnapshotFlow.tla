---------------------------- MODULE SnapshotFlow ---------------------------
(***************************************************************************)
(* Time from the simulation to the screen: SimulationThread turns elapsed  *)
(* time into fixed ticks on a timeline, ClientApp publishes the last of    *)
(* them to SnapshotMailbox, and the render thread shows a time between the *)
(* last two snapshots its SnapshotHistory has seen.  Time is counted in    *)
(* whole units of the clock.  Stops and failures end the simulation thread *)
(* first and the client's session after it, as App::run() orders them.     *)
(***************************************************************************)
EXTENDS Integers

CONSTANTS
    FixedDelta,     \* SimulationSettings::fixedDeltaTime
    MaxElapsed,     \* SimulationSettings::maxElapsedTime
    MaxTime,        \* bound: of the clock
    MaxRuns,        \* bound: runs of the App
    None            \* an empty std::optional

\* The checks of SimulationThread's constructor.
SettingsAssumption ==
    /\ FixedDelta \in Nat \ {0} /\ MaxElapsed \in Nat \ {0}
    /\ MaxTime \in Nat /\ MaxRuns \in Nat

VARIABLES
    now,            \* Clock::now()
    runs,           \* runs begun
    simulation,     \* what the simulation thread does: see Simulations
    accumulator,    \* m_accumulator
    origin,         \* m_origin
    tick,           \* m_context.tick
    tickTime,       \* m_context.tickTime
    timeline,       \* m_context.timeline
    sampled,        \* previous in threadMain(): the last sample of the clock
    mailbox,        \* SnapshotMailbox::m_command, or None
    renderer,       \* what the render thread does: see Renderers
    started,        \* the clock when the frame was begun (0 between frames)
    previous,       \* SnapshotHistory::m_previous, or None
    current,        \* SnapshotHistory::m_current, or None
    shown           \* history: the frame on the screen in this session, or None

time == <<accumulator, origin, tick, tickTime, timeline, sampled>>
history == <<previous, current>>
vars == <<now, runs, simulation, time, mailbox, renderer, started, history, shown>>

Simulations == {"Off", "Startup", "Loading", "Loop", "Publish", "Ended"}
Renderers == {"Off", "Idle", "Frame"}

Snapshot == [timeline : Nat, tick : Nat, tickTime : Nat]

\* What publishSnapshot() copies from the context.  The fixed interval, which
\* is the constant FixedDelta, is left out.
Published == [timeline |-> timeline, tick |-> tick, tickTime |-> tickTime]

Clamp(x, low, high) == IF x < low THEN low ELSE IF x > high THEN high ELSE x

Init ==
    /\ now = 0
    /\ runs = 0
    /\ simulation = "Off"
    /\ accumulator = 0
    /\ origin = 0
    /\ tick = 0
    /\ tickTime = 0
    /\ timeline = 1
    /\ sampled = 0
    /\ mailbox = None
    /\ renderer = "Off"
    /\ started = 0
    /\ previous = None
    /\ current = None
    /\ shown = None

TimePasses ==
    /\ now < MaxTime
    /\ now' = now + 1
    /\ UNCHANGED <<runs, simulation, time, mailbox, renderer, started, history, shown>>

-----------------------------------------------------------------------------
(* The simulation thread                                                   *)

\* The part of restartTimeline() that is about time.
RestartTimeline ==
    /\ accumulator' = 0
    /\ origin' = now
    /\ tick' = 0
    /\ tickTime' = now
    /\ timeline' = timeline + 1

StartSimulation ==
    /\ simulation = "Off"
    /\ renderer # "Off"
    /\ simulation' = "Startup"
    /\ RestartTimeline
    /\ UNCHANGED <<now, runs, sampled, mailbox, renderer, started, history, shown>>

\* The snapshot published before the startup load.
PublishStartup ==
    /\ simulation = "Startup"
    /\ mailbox' = Published
    /\ simulation' = "Loading"
    /\ UNCHANGED <<now, runs, time, renderer, started, history, shown>>

\* The startup load is over: the ticks begin on a timeline of their own.
BeginTicks ==
    /\ simulation = "Loading"
    /\ simulation' = "Loop"
    /\ RestartTimeline
    /\ sampled' = now
    /\ UNCHANGED <<now, runs, mailbox, renderer, started, history, shown>>

Elapsed == now - sampled
Stalled == Elapsed > MaxElapsed

\* beginAdvance(): time past the limit is never simulated.  The ticks that
\* follow are later by that much, on a new timeline.
Counted == accumulator + (IF Stalled THEN MaxElapsed ELSE Elapsed)

\* Mutant: the time that is dropped does not shift the ticks that follow.
ShiftedOriginMutant == origin

ShiftedOrigin == IF Stalled THEN origin + (Elapsed - MaxElapsed) ELSE origin

AdvancedTimeline == IF Stalled THEN timeline + 1 ELSE timeline

\* Mutant: a tick that is due at this moment waits for the next advance.
TicksDueMutant == IF Counted = 0 THEN 0 ELSE (Counted - 1) \div FixedDelta

\* The turns the loop of advance() takes.
TicksDue == Counted \div FixedDelta

\* Mutant: a tick is dated with the origin.
TickTimeMutant(o, t) == o

\* beginTick(): ticks stay one interval apart, without adding up rounding.
TickTime(o, t) == o + t * FixedDelta

\* advance(): its ticks run one after the other on this thread.
Advance ==
    /\ simulation = "Loop"
    /\ origin' = ShiftedOrigin
    /\ timeline' = AdvancedTimeline
    /\ tick' = tick + TicksDue
    /\ accumulator' = Counted - TicksDue * FixedDelta
    /\ tickTime' = IF TicksDue > 0 THEN TickTime(origin', tick') ELSE tickTime
    /\ sampled' = now
    /\ simulation' = IF TicksDue > 0 THEN "Publish" ELSE "Loop"
    /\ UNCHANGED <<now, runs, mailbox, renderer, started, history, shown>>

\* Only the last tick of an advance is published.
PublishTick ==
    /\ simulation = "Publish"
    /\ mailbox' = Published
    /\ simulation' = "Loop"
    /\ UNCHANGED <<now, runs, time, renderer, started, history, shown>>

\* The thread is stopped, or one of the App's hooks throws.
EndSimulation ==
    /\ simulation \notin {"Off", "Ended"}
    /\ simulation' = "Ended"
    /\ UNCHANGED <<now, runs, time, mailbox, renderer, started, history, shown>>

-----------------------------------------------------------------------------
(* The render thread                                                       *)

\* Client::start() and RenderThread::start(): an empty mailbox, a new history.
StartClient ==
    /\ renderer = "Off"
    /\ runs < MaxRuns
    /\ runs' = runs + 1
    /\ renderer' = "Idle"
    /\ mailbox' = None
    /\ UNCHANGED <<now, simulation, time, started, history, shown>>

\* A frame reads the clock before it reads the mailbox.
BeginFrame ==
    /\ renderer = "Idle"
    /\ renderer' = "Frame"
    /\ started' = now
    /\ UNCHANGED <<now, runs, simulation, time, mailbox, history, shown>>

\* The mailbox keeps the snapshot it has: it may have been seen before.
Stale(s) ==
    \/ s.timeline < current.timeline
    \/ s.timeline = current.timeline /\ s.tick <= current.tick

\* acquire() logs "Snapshot timeline changed without a new generation".
Jumps(s) ==
    /\ current # None
    /\ s.timeline = current.timeline
    /\ s.tick > current.tick
    /\ s.tickTime <= current.tickTime

\* Mutant: a new timeline is blended with the one before.
AcquiredMutant(s) ==
    CASE current = None -> <<None, s>>
      [] current # None /\ s.timeline > current.timeline -> <<current, s>>
      [] current # None /\ Stale(s) -> <<previous, current>>
      [] OTHER -> <<IF Jumps(s) THEN None ELSE current, s>>

\* SnapshotHistory::acquire(): the history after the snapshot s.
Acquired(s) ==
    CASE current = None -> <<None, s>>
      [] current # None /\ s.timeline > current.timeline -> <<None, s>>
      [] current # None /\ Stale(s) -> <<previous, current>>
      [] OTHER -> <<IF Jumps(s) THEN None ELSE current, s>>

\* Mutant: alpha has no lower end.
BlendMutant(p, c) ==
    IF started - FixedDelta > c.tickTime THEN c.tickTime ELSE started - FixedDelta

\* alpha() and the blend: FixedDelta behind the frame's clock, as far as the
\* two snapshots reach.
Blend(p, c) == Clamp(started - FixedDelta, p.tickTime, c.tickTime)

\* SnapshotHistory::prepareFrame(): the time the frame shows.
TimeShown(p, c) ==
    CASE c = None -> None
      [] c # None /\ p = None -> c.tickTime
      [] OTHER -> Blend(p, c)

\* The snapshot, if there is one, enters the history, and the frame is drawn.
DrawFrame ==
    /\ renderer = "Frame"
    /\ renderer' = "Idle"
    /\ LET h == IF mailbox = None THEN history ELSE Acquired(mailbox)
       IN  /\ previous' = h[1]
           /\ current' = h[2]
           /\ shown' = TimeShown(h[1], h[2])
    /\ started' = 0
    /\ UNCHANGED <<now, runs, simulation, time, mailbox>>

\* Client::stop(), once the simulation thread has been joined.  The history is
\* gone with the render thread.
StopClient ==
    /\ renderer # "Off"
    /\ simulation \in {"Off", "Ended"}
    /\ simulation' = "Off"
    /\ renderer' = "Off"
    /\ mailbox' = None
    /\ previous' = None
    /\ current' = None
    /\ shown' = None
    /\ started' = 0
    /\ UNCHANGED <<now, runs, time>>

Next ==
    \/ TimePasses
    \/ StartSimulation \/ PublishStartup \/ BeginTicks
    \/ Advance \/ PublishTick \/ EndSimulation
    \/ StartClient \/ BeginFrame \/ DrawFrame \/ StopClient

Spec == Init /\ [][Next]_vars

-----------------------------------------------------------------------------
(* Properties                                                              *)

Ticking == simulation \in {"Loop", "Publish"}

\* The types, and what advance() leaves behind: less than a tick is owed, so
\* the wait for the next tick has a deadline in the future.
TypeOK ==
    /\ now \in 0 .. MaxTime
    /\ runs \in 0 .. MaxRuns
    /\ simulation \in Simulations
    /\ accumulator \in 0 .. FixedDelta - 1
    /\ origin \in Nat
    /\ tick \in Nat
    /\ tickTime \in Nat
    /\ timeline \in Nat
    /\ sampled \in 0 .. now
    /\ mailbox \in Snapshot \union {None}
    /\ renderer \in Renderers
    /\ started \in 0 .. now
    /\ previous \in Snapshot \union {None}
    /\ current \in Snapshot \union {None}
    /\ shown \in Nat \union {None}

\* Simulated time and real time never drift apart: the ticks run so far and
\* the time still owed add up to the last sample of the clock, whatever was
\* dropped on the way.
NoDrift == Ticking => origin + tick * FixedDelta + accumulator = sampled

\* The error that acquire() logs for a timeline that changed without a new
\* generation is never the simulation thread's doing.
NoUnannouncedJump == mailbox # None => ~Jumps(mailbox)

\* The history blends two snapshots of one timeline, the older first.
HistoryOrdered ==
    previous # None =>
        /\ current # None
        /\ previous.timeline = current.timeline
        /\ previous.tick < current.tick
        /\ previous.tickTime < current.tickTime

\* The ticks run so far have their times behind the clock.
TicksPast == origin + tick * FixedDelta <= now

\* What is about to be published is dated by its tick.
ContextDated ==
    simulation \in {"Startup", "Publish"} => tickTime = origin + tick * FixedDelta

Snapshots == {mailbox, previous, current} \ {None}

\* The snapshots on their way are of ticks that were run; those of the present
\* timeline are dated by its origin.
SnapshotsDated ==
    \A s \in Snapshots :
        /\ s.timeline <= timeline
        /\ s.tickTime <= origin + tick * FixedDelta
        /\ s.timeline = timeline =>
              s.tick <= tick /\ s.tickTime = origin + s.tick * FixedDelta

\* Snapshots of one timeline are as far apart as their ticks, and one of a
\* later timeline is not earlier.
SnapshotsAgree ==
    \A s, t \in Snapshots :
        /\ s.timeline = t.timeline =>
              s.tickTime + t.tick * FixedDelta = t.tickTime + s.tick * FixedDelta
        /\ s.timeline < t.timeline => s.tickTime <= t.tickTime

\* The earliest start the next frame to be drawn can have.
NextStart == IF renderer = "Frame" THEN started ELSE now

\* What is on the screen, the next frame shows too, or what is later.
ScreenReached ==
    shown # None =>
        /\ current # None
        /\ shown <= current.tickTime
        /\ previous # None =>
              shown <= Clamp(NextStart - FixedDelta, previous.tickTime, current.tickTime)

\* The types, the timeline and the history, at every moment of every run, with
\* what the proofs need to know of the snapshots on their way.
TimelineSound ==
    /\ TypeOK
    /\ NoDrift
    /\ NoUnannouncedJump
    /\ HistoryOrdered
    /\ TicksPast /\ ContextDated
    /\ SnapshotsDated /\ SnapshotsAgree
    /\ ScreenReached

\* Within a session of the client the time on the screen never runs
\* backward, through skipped snapshots, stalls and restarted timelines, and
\* it is never ahead of the clock.
ShownForward ==
    [][DrawFrame /\ shown # None => shown' # None /\ shown' >= shown /\ shown' <= now]_vars
=============================================================================
