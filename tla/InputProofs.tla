---------------------------- MODULE InputProofs ----------------------------
(***************************************************************************)
(* For every set of keys, every capacity and any number of events and      *)
(* runs: the input queue stays within its capacity, accounts for every     *)
(* event, reports every overflow once, and the state for presentation is   *)
(* ahead of it by no more than the event between the two locks.            *)
(*                                                                         *)
(* What consume() makes of the events, by applying them one after another, *)
(* is a recursion over the queue: the second part proves what it computes, *)
(* by induction on the length of the queue, and from it that the frame     *)
(* agrees with the main thread's state and tells handlers of changes only. *)
(*                                                                         *)
(* Then what reaches a frame, for every setting of the time too: the input *)
(* a frame shows never goes back to an older one, and neither does the     *)
(* time.  The input: whatever the simulation holds, and will hold once it  *)
(* has taken what waits, is behind what the main thread published, through *)
(* overflows and runs that begin with a queue the last one left.  Time:    *)
(* snapshots of one timeline are as far apart as their ticks, one of a     *)
(* later timeline is not earlier, and what is on the screen is within      *)
(* reach of the next frame.                                                *)
(***************************************************************************)
EXTENDS MCInput, SequenceTheorems, NumberInduction, Integers, TLAPS

-----------------------------------------------------------------------------

\* apply() returns a state, dated with the event.
LEMMA ApplyState ==
  ASSUME NEW s \in State, NEW e \in Event
  PROVE  Apply(s, e) \in State /\ Apply(s, e).sequence = e.sequence
<1>1. CASE ~Changes(s, e)
  BY <1>1 DEF Apply, State, Event
<1>2. CASE Changes(s, e) /\ e.kind = "Key"
  BY <1>2 DEF Apply, Applied, State, Event
<1>3. CASE Changes(s, e) /\ e.kind = "Motion"
  <2>1. Apply(s, e) = [s EXCEPT !.look = s.look + 1, !.sequence = e.sequence]
    BY <1>3 DEF Apply, Applied
  <2>2. s.look + 1 \in Nat /\ e.sequence \in Nat
    BY DEF State, Event
  <2> QED  BY <2>1, <2>2 DEF State
<1>4. CASE Changes(s, e) /\ e.kind = "Focus"
  BY <1>4 DEF Apply, Applied, State, Event
<1> QED  BY <1>1, <1>2, <1>3, <1>4 DEF Event

\* An event is told from no event by its kind.
LEMMA EventIsEvent == NoEvent \notin Event
BY DEF NoEvent, Event

LEMMA InitInvariant == Init => IInv
<1> SUFFICES ASSUME Init PROVE IInv
  OBVIOUS
<1> USE DEF Init
<1>1. InitialState \in State /\ InitialState.sequence = 0
  BY DEF InitialState, State
<1>2. BufferTypeOK
  <2>1. FrameFields /\ frame.recoveryGeneration = 0
    BY DEF FrameFields
  <2>2. pending \in Seq(Event) /\ publishing \in Event \union {NoEvent}
    OBVIOUS
  <2> QED  BY <1>1, <2>1, <2>2 DEF BufferTypeOK
<1>3. QueueBounded
  BY CapacityAssumption DEF QueueBounded
<1>4. Numbered /\ Accounted
  BY <1>1 DEF Numbered, Accounted
<1>5. OverflowReportedOnce /\ PresentationLeads
  BY DEF OverflowReportedOnce, PresentationLeads
<1> QED  BY <1>2, <1>3, <1>4, <1>5 DEF IInv

(***************************************************************************)
(* The first lock of publish(), whatever the event.                        *)
(***************************************************************************)
LEMMA PublishPresentationInvariant ==
  ASSUME IInv, NEW e \in Event, e.sequence = sequence + 1,
         PublishPresentation(e), UNCHANGED <<frame, taken>>, focus' \in BOOLEAN
  PROVE  IInv'
<1> USE DEF IInv, PublishPresentation
<1>1. presentationState = mainState /\ presentationState \in State
  BY DEF PresentationLeads, BufferTypeOK
<1>2. BufferTypeOK'
  <2>1. presentationState' \in State
    BY <1>1, ApplyState
  <2> QED  BY <2>1 DEF BufferTypeOK, FrameFields, Event
<1>3. Numbered'
  BY EventIsEvent DEF Numbered, BufferTypeOK
<1>4. PresentationLeads'
  BY <1>1, EventIsEvent DEF PresentationLeads
<1>5. QueueBounded' /\ Accounted' /\ OverflowReportedOnce'
  BY DEF QueueBounded, Accounted, OverflowReportedOnce
<1> QED  BY <1>2, <1>3, <1>4, <1>5

\* The events the window publishes are the next in number.
LEMMA NextEvents ==
  ASSUME sequence \in Nat
  PROVE  /\ \A k \in Keys, p \in BOOLEAN :
              KeyEvent(k, p) \in Event /\ KeyEvent(k, p).sequence = sequence + 1
         /\ \A p \in BOOLEAN :
              Focus(p) \in Event /\ Focus(p).sequence = sequence + 1
         /\ Motion \in Event /\ Motion.sequence = sequence + 1
BY DEF KeyEvent, Focus, Motion, Event

(***************************************************************************)
(* The second lock.                                                        *)
(***************************************************************************)
LEMMA PublishIngressInvariant == ASSUME IInv, PublishIngress PROVE IInv'
<1> USE DEF IInv, PublishIngress
<1> DEFINE e == publishing
<1>1. /\ e \in Event /\ e.sequence = mainState.sequence + 1 /\ e.sequence = sequence
      /\ mainState \in State /\ mainState.sequence \in Nat
      /\ taken \in Nat /\ pending \in Seq(Event)
  BY DEF BufferTypeOK, Numbered, State
<1>2. mainState' \in State /\ mainState'.sequence = e.sequence
  BY <1>1, ApplyState DEF Remembered
<1>3. Numbered' /\ PresentationLeads'
  <2>1. publishing' = NoEvent /\ mainState' = Apply(mainState, e)
    BY DEF Remembered
  <2> QED  BY <1>1, <1>2, <2>1 DEF Numbered, PresentationLeads
<1>4. CASE overflowed /\ LoseToo(e)
  <2>1. BufferTypeOK'
    BY <1>1, <1>2, <1>4 DEF BufferTypeOK, FrameFields, LoseToo, Event, window
  <2>2. Accounted'
    BY <1>1, <1>2, <1>4 DEF Accounted, LoseToo
  <2>3. QueueBounded' /\ OverflowReportedOnce'
    BY <1>4 DEF QueueBounded, OverflowReportedOnce, LoseToo
  <2> QED  BY <1>3, <2>1, <2>2, <2>3
<1>5. CASE ~overflowed /\ Full /\ Overflow(e)
  <2>1. Len(pending) >= 1 /\ pending[1] \in Event /\ pending[1].sequence = taken + 1
        /\ mainState.sequence = taken + Len(pending) /\ Len(pending) \in Nat
    BY <1>1, <1>5, CapacityAssumption DEF Full, Accounted
  <2>2. BufferTypeOK'
    <3>1. pending[1].sequence \in Nat /\ e.sequence \in Nat
      BY <1>1, <2>1
    <3>2. recoveryGeneration' \in Nat
      BY <1>5 DEF Overflow, BufferTypeOK
    <3>3. pending' \in Seq(Event) /\ overflowed' \in BOOLEAN
          /\ firstLost' \in Nat /\ lastLost' \in Nat
      BY <1>5, <3>1 DEF Overflow
    <3> QED  BY <1>2, <3>2, <3>3 DEF BufferTypeOK, FrameFields, window
  <2>3. Accounted'
    BY <1>1, <1>2, <1>5, <2>1 DEF Accounted, Overflow
  <2>4. QueueBounded'
    BY <1>5, CapacityAssumption DEF QueueBounded, Overflow
  <2>5. OverflowReportedOnce'
    BY <1>5 DEF OverflowReportedOnce, Overflow, BufferTypeOK
  <2> QED  BY <1>3, <2>2, <2>3, <2>4, <2>5
<1>6. CASE ~overflowed /\ ~Full /\ Queue(e)
  <2>1. /\ pending' \in Seq(Event)
        /\ Len(pending') = Len(pending) + 1
        /\ \A n \in 1 .. Len(pending) : pending'[n] = pending[n]
        /\ pending'[Len(pending) + 1] = e
        /\ Len(pending) \in Nat
    BY <1>1, <1>6 DEF Queue
  <2>2. BufferTypeOK'
    BY <1>2, <1>6, <2>1 DEF BufferTypeOK, FrameFields, Queue, window
  <2>3. Accounted'
    <3>1. mainState.sequence = taken + Len(pending) /\ ~overflowed'
          /\ \A n \in 1 .. Len(pending) : pending[n].sequence = taken + n
      BY <1>6 DEF Accounted, Queue
    <3>2. ASSUME NEW n \in 1 .. Len(pending') PROVE pending'[n].sequence = taken' + n
      BY <1>1, <2>1, <3>1, SMTT(30)
    <3> QED  BY <1>1, <1>2, <2>1, <3>1, <3>2 DEF Accounted
  <2>4. QueueBounded'
    BY <1>6, <2>1, CapacityAssumption DEF QueueBounded, Full
  <2>5. OverflowReportedOnce'
    BY <1>6 DEF OverflowReportedOnce, Queue
  <2> QED  BY <1>3, <2>2, <2>3, <2>4, <2>5
<1> QED  BY <1>4, <1>5, <1>6

(***************************************************************************)
(* A tick takes the queue.                                                 *)
(***************************************************************************)
LEMMA ConsumeInvariant == ASSUME IInv, Consume PROVE IInv'
<1> USE DEF IInv, Consume
<1>1. mainState.sequence \in Nat /\ taken' = mainState.sequence /\ pending' = <<>>
  BY DEF BufferTypeOK, State
<1>2. FrameFields' /\ overflowed' = FALSE /\ frame'.recoveryGeneration = recoveryGeneration
  <2>1. CASE Recover
    BY <2>1 DEF Recover, FrameFields
  <2>2. CASE Deliver
    <3> DEFINE es == Kept(frame.held, pending)
               hs == StateAfter(frame.held, pending)
    <3>1. /\ frame' = [frame EXCEPT !.events = es, !.held = hs, !.recovered = FALSE]
          /\ FrameFields /\ overflowed' = FALSE
      BY <2>2 DEF Deliver, BufferTypeOK
    <3> HIDE DEF es, hs
    <3>2. FrameFields' /\ frame'.recoveryGeneration = frame.recoveryGeneration
      BY <3>1 DEF FrameFields
    <3>3. frame.recoveryGeneration = recoveryGeneration
      BY <2>2 DEF Deliver, BufferTypeOK, OverflowReportedOnce
    <3> QED  BY <3>1, <3>2, <3>3
  <2> QED  BY <2>1, <2>2
<1>3. BufferTypeOK'
  <2>1. pending' \in Seq(Event) /\ taken' \in Nat
    BY <1>1
  <2>2. UNCHANGED <<sequence, presentationState, mainState, recoveryGeneration,
                    firstLost, lastLost, publishing, focus>>
    BY DEF window
  <2> QED  BY <1>2, <2>1, <2>2 DEF BufferTypeOK
<1>4. QueueBounded' /\ Accounted'
  BY <1>1, <1>2, CapacityAssumption DEF QueueBounded, Accounted
<1>5. Numbered' /\ PresentationLeads'
  BY DEF Numbered, PresentationLeads
<1>6. OverflowReportedOnce'
  BY <1>2 DEF OverflowReportedOnce, BufferTypeOK
<1> QED  BY <1>3, <1>4, <1>5, <1>6

\* A run begins, or ends: the buffer is as it was.
LEMMA BufferUnchanged ==
  ASSUME IInv, UNCHANGED <<buffer, taken>>, ResetFrame \/ UNCHANGED frame,
         focus' \in BOOLEAN
  PROVE  IInv'
<1> USE DEF IInv, buffer
<1>1. FrameFields' /\ frame'.recoveryGeneration = frame.recoveryGeneration
  BY DEF ResetFrame, BufferTypeOK, FrameFields
<1>2. BufferTypeOK'
  BY <1>1 DEF BufferTypeOK
<1>3. QueueBounded' /\ Numbered' /\ Accounted' /\ PresentationLeads'
  BY DEF QueueBounded, Numbered, Accounted, PresentationLeads
<1>4. OverflowReportedOnce'
  BY <1>1 DEF OverflowReportedOnce
<1> QED  BY <1>2, <1>3, <1>4

LEMMA NextInvariant == IInv /\ [Next]_vars => IInv'
<1> SUFFICES ASSUME IInv, [Next]_vars PROVE IInv'
  OBVIOUS
<1>1. sequence \in Nat /\ focus \in BOOLEAN
  BY DEF IInv, BufferTypeOK
<1>2. CASE PublishIngress
  BY <1>2, PublishIngressInvariant
<1>3. ASSUME NEW k \in Keys, KeyPressed(k) \/ KeyReleased(k) PROVE IInv'
  BY <1>1, <1>3, NextEvents, PublishPresentationInvariant DEF KeyPressed, KeyReleased
<1>4. CASE FocusChanged
  BY <1>1, <1>4, NextEvents, PublishPresentationInvariant DEF FocusChanged
<1>5. CASE CursorMoved
  BY <1>1, <1>5, NextEvents, PublishPresentationInvariant DEF CursorMoved, window
<1>6. CASE Open
  BY <1>1, <1>6, NextEvents, PublishPresentationInvariant DEF Open
<1>7. CASE Consume
  BY <1>7, ConsumeInvariant
<1>8. CASE StartSimulation \/ BeginTicks
  BY <1>1, <1>8, BufferUnchanged DEF StartSimulation, BeginTicks, window
<1>9. CASE Close
  BY <1>9, BufferUnchanged DEF Close
<1>10. CASE UNCHANGED vars
  BY <1>1, <1>10, BufferUnchanged DEF vars, window
<1> QED  BY <1>2, <1>3, <1>4, <1>5, <1>6, <1>7, <1>8, <1>9, <1>10 DEF Next

LEMMA Invariant == Spec => []IInv
BY InitInvariant, NextInvariant, PTL DEF Spec

-----------------------------------------------------------------------------
(* StatesAfter and Kept, for every state and every sequence of events.     *)

\* One step of the recursion of StatesAfter, over the first N events.
Steps(s, events, N, f) == [n \in 0 .. N |-> IF n = 0 THEN s ELSE Apply(f[n - 1], events[n])]

\* One event after another can be applied, and in one way.
LEMMA AppliedInOrder ==
  ASSUME NEW N \in Nat, NEW s \in State, NEW ev
  PROVE  (\A k \in 1 .. N : \A d \in State : Apply(d, ev[k]) \in State) =>
           \E g \in [0 .. N -> State] :
             g = Steps(s, ev, N, g) /\ \A h : h = Steps(s, ev, N, h) => h = g
<1>1. \A step \in [1 .. N -> [State -> State]] :
        \E g \in [0 .. N -> State] : g[0] = s /\ \A k \in 1 .. N : g[k] = step[k][g[k - 1]]
  BY Iteration
<1>2. \A g, h : g[0] = h[0] /\ (\A k \in 1 .. N : g[k - 1] = h[k - 1] => g[k] = h[k])
                => \A k \in 0 .. N : g[k] = h[k]
  BY IterationUnique
<1>3. HAVE \A k \in 1 .. N : \A d \in State : Apply(d, ev[k]) \in State
<1>4. PICK step \in [1 .. N -> [State -> State]] : \A k \in 1 .. N : \A d \in State : step[k][d] = Apply(d, ev[k])
  <2>1. [k \in 1 .. N |-> [d \in State |-> Apply(d, ev[k])]] \in [1 .. N -> [State -> State]]
    BY <1>3
  <2> QED  BY <2>1
<1>5. PICK g \in [0 .. N -> State] : g[0] = s /\ \A k \in 1 .. N : g[k] = step[k][g[k - 1]]
  BY <1>1
<1>6. \A k \in 1 .. N : k - 1 \in 0 .. N /\ g[k] = Apply(g[k - 1], ev[k])
  BY <1>4, <1>5
<1>7. g = Steps(s, ev, N, g)
  <2>1. \A n \in 0 .. N : g[n] = IF n = 0 THEN s ELSE Apply(g[n - 1], ev[n])
    BY <1>5, <1>6
  <2> QED  BY <2>1 DEF Steps
<1>8. ASSUME NEW h, h = Steps(s, ev, N, h)
      PROVE  h = g
  <2>1. h[0] = g[0] /\ \A k \in 1 .. N : h[k] = Apply(h[k - 1], ev[k])
    BY <1>5, <1>8 DEF Steps
  <2>2. \A k \in 1 .. N : h[k - 1] = g[k - 1] => h[k] = g[k]
    BY <1>6, <2>1
  <2>3. \A k \in 0 .. N : h[k] = g[k]
    BY <1>2, <2>1, <2>2
  <2>4. h = [n \in 0 .. N |-> h[n]] /\ g = [n \in 0 .. N |-> g[n]]
    BY <1>8 DEF Steps
  <2> QED  BY <2>3, <2>4
<1> QED  BY <1>7, <1>8

\* consume() applies one event after another.
LEMMA StatesAfterFacts ==
  ASSUME NEW s \in State, NEW es
  PROVE  es \in Seq(Event) =>
           /\ StatesAfter(s, es) \in [0 .. Len(es) -> State]
           /\ StatesAfter(s, es)[0] = s
           /\ \A k \in 1 .. Len(es) :
                StatesAfter(s, es)[k] = Apply(StatesAfter(s, es)[k - 1], es[k])
<1>1. \A N \in Nat : (\A k \in 1 .. N : \A d \in State : Apply(d, es[k]) \in State) =>
         \E g \in [0 .. N -> State] : g = Steps(s, es, N, g) /\ \A h : h = Steps(s, es, N, h) => h = g
  BY AppliedInOrder, ZenonT(30)
<1>2. StatesAfter(s, es) = CHOOSE f : f = Steps(s, es, Len(es), f)
  BY DEF StatesAfter, Steps
<1>3. HAVE es \in Seq(Event)
<1>4. Len(es) \in Nat /\ \A k \in 1 .. Len(es) : es[k] \in Event
  BY <1>3, LenProperties, ElementOfSeq
<1>5. \A k \in 1 .. Len(es) : \A d \in State : Apply(d, es[k]) \in State
  BY <1>4, ApplyState
<1>6. \E g \in [0 .. Len(es) -> State] : g = Steps(s, es, Len(es), g) /\ \A h : h = Steps(s, es, Len(es), h) => h = g
  BY <1>1, <1>4, <1>5
<1>7. /\ StatesAfter(s, es) = Steps(s, es, Len(es), StatesAfter(s, es))
      /\ StatesAfter(s, es) \in [0 .. Len(es) -> State]
  BY <1>2, <1>6
<1> QED  BY <1>4, <1>7 DEF Steps

\* The state after no event, and after one more.
LEMMA StateAfterNone ==
  ASSUME NEW s \in State
  PROVE  StateAfter(s, <<>>) = s
<1>1. <<>> \in Seq(Event) /\ Len(<<>>) = 0
  BY EmptySeq
<1> QED  BY <1>1, StatesAfterFacts DEF StateAfter

LEMMA StatesAfterOneMore ==
  ASSUME NEW s \in State, NEW es, NEW e
  PROVE  es \in Seq(Event) /\ e \in Event =>
           /\ \A k \in 0 .. Len(es) : StatesAfter(s, Append(es, e))[k] = StatesAfter(s, es)[k]
           /\ StateAfter(s, Append(es, e)) = Apply(StateAfter(s, es), e)
           /\ StateAfter(s, es) \in State
<1>1. \A N \in Nat : \A g, h : g[0] = h[0] /\ (\A k \in 1 .. N : g[k - 1] = h[k - 1] => g[k] = h[k])
                => \A k \in 0 .. N : g[k] = h[k]
  BY IterationUnique
<1>2. HAVE es \in Seq(Event) /\ e \in Event
<1>3. PICK N \in Nat : N = Len(es) /\ N + 1 = Len(Append(es, e)) /\ Append(es, e)[N + 1] = e
                       /\ \A k \in 1 .. N : Append(es, e)[k] = es[k]
  BY <1>2, LenProperties, AppendProperties
<1>4. PICK g : g = StatesAfter(s, Append(es, e))
  OBVIOUS
<1>5. PICK h : h = StatesAfter(s, es)
  OBVIOUS
<1>6. h[0] = s /\ \A k \in 1 .. N : h[k] = Apply(h[k - 1], es[k])
  BY <1>2, <1>3, <1>5, StatesAfterFacts
<1>7. g[0] = s /\ \A k \in 1 .. N + 1 : g[k] = Apply(g[k - 1], Append(es, e)[k])
  <2>1. Append(es, e) \in Seq(Event)
    BY <1>2, AppendProperties
  <2> QED  BY <1>3, <1>4, <2>1, StatesAfterFacts
<1>8. \A k \in 1 .. N : g[k] = Apply(g[k - 1], es[k])
  BY <1>3, <1>7
<1>9. \A k \in 0 .. N : g[k] = h[k]
  <2>1. \A k \in 1 .. N : g[k - 1] = h[k - 1] => g[k] = h[k]
    BY <1>6, <1>8
  <2>2. g[0] = h[0]
    BY <1>6, <1>7
  <2> QED  BY <1>1, <2>1, <2>2, ZenonT(30)
<1>10. g[N + 1] = Apply(h[N], e)
  BY <1>3, <1>7, <1>9
<1>11. h \in [0 .. N -> State]
  BY <1>2, <1>3, <1>5, StatesAfterFacts
<1>12. h[N] \in State
  BY <1>11
<1> QED  BY <1>3, <1>4, <1>5, <1>9, <1>10, <1>12 DEF StateAfter

\* One step of the recursion of KeptAfter, over the first N events.
Keeps(after, events, N, f) ==
    [n \in 0 .. N |-> IF n = 0 THEN <<>>
                      ELSE IF Changes(after[n - 1], events[n]) THEN Append(f[n - 1], events[n])
                      ELSE f[n - 1]]

\* D holds the empty queue, and what each event appended to one of D leaves.
Extends(D, N, ev) ==
    <<>> \in D /\ \A k \in 1 .. N : \A d \in D : Append(d, ev[k]) \in D

\* The recursion of KeptAfter has one solution.
KeptOneWay(after, N, ev, D) ==
    \E g \in [0 .. N -> D] :
        g = Keeps(after, ev, N, g) /\ \A h : h = Keeps(after, ev, N, h) => h = g

\* The events that change a state can be kept, and in one way.
LEMMA KeptInOrder ==
  ASSUME NEW N \in Nat, NEW after, NEW ev, NEW D
  PROVE  Extends(D, N, ev) => KeptOneWay(after, N, ev, D)
<1>1. \A x \in D : \A step \in [1 .. N -> [D -> D]] :
        \E g \in [0 .. N -> D] : g[0] = x /\ \A k \in 1 .. N : g[k] = step[k][g[k - 1]]
  BY Iteration
<1>2. \A g, h : g[0] = h[0] /\ (\A k \in 1 .. N : g[k - 1] = h[k - 1] => g[k] = h[k])
                => \A k \in 0 .. N : g[k] = h[k]
  BY IterationUnique
<1>3. HAVE Extends(D, N, ev)
<1> DEFINE Keep(k, d) == IF Changes(after[k - 1], ev[k]) THEN Append(d, ev[k]) ELSE d
<1>4. \A k \in 1 .. N : \A d \in D : Keep(k, d) \in D
  BY <1>3 DEF Extends
<1>5. PICK empty : empty = <<>>
  OBVIOUS
<1>6. \A f : Keeps(after, ev, N, f) = [n \in 0 .. N |-> IF n = 0 THEN empty ELSE Keep(n, f[n - 1])]
  BY <1>5 DEF Keeps
<1>7. empty \in D
  BY <1>3, <1>5 DEF Extends
<1> HIDE DEF Keep
<1>8. PICK step \in [1 .. N -> [D -> D]] :
        \A k \in 1 .. N : \A d \in D : step[k][d] = Keep(k, d)
  <2>1. [k \in 1 .. N |-> [d \in D |-> Keep(k, d)]] \in [1 .. N -> [D -> D]]
    BY <1>4
  <2> QED  BY <2>1
<1>9. PICK g \in [0 .. N -> D] : g[0] = empty /\ \A k \in 1 .. N : g[k] = step[k][g[k - 1]]
  BY <1>1, <1>7
<1>10. \A k \in 1 .. N : k - 1 \in 0 .. N /\ g[k] = Keep(k, g[k - 1])
  BY <1>8, <1>9
<1>11. g = Keeps(after, ev, N, g)
  <2>1. \A n \in 0 .. N : g[n] = IF n = 0 THEN empty ELSE Keep(n, g[n - 1])
    BY <1>9, <1>10
  <2> QED  BY <1>6, <2>1
<1>12. ASSUME NEW h, h = Keeps(after, ev, N, h)
       PROVE  h = g
  <2>1. h = [n \in 0 .. N |-> IF n = 0 THEN empty ELSE Keep(n, h[n - 1])]
    BY <1>6, <1>12
  <2>2. h[0] = g[0]
    BY <1>9, <2>1
  <2>3. \A k \in 1 .. N : h[k] = Keep(k, h[k - 1])
    BY <2>1
  <2>4. \A k \in 1 .. N : h[k - 1] = g[k - 1] => h[k] = g[k]
    BY <1>10, <2>3
  <2>5. \A k \in 0 .. N : h[k] = g[k]
    BY <1>2, <2>2, <2>4
  <2>6. h = [n \in 0 .. N |-> h[n]] /\ g = [n \in 0 .. N |-> g[n]]
    BY <2>1
  <2> QED  BY <2>5, <2>6
<1> QED  BY <1>11, <1>12 DEF KeptOneWay

\* consume() keeps the events that change the state they find.
LEMMA KeptAfterFacts ==
  ASSUME NEW s \in State, NEW es
  PROVE  es \in Seq(Event) =>
           /\ KeptAfter(s, es) \in [0 .. Len(es) -> Seq(Event)]
           /\ KeptAfter(s, es)[0] = <<>>
           /\ \A k \in 1 .. Len(es) :
                KeptAfter(s, es)[k] = IF Changes(StatesAfter(s, es)[k - 1], es[k])
                                      THEN Append(KeptAfter(s, es)[k - 1], es[k])
                                      ELSE KeptAfter(s, es)[k - 1]
<1>1. PICK after : after = StatesAfter(s, es)
  OBVIOUS
<1>2. PICK D : D = Seq(Event)
  OBVIOUS
<1>3. \A N \in Nat : Extends(D, N, es) => KeptOneWay(after, N, es, D)
  BY KeptInOrder
<1>4. KeptAfter(s, es) = CHOOSE f : f = Keeps(after, es, Len(es), f)
  BY <1>1 DEF KeptAfter, Keeps
<1>5. \A N \in Nat : \A f : f = Keeps(after, es, N, f) =>
          /\ f[0] = <<>>
          /\ \A k \in 1 .. N : f[k] = IF Changes(after[k - 1], es[k])
                                      THEN Append(f[k - 1], es[k]) ELSE f[k - 1]
  <2>1. SUFFICES ASSUME NEW N \in Nat, NEW f, f = Keeps(after, es, N, f)
                 PROVE  /\ f[0] = <<>>
                        /\ \A k \in 1 .. N : f[k] = IF Changes(after[k - 1], es[k])
                                      THEN Append(f[k - 1], es[k]) ELSE f[k - 1]
    BY Zenon
  <2>2. \A n \in 0 .. N : f[n] = IF n = 0 THEN <<>>
                      ELSE IF Changes(after[n - 1], es[n]) THEN Append(f[n - 1], es[n])
                      ELSE f[n - 1]
    BY <2>1, Zenon DEF Keeps
  <2>3. 0 \in 0 .. N /\ \A k \in 1 .. N : k \in 0 .. N /\ k # 0
    OBVIOUS
  <2> QED  BY <2>2, <2>3, Zenon
<1>6. HAVE es \in Seq(Event)
<1>7. PICK N \in Nat : N = Len(es) /\ \A k \in 1 .. N : es[k] \in Event
  BY <1>6, LenProperties, ElementOfSeq
<1>8. Extends(D, N, es)
  BY <1>2, <1>7, EmptySeq, AppendProperties DEF Extends
<1>9. \E g \in [0 .. N -> D] :
         g = Keeps(after, es, N, g) /\ \A h : h = Keeps(after, es, N, h) => h = g
  BY <1>3, <1>8 DEF KeptOneWay
<1>10. PICK K : K = KeptAfter(s, es)
  OBVIOUS
<1>11. K = Keeps(after, es, N, K) /\ K \in [0 .. N -> D]
  BY <1>4, <1>7, <1>9, <1>10
<1>12. /\ K[0] = <<>>
       /\ \A k \in 1 .. N : K[k] = IF Changes(after[k - 1], es[k])
                                   THEN Append(K[k - 1], es[k]) ELSE K[k - 1]
  BY <1>5, <1>11
<1>13. K \in [0 .. Len(es) -> Seq(Event)]
  BY <1>2, <1>7, <1>11
<1> QED  BY <1>1, <1>7, <1>10, <1>12, <1>13

\* The events consume() keeps are events.
LEMMA KeptEvents ==
  ASSUME NEW s \in State, NEW es
  PROVE  es \in Seq(Event) => Kept(s, es) \in Seq(Event)
<1>1. HAVE es \in Seq(Event)
<1>2. Len(es) \in 0 .. Len(es)
  BY <1>1, LenProperties
<1>3. KeptAfter(s, es) \in [0 .. Len(es) -> Seq(Event)]
  BY <1>1, KeptAfterFacts
<1> QED  BY <1>2, <1>3 DEF Kept

-----------------------------------------------------------------------------
(* What the simulation holds of the events.                                *)

\* Every conjunct of TypeOK that BufferTypeOK and QueueBounded leave open.
FrameTypeOK ==
    /\ frame \in Frame
    /\ phase \in Phases
    /\ runs \in Nat
    /\ down \in SUBSET Keys

LEMMA TypesAreAll ==
  /\ IInv /\ FrameTypeOK => TypeOK
  /\ IInv' /\ FrameTypeOK' => TypeOK'
BY DEF IInv, BufferTypeOK, QueueBounded, FrameTypeOK, TypeOK

\* A frame of events, a state and what the last recovery reported.
LEMMA FrameIsFrame ==
  ASSUME NEW es \in Seq(Event), NEW h \in State, NEW b \in BOOLEAN,
         NEW g \in Nat, NEW f \in Nat, NEW l \in Nat
  PROVE  [events |-> es, held |-> h, recovered |-> b, recoveryGeneration |-> g,
          firstLost |-> f, lastLost |-> l] \in Frame
BY DEF Frame

LEMMA InitialIsState == InitialState \in State /\ InitialState.sequence = 0
BY DEF InitialState, State

LEMMA InitSound == Init => InputSound
<1> SUFFICES ASSUME Init PROVE InputSound
  OBVIOUS
<1>1. IInv
  BY InitInvariant
<1>2. TypeOK
  <2>1. frame \in Frame
    <3>1. <<>> \in Seq(Event)
      BY EmptySeq
    <3> QED  BY <3>1, InitialIsState, FrameIsFrame DEF Init
  <2> QED  BY <1>1, <2>1, TypesAreAll DEF Init, FrameTypeOK, Phases
<1>3. FirstRunFresh
  BY DEF Init, FirstRunFresh
<1>4. HeldAgrees
  BY InitialIsState, StateAfterNone DEF Init, HeldAgrees
<1> QED  BY <1>1, <1>2, <1>3, <1>4 DEF InputSound

\* An event is published, or a run begins or ends, and the simulation's frame
\* and the queue are as they were.
LEMMA FrameKeptSound ==
  ASSUME InputSound, IInv',
         UNCHANGED <<mainState, pending, overflowed, frame, taken>>,
         phase' \in Phases, runs' \in Nat, down' \in SUBSET Keys,
         \/ UNCHANGED <<phase, runs>>
         \/ phase' = "Closed" /\ runs' = runs /\ phase # "Closed"
         \/ phase = "Closed" /\ phase' = "Open" /\ runs' = runs + 1
  PROVE  InputSound'
<1>1. runs \in Nat
  BY DEF InputSound, TypeOK
<1>2. TypeOK'
  BY TypesAreAll DEF InputSound, TypeOK, FrameTypeOK
<1>3. FirstRunFresh'
  BY <1>1 DEF InputSound, FirstRunFresh
<1>4. HeldAgrees'
  BY <1>1 DEF InputSound, HeldAgrees
<1> QED  BY <1>2, <1>3, <1>4 DEF InputSound

\* The second lock of publish().
LEMMA PublishIngressSound ==
  ASSUME InputSound, PublishIngress, IInv' PROVE InputSound'
<1>1. UNCHANGED <<frame, taken, phase, runs, down>>
  BY DEF PublishIngress, window
<1>2. TypeOK'
  BY <1>1, TypesAreAll DEF InputSound, TypeOK, FrameTypeOK
<1>3. FirstRunFresh'
  BY <1>1 DEF InputSound, FirstRunFresh
<1>4. HeldAgrees'
  <2>1. CASE overflowed'
    BY <1>1, <2>1 DEF InputSound, HeldAgrees
  <2>2. CASE ~overflowed'
    <3>1. ~overflowed /\ pending' = Append(pending, publishing)
          /\ mainState' = Apply(mainState, publishing)
      BY <2>2 DEF PublishIngress, Remembered, LoseToo, Overflow, Queue
    <3>2. frame.held \in State /\ pending \in Seq(Event) /\ publishing \in Event
      BY DEF InputSound, TypeOK, Frame, PublishIngress
    <3>3. \A s \in State : \A es, e : es \in Seq(Event) /\ e \in Event =>
             StateAfter(s, Append(es, e)) = Apply(StateAfter(s, es), e)
      BY StatesAfterOneMore
    <3>4. StateAfter(frame.held, pending') = Apply(StateAfter(frame.held, pending), publishing)
      BY <3>1, <3>2, <3>3
    <3> QED  BY <1>1, <3>1, <3>4 DEF InputSound, HeldAgrees
  <2> QED  BY <2>1, <2>2
<1> QED  BY <1>2, <1>3, <1>4 DEF InputSound

\* A tick takes the queue, or recovers.
LEMMA ConsumeSound ==
  ASSUME InputSound, Consume, IInv' PROVE InputSound'
<1>1. /\ frame \in Frame /\ mainState \in State /\ pending \in Seq(Event)
      /\ recoveryGeneration \in Nat /\ firstLost \in Nat /\ lastLost \in Nat
      /\ phase = "Ticking" /\ runs \in Nat /\ runs # 0
      /\ frame.held \in State
  BY DEF InputSound, TypeOK, Frame, FirstRunFresh, Consume
<1>2. /\ pending' = <<>> /\ taken' = mainState.sequence /\ overflowed' = FALSE
      /\ UNCHANGED <<mainState, phase, runs, down>>
  BY DEF Consume, Recover, Deliver, InputSound, TypeOK, window
<1>3. /\ frame' \in Frame
      /\ runs <= 1 => frame'.held = mainState
  <2>1. CASE Recover
    <3>1. frame' = [events |-> pending, held |-> mainState, recovered |-> TRUE,
                    recoveryGeneration |-> recoveryGeneration,
                    firstLost |-> firstLost, lastLost |-> lastLost]
      BY <2>1 DEF Recover, RecoveredState
    <3> QED  BY <1>1, <3>1, FrameIsFrame
  <2>2. CASE Deliver
    <3>1. PICK es \in Seq(Event) : es = Kept(frame.held, pending)
      BY <1>1, KeptEvents
    <3>2. PICK hs \in State : hs = StateAfter(frame.held, pending)
      <4>1. Len(pending) \in 0 .. Len(pending)
        BY <1>1, LenProperties
      <4>2. StatesAfter(frame.held, pending) \in [0 .. Len(pending) -> State]
        BY <1>1, StatesAfterFacts
      <4> QED  BY <4>1, <4>2 DEF StateAfter
    <3>3. frame' = [frame EXCEPT !.events = es, !.held = hs, !.recovered = FALSE]
      BY <2>2, <3>1, <3>2 DEF Deliver
    <3>4. frame' \in Frame /\ frame'.held = hs
      BY <1>1, <3>3 DEF Frame
    <3>5. runs <= 1 => hs = mainState
      BY <2>2, <3>2 DEF Deliver, InputSound, HeldAgrees
    <3> QED  BY <3>4, <3>5
  <2> QED  BY <2>1, <2>2 DEF Consume
<1>4. TypeOK'
  BY <1>2, <1>3, TypesAreAll DEF InputSound, TypeOK, FrameTypeOK
<1>5. FirstRunFresh'
  BY <1>1, <1>2 DEF FirstRunFresh
<1>6. HeldAgrees'
  <2>1. StateAfter(mainState, <<>>) = mainState
    BY <1>1, StateAfterNone
  <2> QED  BY <1>2, <1>3, <2>1 DEF HeldAgrees
<1> QED  BY <1>4, <1>5, <1>6 DEF InputSound

\* A run's frame starts from nothing.
LEMMA ResetSound ==
  ASSUME InputSound, IInv', ResetFrame, UNCHANGED <<buffer, taken, runs, window>>,
         phase \in {"Open", "Loading"}, phase' \in {"Loading", "Ticking"}
  PROVE  InputSound'
<1>1. /\ frame \in Frame /\ runs \in Nat /\ runs # 0
      /\ runs = 1 => frame.held = InitialState /\ taken = 0
  BY DEF InputSound, TypeOK, FirstRunFresh
<1>2. frame' \in Frame /\ frame'.held = InitialState
  <2>1. <<>> \in Seq(Event)
    BY EmptySeq
  <2> QED  BY <1>1, <2>1, InitialIsState DEF ResetFrame, Frame
<1>3. UNCHANGED <<mainState, pending, overflowed, taken, runs, down>>
  BY DEF buffer, window
<1>4. TypeOK'
  BY <1>2, <1>3, TypesAreAll DEF InputSound, TypeOK, FrameTypeOK, Phases
<1>5. FirstRunFresh'
  BY <1>1, <1>2, <1>3 DEF FirstRunFresh
<1>6. HeldAgrees'
  <2>1. runs <= 1 => runs = 1
    BY <1>1
  <2>2. runs <= 1 => frame'.held = frame.held
    BY <1>1, <1>2, <2>1
  <2> QED  BY <1>3, <2>2 DEF InputSound, HeldAgrees
<1> QED  BY <1>4, <1>5, <1>6 DEF InputSound

LEMMA NextSound == InputSound /\ [Next]_vars => InputSound'
<1> SUFFICES ASSUME InputSound, [Next]_vars PROVE InputSound'
  OBVIOUS
<1>1. IInv'
  BY NextInvariant DEF InputSound
<1>2. /\ phase \in Phases /\ runs \in Nat /\ runs + 1 \in Nat /\ down \in SUBSET Keys
      /\ "Open" \in Phases /\ "Closed" \in Phases
  BY DEF InputSound, TypeOK, Phases
<1>3. CASE PublishIngress
  BY <1>1, <1>3, PublishIngressSound
<1>4. ASSUME NEW k \in Keys, KeyPressed(k) \/ KeyReleased(k) PROVE InputSound'
  BY <1>1, <1>2, <1>4, FrameKeptSound DEF KeyPressed, KeyReleased, PublishPresentation
<1>5. CASE FocusChanged
  BY <1>1, <1>2, <1>5, FrameKeptSound DEF FocusChanged, PublishPresentation
<1>6. CASE CursorMoved
  BY <1>1, <1>2, <1>6, FrameKeptSound DEF CursorMoved, PublishPresentation, window
<1>7. CASE Open
  BY <1>1, <1>2, <1>7, FrameKeptSound DEF Open, PublishPresentation
<1>8. CASE Consume
  BY <1>1, <1>8, ConsumeSound
<1>9. CASE StartSimulation
  BY <1>1, <1>9, ResetSound DEF StartSimulation
<1>10. CASE BeginTicks
  BY <1>1, <1>10, ResetSound DEF BeginTicks
<1>11. CASE Close
  BY <1>1, <1>2, <1>11, FrameKeptSound DEF Close, buffer
<1>12. CASE UNCHANGED vars
  BY <1>1, <1>2, <1>12, FrameKeptSound DEF vars, buffer, window
<1> QED  BY <1>3, <1>4, <1>5, <1>6, <1>7, <1>8, <1>9, <1>10, <1>11, <1>12 DEF Next

-----------------------------------------------------------------------------
(* What a handler is told: the events kept, applied without those dropped, *)
(* lead to the same states but for their dates.                            *)

SameButDate(a, b) ==
    /\ a.keys = b.keys
    /\ a.look = b.look
    /\ a.focused = b.focused
    /\ a.focusGeneration = b.focusGeneration

\* apply() does not look at the date of the state.
LEMMA DateUnseen ==
  ASSUME NEW a \in State, NEW b \in State, NEW e \in Event, SameButDate(a, b)
  PROVE  /\ Changes(a, e) <=> Changes(b, e)
         /\ SameButDate(Apply(a, e), Apply(b, e))
         /\ ~Changes(b, e) => SameButDate(a, Apply(b, e))
<1>1. Changes(a, e) <=> Changes(b, e)
  BY DEF SameButDate, Changes, Event
<1>2. CASE ~Changes(b, e)
  <2>1. Apply(a, e) = [a EXCEPT !.sequence = e.sequence]
        /\ Apply(b, e) = [b EXCEPT !.sequence = e.sequence]
    BY <1>1, <1>2 DEF Apply
  <2> QED  BY <1>1, <2>1 DEF SameButDate, State
<1>3. CASE Changes(b, e)
  <2>1. Apply(a, e) = Applied(a, e) /\ Apply(b, e) = Applied(b, e)
    BY <1>1, <1>3 DEF Apply
  <2>2. CASE e.kind = "Key"
    <3>1. ASSUME NEW x \in State
          PROVE  /\ Applied(x, e).keys = IF e.pressed THEN x.keys \union e.keys ELSE x.keys \ e.keys
                 /\ Applied(x, e).look = x.look
                 /\ Applied(x, e).focused = x.focused
                 /\ Applied(x, e).focusGeneration = x.focusGeneration
      BY <2>2 DEF Applied, State
    <3>2. SameButDate(Applied(a, e), Applied(b, e))
      BY <3>1 DEF SameButDate
    <3> QED  BY <1>1, <1>3, <2>1, <3>2
  <2>3. CASE e.kind = "Motion"
    <3>1. ASSUME NEW x \in State
          PROVE  /\ Applied(x, e).keys = x.keys
                 /\ Applied(x, e).look = x.look + 1
                 /\ Applied(x, e).focused = x.focused
                 /\ Applied(x, e).focusGeneration = x.focusGeneration
      BY <2>3 DEF Applied, State
    <3>2. SameButDate(Applied(a, e), Applied(b, e))
      BY <3>1 DEF SameButDate
    <3> QED  BY <1>1, <1>3, <2>1, <3>2
  <2>4. CASE e.kind = "Focus"
    BY <1>1, <1>3, <2>1, <2>4 DEF Applied, SameButDate, State
  <2> QED  BY <2>2, <2>3, <2>4 DEF Event
<1> QED  BY <1>2, <1>3

\* An event that changes the state changes more than its date.
LEMMA ChangeShows ==
  ASSUME NEW x \in State, NEW e \in Event, Changes(x, e)
  PROVE  Apply(x, e) # [x EXCEPT !.sequence = e.sequence]
<1> DEFINE dated == [x EXCEPT !.sequence = e.sequence]
<1>1. Apply(x, e) = Applied(x, e)
  BY DEF Apply
<1>2. dated.keys = x.keys /\ dated.look = x.look /\ dated.focused = x.focused
  BY DEF State
<1>3. CASE e.kind = "Key"
  <2>1. Applied(x, e).keys = IF e.pressed THEN x.keys \union e.keys ELSE x.keys \ e.keys
    BY <1>3 DEF Applied, State
  <2>2. e.keys # {} /\ (e.pressed <=> ~(e.keys \subseteq x.keys))
    BY <1>3 DEF Event, Changes
  <2>3. Applied(x, e).keys # x.keys
    BY <2>1, <2>2
  <2> QED  BY <1>1, <1>2, <2>3
<1>4. CASE e.kind = "Motion"
  <2>1. Applied(x, e).look = x.look + 1 /\ x.look \in Nat
    BY <1>4 DEF Applied, State
  <2>2. Applied(x, e).look # x.look
    BY <2>1
  <2> QED  BY <1>1, <1>2, <2>2
<1>5. CASE e.kind = "Focus"
  <2>1. Applied(x, e).focused # x.focused
    BY <1>5 DEF Applied, Changes
  <2> QED  BY <1>1, <1>2, <2>1
<1> QED  BY <1>3, <1>4, <1>5 DEF Event

\* Each of the events changes the state that those before it lead to.
EachChanges(s, events) ==
    \A n \in 1 .. Len(events) : Changes(StatesAfter(s, events)[n - 1], events[n])

\* One more event that changes the state those before it lead to.
LEMMA OneMoreChanges ==
  ASSUME NEW s \in State, NEW ks, NEW e
  PROVE  /\ ks \in Seq(Event) /\ e \in Event
         /\ EachChanges(s, ks) /\ Changes(StateAfter(s, ks), e)
         => EachChanges(s, Append(ks, e))
<1>1. HAVE /\ ks \in Seq(Event) /\ e \in Event
           /\ EachChanges(s, ks) /\ Changes(StateAfter(s, ks), e)
<1>2. PICK more : more = Append(ks, e)
  OBVIOUS
<1>3. PICK N \in Nat : N = Len(ks) /\ N + 1 = Len(more) /\ more[N + 1] = e
                       /\ \A k \in 1 .. N : more[k] = ks[k]
  BY <1>1, <1>2, LenProperties, AppendProperties
<1>4. \A k \in 0 .. N : StatesAfter(s, more)[k] = StatesAfter(s, ks)[k]
  BY <1>1, <1>2, <1>3, StatesAfterOneMore
<1>5. Changes(StatesAfter(s, ks)[N], e) /\ \A n \in 1 .. N : Changes(StatesAfter(s, ks)[n - 1], ks[n])
  BY <1>1, <1>3 DEF StateAfter, EachChanges
<1>6. ASSUME NEW n \in 1 .. N + 1
      PROVE  Changes(StatesAfter(s, more)[n - 1], more[n])
  <2>1. StatesAfter(s, more)[n - 1] = StatesAfter(s, ks)[n - 1]
    BY <1>4
  <2>2. CASE n = N + 1
    <3>1. n - 1 = N
      BY <2>2
    <3> QED  BY <1>3, <1>5, <2>1, <2>2, <3>1
  <2>3. CASE n \in 1 .. N
    BY <1>3, <1>5, <2>1, <2>3
  <2> QED  BY <2>2, <2>3
<1>7. \A n \in 1 .. Len(more) : Changes(StatesAfter(s, more)[n - 1], more[n])
  BY <1>3, <1>6
<1> QED  BY <1>2, <1>7 DEF EachChanges

\* Every event consume() keeps changes what those it kept before it lead to.
LEMMA KeptChange ==
  ASSUME NEW s \in State, NEW es
  PROVE  es \in Seq(Event) => EachChanges(s, Kept(s, es))
<1>1. \A N \in Nat : \A T : 0 \in T /\ (\A k \in 1 .. N : k - 1 \in T => k \in T)
                            => \A k \in 0 .. N : k \in T
  BY EveryNumber
<1>2. \A ks, e : /\ ks \in Seq(Event) /\ e \in Event
                 /\ EachChanges(s, ks) /\ Changes(StateAfter(s, ks), e)
                 => EachChanges(s, Append(ks, e))
  BY OneMoreChanges
<1>3. \A ks, e : ks \in Seq(Event) /\ e \in Event =>
         /\ StateAfter(s, Append(ks, e)) = Apply(StateAfter(s, ks), e)
         /\ StateAfter(s, ks) \in State
  BY StatesAfterOneMore
<1>4. HAVE es \in Seq(Event)
<1>5. PICK N \in Nat : N = Len(es) /\ \A k \in 1 .. N : es[k] \in Event
  BY <1>4, LenProperties, ElementOfSeq
<1>6. PICK A : A = StatesAfter(s, es)
  OBVIOUS
<1>7. PICK K : K = KeptAfter(s, es)
  OBVIOUS
<1>8. /\ \A k \in 0 .. N : A[k] \in State
      /\ A[0] = s
      /\ \A k \in 1 .. N : A[k] = Apply(A[k - 1], es[k])
  BY <1>4, <1>5, <1>6, StatesAfterFacts
<1>9. /\ \A k \in 0 .. N : K[k] \in Seq(Event)
      /\ K[0] = <<>>
      /\ \A k \in 1 .. N : K[k] = IF Changes(A[k - 1], es[k])
                                  THEN Append(K[k - 1], es[k]) ELSE K[k - 1]
  BY <1>4, <1>5, <1>6, <1>7, KeptAfterFacts
<1> DEFINE So(n) == SameButDate(StateAfter(s, K[n]), A[n]) /\ EachChanges(s, K[n])
<1>10. So(0)
  <2>1. StateAfter(s, <<>>) = s
    BY StateAfterNone
  <2>2. EachChanges(s, <<>>)
    BY EmptySeq DEF EachChanges
  <2> QED  BY <1>8, <1>9, <2>1, <2>2 DEF SameButDate
<1>11. ASSUME NEW n \in 1 .. N, So(n - 1) PROVE So(n)
  <2>1. /\ n - 1 \in 0 .. N
        /\ es[n] \in Event /\ A[n - 1] \in State /\ K[n - 1] \in Seq(Event)
        /\ A[n] = Apply(A[n - 1], es[n])
    <3>1. n - 1 \in 0 .. N
      OBVIOUS
    <3> QED  BY <1>5, <1>8, <1>9, <3>1
  <2>2. /\ StateAfter(s, K[n - 1]) \in State
        /\ StateAfter(s, Append(K[n - 1], es[n])) = Apply(StateAfter(s, K[n - 1]), es[n])
    BY <1>3, <2>1
  <2>3. /\ Changes(StateAfter(s, K[n - 1]), es[n]) <=> Changes(A[n - 1], es[n])
        /\ SameButDate(Apply(StateAfter(s, K[n - 1]), es[n]), A[n])
        /\ ~Changes(A[n - 1], es[n]) => SameButDate(StateAfter(s, K[n - 1]), A[n])
    BY <1>11, <2>1, <2>2, DateUnseen
  <2>4. CASE Changes(A[n - 1], es[n])
    <3>1. K[n] = Append(K[n - 1], es[n])
      BY <1>9, <2>4
    <3>2. EachChanges(s, K[n])
      BY <1>2, <1>11, <2>1, <2>3, <2>4, <3>1
    <3> QED  BY <2>2, <2>3, <3>1, <3>2
  <2>5. CASE ~Changes(A[n - 1], es[n])
    <3>1. K[n] = K[n - 1]
      BY <1>9, <2>5
    <3> QED  BY <1>11, <2>3, <2>5, <3>1
  <2> QED  BY <2>4, <2>5
<1> DEFINE T == {n \in 0 .. N : So(n)}
<1> HIDE DEF So
<1>12. 0 \in T /\ \A k \in 1 .. N : k - 1 \in T => k \in T
  BY <1>10, <1>11
<1> HIDE DEF T
<1>13. \A k \in 0 .. N : k \in T
  BY <1>1, <1>12
<1>14. EachChanges(s, K[N])
  BY <1>13 DEF T, So
<1> QED  BY <1>5, <1>7, <1>14 DEF Kept

-----------------------------------------------------------------------------

\* The queue never outgrows the capacity the constructor reserved.
THEOREM QueueBoundedCorrect == Spec => []QueueBounded
<1>1. IInv => QueueBounded
  BY DEF IInv
<1> QED  BY <1>1, Invariant, PTL

\* Between two ticks no event is lost without being in the reported interval.
THEOREM AccountedCorrect == Spec => []Accounted
<1>1. IInv => Accounted
  BY DEF IInv
<1> QED  BY <1>1, Invariant, PTL

\* Every overflow reaches exactly one tick.
THEOREM OverflowReportedOnceCorrect == Spec => []OverflowReportedOnce
<1>1. IInv => OverflowReportedOnce
  BY DEF IInv
<1> QED  BY <1>1, Invariant, PTL

\* The render thread reads a state at most one event ahead, and never behind.
THEOREM PresentationLeadsCorrect == Spec => []PresentationLeads
<1>1. IInv => PresentationLeads
  BY DEF IInv
<1> QED  BY <1>1, Invariant, PTL

\* Each tick of the first run holds what the events it was given lead to, and
\* what waits leads on to the main thread's state; every type is kept.
THEOREM InputIsSound == Spec => []InputSound
BY InitSound, NextSound, PTL DEF Spec

\* A handler is told of changes only: no event of a frame repeats what the
\* events before it, and the frame before, already led to.
THEOREM OnlyChangesCorrect == Spec => OnlyChanges
<1> DEFINE Told ==
        Consume /\ ~frame'.recovered =>
            \A n \in 1 .. Len(frame'.events) :
                Apply(StatesAfter(frame.held, frame'.events)[n - 1], frame'.events[n])
                    # [StatesAfter(frame.held, frame'.events)[n - 1]
                           EXCEPT !.sequence = frame'.events[n].sequence]
<1>1. InputSound /\ [Next]_vars => [Told]_vars
  <2>1. SUFFICES ASSUME InputSound, Consume, ~frame'.recovered,
                        NEW n \in 1 .. Len(frame'.events)
                 PROVE  Apply(StatesAfter(frame.held, frame'.events)[n - 1], frame'.events[n])
                            # [StatesAfter(frame.held, frame'.events)[n - 1]
                                   EXCEPT !.sequence = frame'.events[n].sequence]
    OBVIOUS
  <2>2. frame \in Frame /\ frame.held \in State /\ pending \in Seq(Event)
    <3>1. frame \in Frame /\ pending \in Seq(Event)
      BY <2>1 DEF InputSound, TypeOK
    <3> QED  BY <3>1 DEF Frame
  <2>3. PICK ks : ks = Kept(frame.held, pending)
    OBVIOUS
  <2>4. frame'.events = ks
    <3>1. Deliver
      BY <2>1 DEF Consume, Recover
    <3> QED  BY <2>2, <2>3, <3>1 DEF Deliver, Frame
  <2>5. ks \in Seq(Event) /\ EachChanges(frame.held, ks)
    BY <2>2, <2>3, KeptEvents, KeptChange
  <2>6. n \in 1 .. Len(ks) /\ n - 1 \in 0 .. Len(ks) /\ ks[n] \in Event
    BY <2>1, <2>4, <2>5, LenProperties, ElementOfSeq
  <2>7. StatesAfter(frame.held, ks)[n - 1] \in State
    BY <2>2, <2>5, <2>6, StatesAfterFacts
  <2>8. Changes(StatesAfter(frame.held, ks)[n - 1], ks[n])
    BY <2>5, <2>6 DEF EachChanges
  <2> QED  BY <2>4, <2>6, <2>7, <2>8, ChangeShows
<1> QED  BY <1>1, InputIsSound, PTL DEF Spec, OnlyChanges

-----------------------------------------------------------------------------
(* The input on the screen.                                                *)

\* An input that is not older in either of the numbers Newer compares.
NotNewer(a, b) ==
    /\ a.sequence <= b.sequence
    /\ a.focusGeneration <= b.focusGeneration

\* A state that the same events never take past the other: where the focus
\* differs, the next event that changes it may count for this one alone.
Behind(s, m) ==
    /\ s.sequence <= m.sequence
    /\ s.focusGeneration + (IF s.focused = m.focused THEN 0 ELSE 1) <= m.focusGeneration

\* Nothing is ahead of the main thread: not what the queue will make of the
\* frame, nor of a frame that a new run resets, nor the inputs on their way.
InputLed ==
    /\ Behind(InitialState, mainState)
    /\ NotNewer(frame.held, mainState)
    /\ ~overflowed => /\ Behind(StateAfter(InitialState, pending), mainState)
                      /\ Behind(StateAfter(frame.held, pending), mainState)
    /\ command # None => command \in State /\ NotNewer(command, mainState)
    /\ acquired # None => acquired \in State /\ NotNewer(acquired, mainState)
    /\ shown.sequence \in Nat /\ shown.focusGeneration \in Nat
    /\ NotNewer(shown, presentationState)

LEMMA StateFields ==
  ASSUME NEW s \in State
  PROVE  s.sequence \in Nat /\ s.focusGeneration \in Nat /\ s.focused \in BOOLEAN
BY DEF State

\* What apply() does to the focus and to the date.
LEMMA ApplyFocus ==
  ASSUME NEW s \in State, NEW e \in Event
  PROVE  /\ Apply(s, e) \in State
         /\ Apply(s, e).sequence = e.sequence
         /\ e.kind # "Focus" \/ s.focused = e.pressed =>
               /\ Apply(s, e).focused = s.focused
               /\ Apply(s, e).focusGeneration = s.focusGeneration
         /\ e.kind = "Focus" /\ s.focused # e.pressed =>
               /\ Apply(s, e).focused = e.pressed
               /\ Apply(s, e).focusGeneration = s.focusGeneration + 1
<1>1. Apply(s, e) \in State /\ Apply(s, e).sequence = e.sequence
  BY ApplyState
<1>2. CASE ~Changes(s, e)
  BY <1>1, <1>2 DEF Apply, Changes, State, Event
<1>3. CASE Changes(s, e) /\ e.kind = "Key"
  BY <1>1, <1>3 DEF Apply, Applied, State, Event
<1>4. CASE Changes(s, e) /\ e.kind = "Motion"
  BY <1>1, <1>4 DEF Apply, Applied, State, Event
<1>5. CASE Changes(s, e) /\ e.kind = "Focus"
  BY <1>1, <1>5 DEF Apply, Applied, Changes, State, Event
<1> QED  BY <1>2, <1>3, <1>4, <1>5 DEF Event

\* An event keeps a state behind.
LEMMA ApplyBehind ==
  ASSUME NEW s \in State, NEW m \in State, NEW e \in Event, Behind(s, m)
  PROVE  Behind(Apply(s, e), Apply(m, e))
<1>1. /\ s.focusGeneration \in Nat /\ m.focusGeneration \in Nat
      /\ s.focused \in BOOLEAN /\ m.focused \in BOOLEAN /\ e.pressed \in BOOLEAN
      /\ e.sequence \in Nat
      /\ s.focusGeneration + (IF s.focused = m.focused THEN 0 ELSE 1) <= m.focusGeneration
  BY StateFields DEF Behind, Event
<1>2. Apply(s, e).sequence = e.sequence /\ Apply(m, e).sequence = e.sequence
  BY ApplyFocus
<1>3. CASE e.kind # "Focus"
  BY <1>1, <1>2, <1>3, ApplyFocus DEF Behind
<1>4. CASE e.kind = "Focus" /\ s.focused = e.pressed /\ m.focused = e.pressed
  BY <1>1, <1>2, <1>4, ApplyFocus DEF Behind
<1>5. CASE e.kind = "Focus" /\ s.focused # e.pressed /\ m.focused = e.pressed
  BY <1>1, <1>2, <1>5, ApplyFocus DEF Behind
<1>6. CASE e.kind = "Focus" /\ s.focused = e.pressed /\ m.focused # e.pressed
  BY <1>1, <1>2, <1>6, ApplyFocus DEF Behind
<1>7. CASE e.kind = "Focus" /\ s.focused # e.pressed /\ m.focused # e.pressed
  BY <1>1, <1>2, <1>7, ApplyFocus DEF Behind
<1> QED  BY <1>3, <1>4, <1>5, <1>6, <1>7

\* The next event does not make a state older.
LEMMA ApplyNotNewer ==
  ASSUME NEW s \in State, NEW e \in Event, e.sequence = s.sequence + 1
  PROVE  NotNewer(s, Apply(s, e))
<1>1. Apply(s, e).focusGeneration \in {s.focusGeneration, s.focusGeneration + 1}
      /\ Apply(s, e).sequence = s.sequence + 1
  BY ApplyFocus
<1> QED  BY <1>1, StateFields DEF NotNewer

\* The states of the buffer's two locks, dated.
LEMMA TwoStates ==
  ASSUME IInv
  PROVE  /\ mainState \in State /\ presentationState \in State
         /\ NotNewer(mainState, presentationState)
         /\ publishing = NoEvent => presentationState = mainState
         /\ publishing # NoEvent =>
              publishing \in Event /\ presentationState = Apply(mainState, publishing)
              /\ publishing.sequence = mainState.sequence + 1
<1>1. mainState \in State /\ presentationState \in State /\ publishing \in Event \union {NoEvent}
  BY DEF IInv, BufferTypeOK
<1>2. CASE publishing = NoEvent
  BY <1>1, <1>2, StateFields DEF IInv, PresentationLeads, NotNewer
<1>3. CASE publishing # NoEvent
  BY <1>1, <1>3, ApplyNotNewer DEF IInv, PresentationLeads, Numbered
<1> QED  BY <1>1, <1>2, <1>3

LEMMA NotNewerTransitive ==
  ASSUME NEW a, NEW b \in State, NEW c \in State,
         a.sequence \in Nat, a.focusGeneration \in Nat,
         NotNewer(a, b), NotNewer(b, c)
  PROVE  NotNewer(a, c)
BY StateFields DEF NotNewer

-----------------------------------------------------------------------------

LEMMA InitLed == PInit => InputLed
<1> SUFFICES ASSUME PInit PROVE InputLed
  OBVIOUS
<1>1. InitialState \in State /\ StateAfter(InitialState, <<>>) = InitialState
  BY InitialIsState, StateAfterNone
<1>2. NotNewer(InitialState, InitialState) /\ Behind(InitialState, InitialState)
  BY DEF InitialState, NotNewer, Behind
<1>3. shown = DateOf(InitialState) /\ presentationState = InitialState
  BY DEF PInit, Init
<1>4. shown.sequence \in Nat /\ shown.focusGeneration \in Nat /\ NotNewer(shown, presentationState)
  BY <1>2, <1>3 DEF DateOf, InitialState, NotNewer
<1> QED  BY <1>1, <1>2, <1>4 DEF PInit, Init, InputLed

\* The first lock of publish(): only the state for presentation moves on.
LEMMA PublishLed ==
  ASSUME InputLed, IInv, NEW e \in Event, PublishPresentation(e), e.sequence = sequence + 1,
         frame' = frame,
         command' = command \/ command' = None, acquired' = acquired, shown' = shown
  PROVE  InputLed'
<1>1. presentationState = mainState /\ presentationState.sequence = sequence
      /\ presentationState \in State
  BY TwoStates DEF PublishPresentation, IInv, Numbered
<1>2. presentationState' = Apply(presentationState, e)
      /\ UNCHANGED <<mainState, pending, overflowed>>
  BY DEF PublishPresentation
<1>3. NotNewer(presentationState, presentationState') /\ presentationState' \in State
  BY <1>1, <1>2, ApplyNotNewer, ApplyFocus
<1>4. NotNewer(shown, presentationState')
  BY <1>1, <1>3, NotNewerTransitive DEF InputLed
<1> QED  BY <1>2, <1>4 DEF InputLed

\* The second lock: the main thread's state moves on, and what waits with it.
LEMMA IngressLed ==
  ASSUME InputLed, InputSound, IInv', PublishIngress, UNCHANGED renderVars
  PROVE  InputLed'
<1> DEFINE e == publishing
<1>1. /\ e \in Event /\ e.sequence = mainState.sequence + 1 /\ mainState \in State
      /\ frame.held \in State /\ pending \in Seq(Event)
      /\ InitialState \in State
  BY TwoStates, InitialIsState DEF InputSound, TypeOK, Frame, PublishIngress
<1>2. /\ mainState' = Apply(mainState, e)
      /\ UNCHANGED <<presentationState, frame, command, acquired, shown>>
      /\ ~overflowed' => ~overflowed /\ pending' = Append(pending, e)
  BY DEF PublishIngress, Remembered, LoseToo, Overflow, Queue, renderVars
<1>3. NotNewer(mainState, mainState') /\ mainState' \in State
  BY <1>1, <1>2, ApplyNotNewer, ApplyFocus
<1>4. \A x \in State : NotNewer(x, mainState) => NotNewer(x, mainState')
  BY <1>1, <1>3, NotNewerTransitive, StateFields
<1>5. Behind(InitialState, mainState')
  <2>1. /\ InitialState.sequence = 0 /\ InitialState.focusGeneration = 0
        /\ InitialState.focused = FALSE
    BY DEF InitialState
  <2>2. Behind(InitialState, mainState)
    BY DEF InputLed
  <2>3. \/ /\ mainState'.focused = mainState.focused
           /\ mainState'.focusGeneration = mainState.focusGeneration
        \/ mainState'.focusGeneration = mainState.focusGeneration + 1
    <3>1. CASE e.kind = "Focus" /\ mainState.focused # e.pressed
      BY <1>1, <1>2, <3>1, ApplyFocus
    <3>2. CASE e.kind # "Focus" \/ mainState.focused = e.pressed
      BY <1>1, <1>2, <3>2, ApplyFocus
    <3> QED  BY <3>1, <3>2
  <2>4. mainState'.sequence \in Nat /\ mainState.focusGeneration \in Nat
    BY <1>1, <1>3, StateFields
  <2> QED  BY <2>1, <2>2, <2>3, <2>4 DEF Behind
<1>6. ASSUME ~overflowed', NEW s \in State, Behind(StateAfter(s, pending), mainState)
      PROVE  Behind(StateAfter(s, pending'), mainState')
  <2>1. /\ StateAfter(s, pending) \in State
        /\ StateAfter(s, Append(pending, e)) = Apply(StateAfter(s, pending), e)
    <3>1. \A es, v : es \in Seq(Event) /\ v \in Event =>
             /\ StateAfter(s, Append(es, v)) = Apply(StateAfter(s, es), v)
             /\ StateAfter(s, es) \in State
      BY StatesAfterOneMore
    <3> QED  BY <1>1, <3>1
  <2> QED  BY <1>1, <1>2, <1>6, <2>1, ApplyBehind
<1>7. ~overflowed' => /\ Behind(StateAfter(InitialState, pending'), mainState')
                      /\ Behind(StateAfter(frame.held, pending'), mainState')
  BY <1>1, <1>2, <1>6 DEF InputLed
<1> QED  BY <1>1, <1>2, <1>4, <1>5, <1>7 DEF InputLed

\* A tick takes what waits.
LEMMA ConsumeLed ==
  ASSUME InputLed, InputSound, Consume, UNCHANGED renderVars
  PROVE  InputLed'
<1>1. mainState \in State /\ frame.held \in State /\ pending \in Seq(Event)
      /\ frame \in Frame
  BY DEF InputSound, TypeOK, Frame
<1>2. /\ UNCHANGED <<mainState, presentationState, command, acquired, shown>>
      /\ pending' = <<>>
  BY DEF Consume, renderVars
<1>3. /\ NotNewer(frame'.held, mainState) /\ frame'.held \in State
      /\ Behind(frame'.held, mainState)
  <2>1. CASE Recover
    <3>1. frame'.held = mainState
      BY <2>1 DEF Recover, RecoveredState
    <3> QED  BY <1>1, <3>1, StateFields DEF NotNewer, Behind
  <2>2. CASE Deliver
    <3>1. frame'.held = StateAfter(frame.held, pending)
      BY <1>1, <2>2 DEF Deliver, Frame
    <3>2. PICK s \in State : s = StateAfter(frame.held, pending)
      <4>1. Len(pending) \in 0 .. Len(pending)
        BY <1>1, LenProperties
      <4>2. StatesAfter(frame.held, pending) \in [0 .. Len(pending) -> State]
        BY <1>1, StatesAfterFacts
      <4> QED  BY <4>1, <4>2 DEF StateAfter
    <3>3. Behind(s, mainState)
      BY <2>2, <3>2 DEF Deliver, InputLed
    <3>4. NotNewer(s, mainState)
      BY <1>1, <3>3, StateFields DEF Behind, NotNewer
    <3> QED  BY <3>1, <3>2, <3>3, <3>4
  <2> QED  BY <2>1, <2>2 DEF Consume
<1>4. StateAfter(InitialState, <<>>) = InitialState /\ StateAfter(frame'.held, <<>>) = frame'.held
  BY <1>3, InitialIsState, StateAfterNone
<1> QED  BY <1>2, <1>3, <1>4 DEF InputLed

\* A run's frame starts from nothing, whatever the last run left in the queue.
LEMMA ResetLed ==
  ASSUME InputLed, InputSound, ResetFrame, UNCHANGED buffer, UNCHANGED renderVars
  PROVE  InputLed'
<1>1. frame'.held = InitialState
  BY DEF InputSound, TypeOK, Frame, ResetFrame
<1>2. UNCHANGED <<mainState, presentationState, pending, overflowed, command, acquired, shown>>
  BY DEF buffer, renderVars
<1>3. NotNewer(InitialState, mainState)
  BY StateFields DEF InitialState, NotNewer, InputSound, TypeOK
<1> QED  BY <1>1, <1>2, <1>3 DEF InputLed

\* A frame is drawn: the buffer's state is never the older one.
LEMMA DrawnInput ==
  ASSUME InputLed, InputSound
  PROVE  FrameInput = presentationState
<1>1. CASE acquired = None
  BY <1>1 DEF FrameInput
<1>2. CASE acquired # None
  <2>1. mainState \in State /\ presentationState \in State
        /\ NotNewer(mainState, presentationState)
    BY TwoStates DEF InputSound
  <2>2. acquired \in State /\ NotNewer(acquired, mainState)
    BY <1>2 DEF InputLed
  <2>3. NotNewer(acquired, presentationState)
    BY <2>1, <2>2, NotNewerTransitive, StateFields
  <2>4. Newer(presentationState, acquired)
    BY <2>1, <2>2, <2>3, StateFields DEF Newer, NotNewer
  <2> QED  BY <2>4 DEF FrameInput
<1> QED  BY <1>1, <1>2

LEMMA FrameLed ==
  ASSUME InputLed, InputSound, Snap \/ AcquireSnapshot \/ DrawFrame
  PROVE  InputLed'
<1>1. UNCHANGED <<mainState, presentationState, pending, overflowed, frame>>
  BY DEF Snap, AcquireSnapshot, DrawFrame, vars, buffer
<1>2. frame.held \in State /\ presentationState \in State
  BY DEF InputSound, TypeOK, Frame
<1>3. CASE Snap \/ AcquireSnapshot
  BY <1>1, <1>2, <1>3 DEF Snap, AcquireSnapshot, InputLed
<1>4. CASE DrawFrame
  <2>1. shown' = DateOf(presentationState)
    BY <1>4, DrawnInput DEF DrawFrame
  <2>2. /\ shown'.sequence \in Nat /\ shown'.focusGeneration \in Nat
        /\ NotNewer(shown', presentationState)
    BY <1>2, <2>1, StateFields DEF DateOf, NotNewer
  <2> QED  BY <1>1, <1>4, <2>2 DEF DrawFrame, InputLed
<1> QED  BY <1>3, <1>4

\* What the composition does to the buffer is what the buffer does alone.
LEMMA PresentedStep ==
  /\ PInit => Init
  /\ [PNext]_allVars => [Next]_vars
<1>1. PInit => Init
  BY DEF PInit
<1>2. [PNext]_allVars => [Next]_vars
  BY DEF PNext, InputStep, Snap, AcquireSnapshot, DrawFrame, OpenClient, CloseClient, Next,
       allVars
<1> QED  BY <1>1, <1>2

LEMMA PNextLed == InputSound /\ InputLed /\ [PNext]_allVars => InputLed'
<1> SUFFICES ASSUME InputSound, InputLed, [PNext]_allVars PROVE InputLed'
  OBVIOUS
<1>1. IInv /\ IInv' /\ sequence \in Nat
  BY PresentedStep, NextInvariant DEF InputSound, TypeOK
<1>2. CASE PublishIngress /\ UNCHANGED renderVars
  BY <1>1, <1>2, IngressLed
<1>3. ASSUME NEW k \in Keys, KeyPressed(k) \/ KeyReleased(k), UNCHANGED renderVars PROVE InputLed'
  BY <1>1, <1>3, NextEvents, PublishLed DEF KeyPressed, KeyReleased, renderVars
<1>4. CASE FocusChanged /\ UNCHANGED renderVars
  <2>1. Focus(~focus) \in Event /\ Focus(~focus).sequence = sequence + 1
    BY <1>1, NextEvents DEF InputSound, TypeOK
  <2> QED  BY <1>1, <1>4, <2>1, PublishLed DEF FocusChanged, renderVars
<1>5. CASE CursorMoved /\ UNCHANGED renderVars
  BY <1>1, <1>5, NextEvents, PublishLed DEF CursorMoved, renderVars
<1>6. CASE Consume /\ UNCHANGED renderVars
  BY <1>6, ConsumeLed
<1>7. CASE (StartSimulation \/ BeginTicks) /\ UNCHANGED renderVars
  BY <1>7, ResetLed DEF StartSimulation, BeginTicks
<1>8. CASE Snap \/ AcquireSnapshot \/ DrawFrame
  BY <1>8, FrameLed
<1>9. CASE OpenClient
  BY <1>1, <1>9, NextEvents, PublishLed DEF OpenClient, Open
<1>10. CASE CloseClient
  BY <1>10 DEF CloseClient, Close, buffer, InputLed
<1>11. CASE UNCHANGED allVars
  BY <1>11 DEF allVars, vars, buffer, renderVars, InputLed
<1> QED  BY <1>2, <1>3, <1>4, <1>5, <1>6, <1>7, <1>8, <1>9, <1>10, <1>11 DEF PNext,
     InputStep

\* The composition drives the buffer as any window and any App may.
THEOREM PresentedBuffer == PSpec => Spec
BY PresentedStep, PTL DEF PSpec, Spec

LEMMA PresentedInvariant == PSpec => [](InputSound /\ InputLed)
<1>1. PSpec => []InputSound
  BY PresentedBuffer, InputIsSound, PTL
<1>2. PSpec /\ []InputSound => []InputLed
  BY InitLed, PNextLed, PTL DEF PSpec
<1> QED  BY <1>1, <1>2, PTL

\* The simulation's input is never shown: the buffer's is always as new.
THEOREM PresentationShown == PSpec => [](FrameInput = presentationState)
<1>1. InputSound /\ InputLed => FrameInput = presentationState
  BY DrawnInput
<1> QED  BY <1>1, PresentedInvariant, PTL

\* The input on the screen never goes back to an older one, across ticks,
\* overflows, changes of focus and runs.
THEOREM ShownNeverOlderCorrect == PSpec => ShownNeverOlder
<1>1. InputSound /\ InputLed /\ [PNext]_allVars =>
        [DrawFrame => /\ shown'.sequence >= shown.sequence
                      /\ shown'.focusGeneration >= shown.focusGeneration]_allVars
  <2>1. SUFFICES ASSUME InputSound, InputLed, DrawFrame
                 PROVE  /\ shown'.sequence >= shown.sequence
                        /\ shown'.focusGeneration >= shown.focusGeneration
    OBVIOUS
  <2>2. shown' = DateOf(presentationState) /\ presentationState \in State
    BY <2>1, DrawnInput DEF DrawFrame, InputSound, TypeOK
  <2>3. shown.sequence \in Nat /\ shown.focusGeneration \in Nat /\ NotNewer(shown, presentationState)
    BY <2>1 DEF InputLed
  <2> QED  BY <2>2, <2>3, StateFields DEF DateOf, NotNewer
<1> QED  BY <1>1, PresentedInvariant, PTL DEF PSpec, ShownNeverOlder

-----------------------------------------------------------------------------
(* Time, from the simulation's clock to the screen.                        *)

LEMMA FlowConstants ==
  /\ FixedDelta \in Nat \ {0} /\ MaxElapsed \in Nat \ {0}
  /\ MaxTime \in Nat /\ MaxRuns \in Nat
BY FlowSettings DEF Flow!SettingsAssumption

\* A number divided: what is left over is less than the divisor.
LEMMA Division ==
  ASSUME NEW x \in Nat, NEW d \in Nat \ {0}
  PROVE  /\ x \div d \in Nat
         /\ x - (x \div d) * d \in 0 .. d - 1
OBVIOUS

\* More ticks take no less time.
LEMMA MoreTicks ==
  ASSUME NEW m \in Nat, NEW n \in Nat, NEW d \in Nat \ {0}
  PROVE  /\ m * d \in Nat
         /\ (m + n) * d = m * d + n * d
         /\ m <= n => m * d <= n * d
         /\ m < n => m * d < n * d
<1>1. m * d \in Nat /\ n * d \in Nat /\ (m + n) * d = m * d + n * d
  OBVIOUS
<1>2. \A k \in Nat : k * d \in Nat /\ (k # 0 => k * d > 0)
  OBVIOUS
<1>3. m <= n => n * d = m * d + (n - m) * d /\ n - m \in Nat
  OBVIOUS
<1> QED  BY <1>1, <1>2, <1>3

\* A clamped number is between its ends, and does not fall as the number grows.
LEMMA Clamped ==
  ASSUME NEW x \in Int, NEW y \in Int, NEW low \in Nat, NEW high \in Nat, low <= high, x <= y
  PROVE  /\ Flow!Clamp(x, low, high) \in Nat /\ Flow!Clamp(y, low, high) \in Nat
         /\ low <= Flow!Clamp(x, low, high) /\ Flow!Clamp(x, low, high) <= high
         /\ Flow!Clamp(x, low, high) <= Flow!Clamp(y, low, high)
BY DEF Flow!Clamp

\* The inductive invariant: TimelineSound but for the jumps that nobody sees,
\* which the agreement of the snapshots rules out.
FlowInv ==
    /\ Flow!TypeOK
    /\ Flow!NoDrift
    /\ Flow!HistoryOrdered
    /\ Flow!TicksPast /\ Flow!ContextDated
    /\ Flow!SnapshotsDated /\ Flow!SnapshotsAgree
    /\ Flow!ScreenReached

LEMMA FlowInit == Flow!Init => FlowInv
<1> SUFFICES ASSUME Flow!Init PROVE FlowInv
  OBVIOUS
<1> USE FlowConstants DEF Flow!Init
<1>1. Flow!TypeOK
  BY DEF Flow!TypeOK, Flow!Simulations, Flow!Renderers
<1>2. Flow!NoDrift /\ Flow!ContextDated
  BY DEF Flow!NoDrift, Flow!ContextDated, Flow!Ticking
<1>3. Flow!TicksPast
  BY DEF Flow!TicksPast
<1>4. Flow!Snapshots = {}
  BY DEF Flow!Snapshots
<1>5. Flow!SnapshotsDated /\ Flow!SnapshotsAgree
  BY <1>4 DEF Flow!SnapshotsDated, Flow!SnapshotsAgree
<1>6. Flow!HistoryOrdered /\ Flow!ScreenReached
  BY DEF Flow!HistoryOrdered, Flow!ScreenReached
<1> QED  BY <1>1, <1>2, <1>3, <1>5, <1>6 DEF FlowInv

\* Snapshots that agree show no unannounced jump.
LEMMA AgreedNeverJump ==
  ASSUME Flow!TypeOK, Flow!SnapshotsAgree
  PROVE  Flow!NoUnannouncedJump
<1> SUFFICES ASSUME mailbox # None, Flow!Jumps(mailbox) PROVE FALSE
  BY DEF Flow!NoUnannouncedJump
<1>1. /\ mailbox \in Flow!Snapshot /\ current \in Flow!Snapshot
      /\ mailbox \in Flow!Snapshots /\ current \in Flow!Snapshots
      /\ mailbox.timeline = current.timeline /\ mailbox.tick > current.tick
      /\ mailbox.tickTime <= current.tickTime
  BY DEF Flow!Jumps, Flow!TypeOK, Flow!Snapshots
<1>2. /\ mailbox.tick \in Nat /\ current.tick \in Nat
      /\ mailbox.tickTime \in Nat /\ current.tickTime \in Nat
  BY <1>1 DEF Flow!Snapshot
<1>3. mailbox.tickTime + current.tick * FixedDelta = current.tickTime + mailbox.tick * FixedDelta
  BY <1>1 DEF Flow!SnapshotsAgree
<1>4. current.tick * FixedDelta < mailbox.tick * FixedDelta
      /\ current.tick * FixedDelta \in Nat /\ mailbox.tick * FixedDelta \in Nat
  BY <1>1, <1>2, MoreTicks, FlowConstants
<1> QED  BY <1>1, <1>2, <1>3, <1>4

(***************************************************************************)
(* Steps that leave the snapshots alone.                                   *)
(***************************************************************************)
LEMMA SnapshotsUnmoved ==
  ASSUME FlowInv, Flow!TypeOK', Flow!Snapshots' \subseteq Flow!Snapshots,
         UNCHANGED <<previous, current>>,
         \/ UNCHANGED <<origin, tick, timeline>>
         \/ timeline' > timeline /\ origin + tick * FixedDelta <= origin' + tick' * FixedDelta
         \/ timeline' = timeline /\ origin' = origin /\ tick' >= tick
  PROVE  Flow!SnapshotsDated' /\ Flow!SnapshotsAgree' /\ Flow!HistoryOrdered'
<1>1. \A x \in Flow!Snapshots : x \in Flow!Snapshot
  BY DEF FlowInv, Flow!TypeOK, Flow!Snapshots
<1>2. /\ origin \in Nat /\ tick \in Nat /\ timeline \in Nat
      /\ origin' \in Nat /\ tick' \in Nat /\ timeline' \in Nat
  BY DEF FlowInv, Flow!TypeOK
<1>3. origin + tick * FixedDelta <= origin' + tick' * FixedDelta
      /\ origin + tick * FixedDelta \in Nat /\ origin' + tick' * FixedDelta \in Nat
  <2>1. /\ tick * FixedDelta \in Nat /\ tick' * FixedDelta \in Nat
        /\ tick <= tick' => tick * FixedDelta <= tick' * FixedDelta
    BY <1>2, MoreTicks, FlowConstants
  <2> QED  BY <1>2, <2>1
<1>4. ASSUME NEW x \in Flow!Snapshots
      PROVE  /\ x.timeline <= timeline'
             /\ x.tickTime <= origin' + tick' * FixedDelta
             /\ x.timeline = timeline' =>
                  x.tick <= tick' /\ x.tickTime = origin' + x.tick * FixedDelta
  <2>1. x.timeline \in Nat /\ x.tick \in Nat /\ x.tickTime \in Nat
    BY <1>1, <1>4 DEF Flow!Snapshot
  <2>2. /\ x.timeline <= timeline
        /\ x.tickTime <= origin + tick * FixedDelta
        /\ x.timeline = timeline =>
              x.tick <= tick /\ x.tickTime = origin + x.tick * FixedDelta
    BY <1>4 DEF FlowInv, Flow!SnapshotsDated
  <2>3. x.tickTime <= origin' + tick' * FixedDelta
    BY <1>3, <2>1, <2>2
  <2>4. \/ timeline' > timeline
        \/ timeline' = timeline /\ origin' = origin /\ tick' >= tick
    BY <1>2
  <2> QED  BY <1>2, <2>1, <2>2, <2>3, <2>4
<1>5. Flow!SnapshotsDated'
  BY <1>4 DEF Flow!SnapshotsDated
<1>6. Flow!SnapshotsAgree'
  BY DEF FlowInv, Flow!SnapshotsAgree
<1>7. Flow!HistoryOrdered'
  BY DEF FlowInv, Flow!HistoryOrdered
<1> QED  BY <1>5, <1>6, <1>7

(***************************************************************************)
(* What the context holds is published.                                    *)
(***************************************************************************)
LEMMA SnapshotPublished ==
  ASSUME FlowInv, mailbox' = Flow!Published, tickTime = origin + tick * FixedDelta,
         UNCHANGED <<origin, tick, timeline, previous, current>>
  PROVE  Flow!SnapshotsDated' /\ Flow!SnapshotsAgree' /\ Flow!HistoryOrdered'
<1> DEFINE new == Flow!Published
<1>1. /\ origin \in Nat /\ tick \in Nat /\ timeline \in Nat /\ tickTime \in Nat
      /\ tick * FixedDelta \in Nat
  BY MoreTicks, FlowConstants DEF FlowInv, Flow!TypeOK
<1>2. new.timeline = timeline /\ new.tick = tick /\ new.tickTime = tickTime
  BY DEF Flow!Published
<1>3. \A x \in Flow!Snapshots' : x = new \/ x \in Flow!Snapshots
  BY DEF Flow!Snapshots
<1>4. \A x \in Flow!Snapshots : /\ x.timeline \in Nat /\ x.tick \in Nat /\ x.tickTime \in Nat
                                 /\ x.tick * FixedDelta \in Nat
  <2>1. \A x \in Flow!Snapshots : x \in Flow!Snapshot
    BY DEF FlowInv, Flow!TypeOK, Flow!Snapshots
  <2> QED  BY <2>1, MoreTicks, FlowConstants DEF Flow!Snapshot
<1>5. \A x \in Flow!Snapshots :
        /\ x.timeline <= timeline
        /\ x.tickTime <= origin + tick * FixedDelta
        /\ x.timeline = timeline =>
              x.tick <= tick /\ x.tickTime = origin + x.tick * FixedDelta
  BY DEF FlowInv, Flow!SnapshotsDated
<1> HIDE DEF new
<1>6. Flow!SnapshotsDated'
  BY <1>1, <1>2, <1>3, <1>5 DEF Flow!SnapshotsDated
<1>7. Flow!SnapshotsAgree'
  <2>1. \A x \in Flow!Snapshots :
          /\ x.timeline = new.timeline =>
                x.tickTime + new.tick * FixedDelta = new.tickTime + x.tick * FixedDelta
          /\ x.timeline < new.timeline => x.tickTime <= new.tickTime
          /\ ~(new.timeline < x.timeline)
    BY <1>1, <1>2, <1>4, <1>5
  <2>2. \A x, y \in Flow!Snapshots :
          /\ x.timeline = y.timeline =>
                x.tickTime + y.tick * FixedDelta = y.tickTime + x.tick * FixedDelta
          /\ x.timeline < y.timeline => x.tickTime <= y.tickTime
    BY DEF FlowInv, Flow!SnapshotsAgree
  <2>3. ASSUME NEW x \in Flow!Snapshots', NEW y \in Flow!Snapshots'
        PROVE  /\ x.timeline = y.timeline =>
                     x.tickTime + y.tick * FixedDelta = y.tickTime + x.tick * FixedDelta
               /\ x.timeline < y.timeline => x.tickTime <= y.tickTime
    <3>1. CASE x = new /\ y = new
      BY <1>1, <1>2, <3>1
    <3>2. CASE x = new /\ y \in Flow!Snapshots
      BY <2>1, <3>2
    <3>3. CASE x \in Flow!Snapshots /\ y = new
      BY <2>1, <3>3
    <3>4. CASE x \in Flow!Snapshots /\ y \in Flow!Snapshots
      BY <2>2, <3>4
    <3> QED  BY <1>3, <3>1, <3>2, <3>3, <3>4
  <2> QED  BY <2>3 DEF Flow!SnapshotsAgree
<1>8. Flow!HistoryOrdered'
  BY DEF FlowInv, Flow!HistoryOrdered
<1> QED  BY <1>6, <1>7, <1>8

\* The screen is as it was, and time has not gone back.
LEMMA ScreenUnmoved ==
  ASSUME FlowInv, Flow!TypeOK', UNCHANGED <<previous, current, sShown>>,
         Flow!NextStart <= Flow!NextStart'
  PROVE  Flow!ScreenReached'
<1>1. PICK a \in Int, b \in Int :
        a = Flow!NextStart - FixedDelta /\ b = Flow!NextStart' - FixedDelta /\ a <= b
  <2>1. PICK m \in Nat, n \in Nat : m = Flow!NextStart /\ n = Flow!NextStart'
    BY DEF FlowInv, Flow!TypeOK, Flow!NextStart
  <2>2. m - FixedDelta \in Int /\ n - FixedDelta \in Int
    BY FlowConstants
  <2>3. m <= n
    BY <2>1
  <2>4. m - FixedDelta <= n - FixedDelta
    BY <2>3, FlowConstants
  <2> QED  BY <2>1, <2>2, <2>4
<1>2. CASE sShown # None /\ previous # None
  <2>1. /\ previous.tickTime \in Nat /\ current.tickTime \in Nat /\ sShown \in Nat
        /\ previous.tickTime <= current.tickTime
        /\ sShown <= Flow!Clamp(a, previous.tickTime, current.tickTime)
    BY <1>1, <1>2 DEF FlowInv, Flow!TypeOK, Flow!Snapshot, Flow!HistoryOrdered,
         Flow!ScreenReached
  <2>2. /\ Flow!Clamp(a, previous.tickTime, current.tickTime)
             <= Flow!Clamp(b, previous.tickTime, current.tickTime)
        /\ Flow!Clamp(a, previous.tickTime, current.tickTime) \in Nat
        /\ Flow!Clamp(b, previous.tickTime, current.tickTime) \in Nat
    <3>1. PICK low \in Nat, high \in Nat :
             low = previous.tickTime /\ high = current.tickTime /\ low <= high
      BY <2>1
    <3>2. a <= b
      BY <1>1
    <3>3. /\ Flow!Clamp(a, low, high) <= Flow!Clamp(b, low, high)
          /\ Flow!Clamp(a, low, high) \in Nat /\ Flow!Clamp(b, low, high) \in Nat
      BY <3>1, <3>2, Clamped
    <3> QED  BY <3>1, <3>3
  <2>3. sShown <= Flow!Clamp(b, previous.tickTime, current.tickTime)
    BY <2>1, <2>2
  <2> QED  BY <1>1, <2>3 DEF FlowInv, Flow!ScreenReached
<1>3. CASE sShown = None \/ previous = None
  BY <1>3 DEF FlowInv, Flow!ScreenReached
<1> QED  BY <1>2, <1>3

(***************************************************************************)
(* advance(): what is dropped shifts the origin by as much, and what is    *)
(* counted is in ticks, or is still owed.                                  *)
(***************************************************************************)
LEMMA AdvanceFlow == ASSUME FlowInv, Flow!Advance PROVE FlowInv'
<1> DEFINE counted == Flow!Counted
           due == Flow!TicksDue
<1>1. /\ now \in Nat /\ sampled \in Nat /\ sampled <= now /\ accumulator \in Nat
      /\ origin \in Nat /\ tick \in Nat /\ timeline \in Nat /\ tickTime \in Nat
      /\ accumulator \in 0 .. FixedDelta - 1 /\ now <= MaxTime
      /\ origin + tick * FixedDelta + accumulator = sampled
      /\ tick * FixedDelta \in Nat
  BY MoreTicks, FlowConstants
  DEF FlowInv, Flow!TypeOK, Flow!NoDrift, Flow!Ticking, Flow!Advance
<1>2. /\ counted \in Nat
      /\ origin' \in Nat /\ timeline' \in Nat
      /\ origin' - origin + counted = accumulator + (now - sampled)
      /\ \/ timeline' > timeline /\ origin' >= origin
         \/ timeline' = timeline /\ origin' = origin
  BY <1>1, FlowConstants
  DEF Flow!Advance, Flow!Counted, Flow!Stalled, Flow!Elapsed, Flow!ShiftedOrigin,
      Flow!AdvancedTimeline
<1>3. due \in Nat /\ counted - due * FixedDelta \in 0 .. FixedDelta - 1 /\ due * FixedDelta \in Nat
  BY <1>2, Division, MoreTicks, FlowConstants DEF Flow!TicksDue
<1>4. /\ tick' = tick + due /\ accumulator' = counted - due * FixedDelta /\ sampled' = now
      /\ tickTime' = IF due > 0 THEN origin' + tick' * FixedDelta ELSE tickTime
      /\ simulation' = IF due > 0 THEN "Publish" ELSE "Loop"
      /\ UNCHANGED <<now, sRuns, mailbox, renderer, started, previous, current, sShown>>
  BY DEF Flow!Advance, Flow!TickTime, Flow!history
<1> HIDE DEF counted, due
<1>5. tick' \in Nat /\ tick' >= tick /\ tick' * FixedDelta = tick * FixedDelta + due * FixedDelta
      /\ tick' * FixedDelta \in Nat
  <2>1. (tick + due) * FixedDelta = tick * FixedDelta + due * FixedDelta
    BY <1>1, <1>3, MoreTicks, FlowConstants
  <2> QED  BY <1>1, <1>3, <1>4, <2>1
<1>6. origin' + tick' * FixedDelta + accumulator' = now
  <2>1. PICK x \in Nat, d \in Nat : x = tick * FixedDelta /\ d = due * FixedDelta
    BY <1>1, <1>3
  <2>2. tick' * FixedDelta = x + d /\ accumulator' = counted - d
    BY <1>4, <1>5, <2>1
  <2>3. origin + x + accumulator = sampled
    BY <1>1, <2>1
  <2>4. origin' + (x + d) + (counted - d) = now
    <3>1. /\ origin \in Nat /\ origin' \in Nat /\ counted \in Nat /\ accumulator \in Nat
          /\ now \in Nat /\ sampled \in Nat
          /\ origin' - origin + counted = accumulator + (now - sampled)
      BY <1>1, <1>2
    <3>2. PICK o \in Nat, p \in Nat, c \in Nat, a \in Nat, n \in Nat, q \in Nat :
             o = origin /\ p = origin' /\ c = counted /\ a = accumulator /\ n = now /\ q = sampled
      BY <3>1
    <3>3. p - o + c = a + (n - q) /\ o + x + a = q
      BY <2>3, <3>1, <3>2
    <3>4. p + (x + d) + (c - d) = n
      BY <3>3
    <3> QED  BY <3>2, <3>4
  <2>5. PICK z \in Nat, e \in Int : z = tick' * FixedDelta /\ e = accumulator'
    BY <1>3, <1>4, <1>5
  <2>6. origin' + z + e = now
    BY <2>2, <2>4, <2>5, <1>1, <1>2
  <2> QED  BY <2>5, <2>6
<1>7. Flow!TypeOK'
  <2>1. tickTime' \in Nat
    BY <1>1, <1>2, <1>4, <1>5
  <2> QED  BY <1>1, <1>2, <1>3, <1>4, <1>5, <2>1 DEF FlowInv, Flow!TypeOK, Flow!Simulations
<1>8. Flow!NoDrift' /\ Flow!TicksPast' /\ Flow!ContextDated'
  <2>1. origin' + tick' * FixedDelta <= now
    BY <1>1, <1>2, <1>3, <1>4, <1>5, <1>6
  <2> QED  BY <1>4, <1>6, <2>1 DEF Flow!NoDrift, Flow!TicksPast, Flow!ContextDated
<1>9. Flow!SnapshotsDated' /\ Flow!SnapshotsAgree' /\ Flow!HistoryOrdered'
  <2>1. Flow!Snapshots' \subseteq Flow!Snapshots
    BY <1>4 DEF Flow!Snapshots
  <2>2. origin + tick * FixedDelta <= origin' + tick' * FixedDelta
    BY <1>1, <1>2, <1>3, <1>5
  <2> QED  BY <1>2, <1>4, <1>5, <1>7, <2>1, <2>2, SnapshotsUnmoved
<1>10. Flow!ScreenReached'
  <2>1. Flow!NextStart' = Flow!NextStart /\ Flow!NextStart \in Nat
    BY <1>4 DEF Flow!NextStart, FlowInv, Flow!TypeOK
  <2> QED  BY <1>4, <1>7, <2>1, ScreenUnmoved
<1> QED  BY <1>7, <1>8, <1>9, <1>10 DEF FlowInv

\* restartTimeline(), when the thread starts and when the ticks begin.
LEMMA RestartFlow ==
  ASSUME FlowInv, Flow!RestartTimeline, simulation' \in {"Startup", "Loop"},
         simulation' = "Loop" => sampled' = now,
         simulation' = "Startup" => sampled' = sampled,
         UNCHANGED <<now, sRuns, mailbox, renderer, started, previous, current, sShown>>
  PROVE  FlowInv'
<1>1. /\ now \in Nat /\ timeline \in Nat /\ sampled \in 0 .. now
      /\ origin + tick * FixedDelta <= now
  BY DEF FlowInv, Flow!TypeOK, Flow!TicksPast
<1>2. accumulator' = 0 /\ origin' = now /\ tick' = 0 /\ tickTime' = now /\ timeline' = timeline + 1
  BY DEF Flow!RestartTimeline
<1>3. tick' * FixedDelta = 0
  BY <1>2, FlowConstants
<1>4. Flow!TypeOK'
  BY <1>1, <1>2, FlowConstants DEF FlowInv, Flow!TypeOK, Flow!Simulations
<1>5. Flow!NoDrift' /\ Flow!TicksPast' /\ Flow!ContextDated'
  BY <1>1, <1>2, <1>3 DEF Flow!NoDrift, Flow!Ticking, Flow!TicksPast, Flow!ContextDated
<1>6. Flow!SnapshotsDated' /\ Flow!SnapshotsAgree' /\ Flow!HistoryOrdered'
  <2>1. Flow!Snapshots' \subseteq Flow!Snapshots
    BY DEF Flow!Snapshots
  <2>2. timeline' > timeline /\ origin + tick * FixedDelta <= origin' + tick' * FixedDelta
    BY <1>1, <1>2, <1>3
  <2> QED  BY <1>4, <2>1, <2>2, SnapshotsUnmoved
<1>7. Flow!ScreenReached'
  <2>1. Flow!NextStart' = Flow!NextStart /\ Flow!NextStart \in Nat
    BY DEF Flow!NextStart, FlowInv, Flow!TypeOK
  <2> QED  BY <1>4, <2>1, ScreenUnmoved
<1> QED  BY <1>4, <1>5, <1>6, <1>7 DEF FlowInv

\* publishSnapshot(), before the startup load and after ticks.
LEMMA PublishFlow ==
  ASSUME FlowInv, Flow!PublishStartup \/ Flow!PublishTick PROVE FlowInv'
<1>1. /\ mailbox' = Flow!Published /\ simulation' \in {"Loading", "Loop"}
      /\ simulation' = "Loop" => simulation = "Publish"
      /\ simulation \in {"Startup", "Publish"}
      /\ UNCHANGED <<now, sRuns, accumulator, origin, tick, tickTime, timeline, sampled,
                     renderer, started, previous, current, sShown>>
  BY DEF Flow!PublishStartup, Flow!PublishTick, Flow!time, Flow!history
<1>2. tickTime = origin + tick * FixedDelta
  BY <1>1 DEF FlowInv, Flow!ContextDated
<1>3. Flow!TypeOK'
  <2>1. Flow!Published \in Flow!Snapshot
    BY DEF FlowInv, Flow!TypeOK, Flow!Published, Flow!Snapshot
  <2> QED  BY <1>1, <2>1 DEF FlowInv, Flow!TypeOK, Flow!Simulations
<1>4. Flow!SnapshotsDated' /\ Flow!SnapshotsAgree' /\ Flow!HistoryOrdered'
  BY <1>1, <1>2, SnapshotPublished
<1>5. Flow!NoDrift' /\ Flow!TicksPast' /\ Flow!ContextDated'
  BY <1>1 DEF FlowInv, Flow!NoDrift, Flow!Ticking, Flow!TicksPast, Flow!ContextDated
<1>6. Flow!ScreenReached'
  <2>1. Flow!NextStart' = Flow!NextStart /\ Flow!NextStart \in Nat
    BY <1>1 DEF Flow!NextStart, FlowInv, Flow!TypeOK
  <2> QED  BY <1>1, <1>3, <2>1, ScreenUnmoved
<1> QED  BY <1>3, <1>4, <1>5, <1>6 DEF FlowInv

\* The clock moves on.
LEMMA TimeFlow == ASSUME FlowInv, Flow!TimePasses PROVE FlowInv'
<1>1. /\ now' = now + 1 /\ now < MaxTime /\ now \in Nat
      /\ UNCHANGED <<sRuns, simulation, accumulator, origin, tick, tickTime, timeline, sampled,
                     mailbox, renderer, started, previous, current, sShown>>
  BY DEF Flow!TimePasses, Flow!time, Flow!history, FlowInv, Flow!TypeOK
<1>2. Flow!TypeOK'
  BY <1>1, FlowConstants DEF FlowInv, Flow!TypeOK
<1>3. Flow!NoDrift' /\ Flow!ContextDated'
  BY <1>1 DEF FlowInv, Flow!NoDrift, Flow!Ticking, Flow!ContextDated
<1>4. Flow!TicksPast'
  <2>1. PICK x \in Nat : x = origin + tick * FixedDelta
    BY MoreTicks, FlowConstants DEF FlowInv, Flow!TypeOK
  <2>2. x <= now /\ x = origin' + tick' * FixedDelta
    BY <1>1, <2>1 DEF FlowInv, Flow!TicksPast
  <2>3. x <= now'
    BY <1>1, <2>2
  <2> QED  BY <2>2, <2>3 DEF Flow!TicksPast
<1>5. Flow!SnapshotsDated' /\ Flow!SnapshotsAgree' /\ Flow!HistoryOrdered'
  <2>1. Flow!Snapshots' \subseteq Flow!Snapshots
    BY <1>1 DEF Flow!Snapshots
  <2> QED  BY <1>1, <1>2, <2>1, SnapshotsUnmoved
<1>6. Flow!ScreenReached'
  <2>1. Flow!NextStart <= Flow!NextStart'
    BY <1>1 DEF Flow!NextStart, FlowInv, Flow!TypeOK
  <2> QED  BY <1>1, <1>2, <2>1, ScreenUnmoved
<1> QED  BY <1>2, <1>3, <1>4, <1>5, <1>6 DEF FlowInv

\* The simulation thread ends, the client starts, or a frame begins.
LEMMA ThreadsFlow ==
  ASSUME FlowInv, Flow!EndSimulation \/ Flow!StartClient \/ Flow!BeginFrame PROVE FlowInv'
<1>1. /\ UNCHANGED <<now, accumulator, origin, tick, tickTime, timeline, sampled,
                     previous, current, sShown>>
      /\ mailbox' \in {mailbox, None}
      /\ simulation' \in {simulation, "Ended"}
      /\ \/ UNCHANGED <<sRuns, renderer, started>>
         \/ sRuns < MaxRuns /\ sRuns' = sRuns + 1 /\ renderer' = "Idle" /\ started' = started
             /\ renderer = "Off"
         \/ sRuns' = sRuns /\ renderer = "Idle" /\ renderer' = "Frame" /\ started' = now
  BY DEF Flow!EndSimulation, Flow!StartClient, Flow!BeginFrame, Flow!time, Flow!history
<1>2. Flow!TypeOK'
  BY <1>1, FlowConstants DEF FlowInv, Flow!TypeOK, Flow!Simulations, Flow!Renderers
<1>3. Flow!NoDrift' /\ Flow!ContextDated' /\ Flow!TicksPast'
  BY <1>1 DEF FlowInv, Flow!NoDrift, Flow!Ticking, Flow!ContextDated, Flow!TicksPast
<1>4. Flow!SnapshotsDated' /\ Flow!SnapshotsAgree' /\ Flow!HistoryOrdered'
  <2>1. Flow!Snapshots' \subseteq Flow!Snapshots
    BY <1>1 DEF Flow!Snapshots
  <2> QED  BY <1>1, <1>2, <2>1, SnapshotsUnmoved
<1>5. Flow!ScreenReached'
  <2>1. Flow!NextStart <= Flow!NextStart'
    BY <1>1 DEF Flow!NextStart, FlowInv, Flow!TypeOK
  <2> QED  BY <1>1, <1>2, <2>1, ScreenUnmoved
<1> QED  BY <1>2, <1>3, <1>4, <1>5 DEF FlowInv

\* Client::stop() takes the mailbox and the history.
LEMMA StopFlow == ASSUME FlowInv, Flow!StopClient PROVE FlowInv'
<1>1. /\ UNCHANGED <<now, sRuns, accumulator, origin, tick, tickTime, timeline, sampled>>
      /\ mailbox' = None /\ previous' = None /\ current' = None /\ sShown' = None
      /\ simulation' = "Off" /\ renderer' = "Off" /\ started' = 0
  BY DEF Flow!StopClient, Flow!time
<1>2. Flow!TypeOK'
  BY <1>1, FlowConstants DEF FlowInv, Flow!TypeOK, Flow!Simulations, Flow!Renderers
<1>3. Flow!NoDrift' /\ Flow!ContextDated' /\ Flow!TicksPast'
  BY <1>1 DEF FlowInv, Flow!NoDrift, Flow!Ticking, Flow!ContextDated, Flow!TicksPast
<1>4. Flow!SnapshotsDated' /\ Flow!SnapshotsAgree'
  <2>1. Flow!Snapshots' = {}
    BY <1>1 DEF Flow!Snapshots
  <2> QED  BY <2>1 DEF Flow!SnapshotsDated, Flow!SnapshotsAgree
<1>5. Flow!HistoryOrdered' /\ Flow!ScreenReached'
  BY <1>1 DEF Flow!HistoryOrdered, Flow!ScreenReached
<1> QED  BY <1>2, <1>3, <1>4, <1>5 DEF FlowInv

(***************************************************************************)
(* A frame is drawn: the history it acquires, and the time it shows.       *)
(***************************************************************************)

\* What acquire() makes of the history is in order, and reaches the time that
\* is on the screen.
LEMMA AcquiredHistory ==
  ASSUME FlowInv, Flow!DrawFrame
  PROVE  /\ previous' \in Flow!Snapshot \union {None} /\ current' \in Flow!Snapshot \union {None}
         /\ {previous', current'} \subseteq Flow!Snapshots \union {None}
         /\ Flow!HistoryOrdered'
         /\ sShown # None =>
              /\ current' # None
              /\ sShown <= current'.tickTime
              /\ previous' # None =>
                    \/ sShown <= previous'.tickTime
                    \/ previous' = previous /\ current' = current
<1> DEFINE s == mailbox
<1>1. /\ mailbox \in Flow!Snapshot \union {None}
      /\ previous \in Flow!Snapshot \union {None} /\ current \in Flow!Snapshot \union {None}
      /\ sShown \in Nat \union {None}
  BY DEF FlowInv, Flow!TypeOK
<1>2. /\ Flow!HistoryOrdered
      /\ sShown # None => current # None /\ sShown <= current.tickTime
  BY DEF FlowInv, Flow!ScreenReached
<1>3. CASE mailbox = None \/ (current # None /\ ~(s.timeline > current.timeline) /\ Flow!Stale(s))
  <2>1. previous' = previous /\ current' = current
    BY <1>3 DEF Flow!DrawFrame, Flow!Acquired, Flow!history
  <2> QED  BY <1>1, <1>2, <2>1 DEF Flow!HistoryOrdered, Flow!Snapshots
<1>4. CASE mailbox # None /\ current = None
  <2>1. previous' = None /\ current' = s
    BY <1>4 DEF Flow!DrawFrame, Flow!Acquired
  <2> QED  BY <1>1, <1>2, <1>4, <2>1 DEF Flow!HistoryOrdered, Flow!Snapshots
<1>5. CASE mailbox # None /\ current # None /\ s.timeline > current.timeline
  <2>0. s.timeline \in Nat /\ current.timeline \in Nat
    BY <1>1, <1>5 DEF Flow!Snapshot
  <2>5. ~Flow!Stale(s)
    BY <1>5, <2>0 DEF Flow!Stale
  <2>1. previous' = None /\ current' = s
    <3>1. Flow!Acquired(s) = <<None, s>>
      BY <1>5, <2>5 DEF Flow!Acquired
    <3> QED  BY <1>5, <3>1 DEF Flow!DrawFrame
  <2>2. s \in Flow!Snapshots /\ current \in Flow!Snapshots
        /\ s.timeline \in Nat /\ current.timeline \in Nat
        /\ s.tickTime \in Nat /\ current.tickTime \in Nat
    BY <1>1, <1>5 DEF Flow!Snapshots, Flow!Snapshot
  <2>3. current.tickTime <= s.tickTime
    BY <1>5, <2>2 DEF FlowInv, Flow!SnapshotsAgree
  <2>4. sShown # None => sShown <= s.tickTime
    BY <1>1, <1>2, <2>2, <2>3
  <2> QED  BY <1>1, <1>5, <2>1, <2>2, <2>4 DEF Flow!HistoryOrdered
<1>6. CASE mailbox # None /\ current # None /\ ~(s.timeline > current.timeline) /\ ~Flow!Stale(s)
  <2>1. /\ s \in Flow!Snapshots /\ current \in Flow!Snapshots
        /\ s.timeline \in Nat /\ current.timeline \in Nat
        /\ s.tick \in Nat /\ current.tick \in Nat
        /\ s.tickTime \in Nat /\ current.tickTime \in Nat
    BY <1>1, <1>6 DEF Flow!Snapshots, Flow!Snapshot
  <2>2. s.timeline = current.timeline /\ s.tick > current.tick
    BY <1>6, <2>1 DEF Flow!Stale
  <2>3. ~Flow!Jumps(s)
    BY <1>6, AgreedNeverJump DEF FlowInv, Flow!NoUnannouncedJump
  <2>4. previous' = current /\ current' = s
    BY <1>6, <2>3 DEF Flow!DrawFrame, Flow!Acquired
  <2>5. s.tickTime > current.tickTime
    BY <1>6, <2>1, <2>2, <2>3 DEF Flow!Jumps
  <2>6. sShown # None => sShown <= s.tickTime
    BY <1>1, <1>2, <2>1, <2>5
  <2> QED  BY <1>1, <1>2, <1>6, <2>1, <2>2, <2>4, <2>5, <2>6 DEF Flow!HistoryOrdered
<1> QED  BY <1>3, <1>4, <1>5, <1>6

\* The time a frame shows is not before the one on the screen, nor in the
\* future, and the next frame reaches it.
LEMMA DrawnTime ==
  ASSUME FlowInv, Flow!DrawFrame
  PROVE  /\ sShown' \in Nat \union {None}
         /\ sShown # None => sShown' # None /\ sShown' >= sShown
         /\ sShown' # None => sShown' <= now
         /\ Flow!ScreenReached'
<1>1. /\ previous' \in Flow!Snapshot \union {None} /\ current' \in Flow!Snapshot \union {None}
      /\ {previous', current'} \subseteq Flow!Snapshots \union {None}
      /\ previous' # None => current' # None /\ previous'.tickTime < current'.tickTime
      /\ sShown # None =>
           /\ current' # None
           /\ sShown <= current'.tickTime
           /\ previous' # None =>
                 \/ sShown <= previous'.tickTime
                 \/ previous' = previous /\ current' = current
  BY AcquiredHistory DEF Flow!HistoryOrdered
<1>2. /\ started \in Nat /\ now \in Nat /\ started <= now /\ now' = now
      /\ sShown \in Nat \union {None}
      /\ renderer = "Frame" /\ renderer' = "Idle"
      /\ sShown' = Flow!TimeShown(previous', current')
  BY DEF FlowInv, Flow!TypeOK, Flow!DrawFrame
<1>3. PICK a \in Int, b \in Int :
         a = started - FixedDelta /\ b = now - FixedDelta /\ a <= b
  BY <1>2, FlowConstants
<1>4. \A x \in Flow!Snapshot : x.tickTime \in Nat
  BY DEF Flow!Snapshot
<1>5. \A x \in Flow!Snapshots : x.tickTime <= now
  <2>1. PICK y \in Nat : y = origin + tick * FixedDelta
    BY MoreTicks, FlowConstants DEF FlowInv, Flow!TypeOK
  <2>2. y <= now
    BY <2>1 DEF FlowInv, Flow!TicksPast
  <2>3. \A x \in Flow!Snapshots : x.tickTime <= y /\ x.tickTime \in Nat
    BY <1>4, <2>1 DEF FlowInv, Flow!SnapshotsDated, Flow!Snapshots, Flow!TypeOK
  <2> QED  BY <1>2, <2>2, <2>3
<1>6. CASE current' = None
  BY <1>1, <1>2, <1>6 DEF Flow!TimeShown, Flow!ScreenReached
<1>7. CASE current' # None /\ previous' = None
  <2>1. sShown' = current'.tickTime /\ current'.tickTime \in Nat
    BY <1>1, <1>2, <1>4, <1>7 DEF Flow!TimeShown
  <2>2. sShown' <= now
    BY <1>1, <1>5, <1>7, <2>1
  <2>3. Flow!ScreenReached'
    BY <1>7, <2>1 DEF Flow!ScreenReached
  <2> QED  BY <1>1, <2>1, <2>2, <2>3, NoneAssumption
<1>8. CASE current' # None /\ previous' # None
  <2>1. PICK low \in Nat, high \in Nat :
           low = previous'.tickTime /\ high = current'.tickTime /\ low < high
    BY <1>1, <1>4, <1>8
  <2>2. sShown' = Flow!Clamp(a, low, high)
    BY <1>2, <1>3, <1>8, <2>1 DEF Flow!TimeShown, Flow!Blend
  <2>3. /\ Flow!Clamp(a, low, high) \in Nat /\ Flow!Clamp(b, low, high) \in Nat
        /\ low <= Flow!Clamp(a, low, high) /\ Flow!Clamp(a, low, high) <= high
        /\ Flow!Clamp(a, low, high) <= Flow!Clamp(b, low, high)
    <3>1. low <= high /\ a <= b
      BY <1>3, <2>1
    <3>2. b <= b /\ low \in Nat /\ high \in Nat
      BY <1>3, <2>1
    <3> HIDE <2>1
    <3> QED  BY <3>1, <3>2, <1>3, Clamped
  <2>4. sShown' <= now
    <3>1. high <= now
      BY <1>1, <1>5, <1>8, <2>1
    <3> QED  BY <1>2, <2>2, <2>3, <3>1
  <2>5. Flow!ScreenReached'
    <3>1. Flow!NextStart' = now
      BY <1>2 DEF Flow!NextStart
    <3>2. sShown' <= current'.tickTime
          /\ sShown' <= Flow!Clamp(now - FixedDelta, previous'.tickTime, current'.tickTime)
      BY <1>3, <2>1, <2>2, <2>3
    <3> QED  BY <1>8, <3>1, <3>2 DEF Flow!ScreenReached
  <2>6. sShown # None => sShown' >= sShown
    <3>1. CASE sShown # None /\ sShown <= previous'.tickTime
      BY <1>2, <2>1, <2>2, <2>3, <3>1
    <3>2. CASE sShown # None /\ previous' = previous /\ current' = current
      <4>1. Flow!NextStart = started
        BY <1>2 DEF Flow!NextStart
      <4>2. sShown <= Flow!Clamp(started - FixedDelta, previous.tickTime, current.tickTime)
        BY <1>8, <3>2, <4>1 DEF FlowInv, Flow!ScreenReached
      <4> QED  BY <1>3, <2>1, <2>2, <3>2, <4>2
    <3> QED  BY <1>1, <1>8, <3>1, <3>2
  <2> QED  BY <2>2, <2>3, <2>4, <2>5, <2>6, NoneAssumption
<1> QED  BY <1>6, <1>7, <1>8

LEMMA DrawFlow == ASSUME FlowInv, Flow!DrawFrame PROVE FlowInv'
<1>1. UNCHANGED <<now, sRuns, simulation, accumulator, origin, tick, tickTime, timeline, sampled,
                  mailbox>>
      /\ renderer' = "Idle" /\ started' = 0
  BY DEF Flow!DrawFrame, Flow!time
<1>2. Flow!TypeOK'
  BY <1>1, AcquiredHistory, DrawnTime, FlowConstants DEF FlowInv, Flow!TypeOK,
       Flow!Renderers
<1>3. Flow!NoDrift' /\ Flow!ContextDated' /\ Flow!TicksPast'
  BY <1>1 DEF FlowInv, Flow!NoDrift, Flow!Ticking, Flow!ContextDated, Flow!TicksPast
<1>4. Flow!SnapshotsDated' /\ Flow!SnapshotsAgree'
  <2>1. Flow!Snapshots' \subseteq Flow!Snapshots
    BY <1>1, AcquiredHistory DEF Flow!Snapshots
  <2> QED  BY <1>1, <2>1 DEF FlowInv, Flow!SnapshotsDated, Flow!SnapshotsAgree
<1> QED  BY <1>2, <1>3, <1>4, AcquiredHistory, DrawnTime DEF FlowInv

\* Nothing moves.
LEMMA IdleFlow == ASSUME FlowInv, UNCHANGED flowVars PROVE FlowInv'
BY DEF FlowInv, flowVars, Flow!TypeOK, Flow!NoDrift, Flow!Ticking, Flow!HistoryOrdered,
       Flow!TicksPast, Flow!ContextDated, Flow!Snapshots, Flow!SnapshotsDated,
       Flow!SnapshotsAgree, Flow!ScreenReached, Flow!NextStart, Flow!Clamp

LEMMA FlowNext == FlowInv /\ [Flow!Next]_flowVars => FlowInv'
<1> SUFFICES ASSUME FlowInv, [Flow!Next]_flowVars PROVE FlowInv'
  OBVIOUS
<1>1. CASE Flow!TimePasses
  BY <1>1, TimeFlow
<1>2. CASE Flow!StartSimulation \/ Flow!BeginTicks
  BY <1>2, RestartFlow DEF Flow!StartSimulation, Flow!BeginTicks, Flow!history
<1>3. CASE Flow!PublishStartup \/ Flow!PublishTick
  BY <1>3, PublishFlow
<1>4. CASE Flow!Advance
  BY <1>4, AdvanceFlow
<1>5. CASE Flow!EndSimulation \/ Flow!StartClient \/ Flow!BeginFrame
  BY <1>5, ThreadsFlow
<1>6. CASE Flow!DrawFrame
  BY <1>6, DrawFlow
<1>7. CASE Flow!StopClient
  BY <1>7, StopFlow
<1>8. CASE UNCHANGED flowVars
  BY <1>8, IdleFlow
<1> QED  BY <1>1, <1>2, <1>3, <1>4, <1>5, <1>6, <1>7, <1>8 DEF Flow!Next

LEMMA FlowInvariant == Flow!Spec => []FlowInv
<1>1. UNCHANGED Flow!vars <=> UNCHANGED flowVars
  BY DEF flowVars, Flow!vars, Flow!time, Flow!history
<1>2. FlowInv /\ [Flow!Next]_(Flow!vars) => FlowInv'
  BY <1>1, FlowNext
<1> QED  BY FlowInit, <1>2, PTL DEF Flow!Spec

-----------------------------------------------------------------------------

\* Simulated time follows real time over every stall and restart, no snapshot
\* changes its timeline without saying so, and the history blends two of one
\* timeline, the older first.
THEOREM TimelineIsSound == Flow!Spec => []TimelineSound
<1>1. FlowInv => TimelineSound
  BY AgreedNeverJump DEF FlowInv, TimelineSound, Flow!TimelineSound
<1> QED  BY <1>1, FlowInvariant, PTL

\* Within a session of the client the time on the screen never runs backward,
\* and it is never ahead of the clock.
THEOREM ShownForwardCorrect == Flow!Spec => ShownForward
<1>1. FlowInv /\ [Flow!Next]_(Flow!vars) =>
        [Flow!DrawFrame /\ sShown # None =>
             sShown' # None /\ sShown' >= sShown /\ sShown' <= now]_(Flow!vars)
  BY DrawnTime
<1> QED  BY <1>1, FlowInvariant, PTL DEF Flow!Spec, ShownForward, Flow!ShownForward
=============================================================================
