---------------------------- MODULE TickBarrier -----------------------------
(***************************************************************************)
(* engine/core SerialExecutor: one tick runs the systems in graph order;   *)
(* what they change of the scene's structure waits in their command        *)
(* buffers, and what they publish waits in the streams, until the barrier  *)
(* at the end of the tick.  A system that throws ends the tick without     *)
(* one.  The barrier itself may throw half-way: nothing catches that, so   *)
(* the buffers it had not finished keep their commands, and the barrier of *)
(* a later run applies them again.  Systems keep their members, so a       *)
(* PendingEntity may be used in a later tick, or be given to another       *)
(* system.                                                                 *)
(***************************************************************************)
EXTENDS TickBounds, FiniteSets, SequencesExt

\* The systems, in the order of their turns.
Turn == 1 .. Systems

VARIABLES
    running,    \* the system executing, 0 for none
    ended,      \* the systems of this tick that ended
    inTick,     \* execute() is under way
    ticks,      \* history: executions begun
    barriers,   \* history: executions that reached the barrier
    buffers,    \* the SceneCommandBuffer of each system
    kept,       \* history: how many of its commands a barrier that threw left
    handed,     \* history: every PendingEntity returned
    scene,      \* the entities, those with the component, and the next one
    meant,      \* history: the scene if every command took effect at once,
                \* and the entity of each spawn
    visible,    \* EventStream::m_visible
    staging,    \* EventStream::m_staging
    published   \* history: per event, the barriers passed before it

execution == <<running, ended, inTick, ticks, barriers>>
commands == <<buffers, kept, handed, meant>>
events == <<visible, staging, published>>
vars == <<execution, commands, scene, events>>

NoneKept == [s \in Turn |-> 0]

\* A barrier threw, and commands it left are still in their buffers.
Torn == kept # NoneKept

EmptyBuffer == [epoch |-> 1, nextPending |-> 0, commands |-> <<>>]

\* PendingEntity, with the spawn it stands for (history: 0 for none).  A
\* command's target is one, or an Entity: then its buffer is 0.
Pending(s, epoch, index, spawn) ==
    [buffer |-> s, epoch |-> epoch, index |-> index,
     spawn |-> spawn, entity |-> 0]
Direct(e) == [buffer |-> 0, epoch |-> 0, index |-> 0, spawn |-> 0, entity |-> e]

----------------------------------------------------------------------------
\* What a command does to the scene sc.  The entities below a destroyed one
\* are SceneHierarchy's.

EmptyScene == [live |-> {}, with |-> {}, next |-> 1]

Spawned(sc) ==
    [sc EXCEPT !.live = @ \cup {sc.next}, !.next = @ + 1]

Despawned(sc, e) == [sc EXCEPT !.live = @ \ {e}, !.with = @ \ {e}]

\* Mutant: the component is stored for an entity that is gone.
AddedMutant(sc, e) == [sc EXCEPT !.with = @ \cup {e}]

\* addComponentInternal refuses an entity that is gone.
Added(sc, e) == IF e \in sc.live THEN [sc EXCEPT !.with = @ \cup {e}] ELSE sc

Removed(sc, e) == [sc EXCEPT !.with = @ \ {e}]

Effect(sc, kind, e) ==
    CASE kind = "spawn" -> Spawned(sc)
      [] kind = "despawn" -> Despawned(sc, e)
      [] kind = "add" -> Added(sc, e)
      [] kind = "remove" -> Removed(sc, e)

----------------------------------------------------------------------------
\* SceneCommandBuffer.

\* checkPending; an Entity is always accepted.
Accepted(s, target) ==
    \/ target.buffer = 0
    \/ target.buffer = s /\ target.epoch = buffers[s].epoch

\* Mutant: the epoch of the buffer stays.
NextEpochMutant(b) == b.epoch

NextEpoch(b) == b.epoch + 1

\* Mutant: the pending indices of the buffer run on.
FirstPendingMutant(b) == b.nextPending

FirstPending(b) == 0

Discarded(b) ==
    [epoch |-> NextEpoch(b), nextPending |-> FirstPending(b), commands |-> <<>>]

\* One command of apply, with the entities its buffer has spawned so far.
Step(done, command) ==
    LET t == command.target
        e == IF t.buffer = 0 THEN t.entity ELSE done.resolved[t.index + 1]
    IN  IF command.kind = "spawn"
          THEN [scene |-> Spawned(done.scene),
                resolved |-> Append(done.resolved, done.scene.next)]
          ELSE [done EXCEPT !.scene = Effect(done.scene, command.kind, e)]

\* What the first n commands of the buffer make of the scene, for each n.
Replayed(sc, b) ==
    LET done[n \in 0 .. Len(b.commands)] ==
            IF n = 0 THEN [scene |-> sc, resolved |-> <<>>]
            ELSE Step(done[n - 1], b.commands[n])
    IN  done

Applied(sc, b) == Replayed(sc, b)[Len(b.commands)]

\* What the first n of the buffers bs make of the scene, for each n.
ScenesAfter(sc, bs) ==
    LET after[n \in 0 .. Systems] ==
            IF n = 0 THEN sc ELSE Applied(after[n - 1], bs[n]).scene
    IN  after

SceneAfter == ScenesAfter(scene, buffers)

\* No TE_CHECK of apply aborts the process: a pending entity is of this
\* execution of this buffer, and was spawned by an earlier command.
Resolvable(s) ==
    \A i \in DOMAIN buffers[s].commands :
        LET c == buffers[s].commands[i] IN
        c.kind # "spawn" /\ c.target.buffer # 0
            => /\ Accepted(s, c.target)
               /\ c.target.index < Len(Replayed(SceneAfter[s - 1], buffers[s])[i - 1].resolved)

----------------------------------------------------------------------------
\* EventStream.

Retired(st) == [st EXCEPT !.visible = <<>>]

\* makeVisible; it is refused while a batch is visible.
MadeVisible(st) ==
    IF st.visible = <<>>
      THEN [visible |-> st.staging, staging |-> <<>>]
      ELSE st

\* Mutant: the next batch comes before the last one goes.
AfterBarrierMutant(st) == Retired(MadeVisible(st))

AfterBarrier(st) == MadeVisible(Retired(st))

----------------------------------------------------------------------------

Init ==
    /\ running = 0 /\ ended = 0 /\ inTick = FALSE
    /\ ticks = 0 /\ barriers = 0
    /\ buffers = [s \in Turn |-> EmptyBuffer]
    /\ kept = NoneKept
    /\ handed = {}
    /\ scene = EmptyScene
    /\ meant = [scene |-> EmptyScene, of |-> <<>>]
    /\ visible = <<>> /\ staging = <<>> /\ published = <<>>

BeginTick ==
    /\ ~inTick /\ ticks < MaxTicks
    /\ inTick' = TRUE
    /\ ticks' = ticks + 1
    /\ ended' = 0
    /\ UNCHANGED <<running, barriers, commands, scene, events>>

BeginSystem ==
    /\ inTick /\ running = 0 /\ ended < Systems
    /\ running' = ended + 1
    /\ UNCHANGED <<ended, inTick, ticks, barriers, commands, scene, events>>

EndSystem ==
    /\ running # 0
    /\ ended' = running
    /\ running' = 0
    /\ UNCHANGED <<inTick, ticks, barriers, commands, scene, events>>

Publish ==
    /\ running # 0 /\ Len(published) < MaxEvents
    /\ published' = Append(published, barriers)
    /\ staging' = Append(staging, Len(published'))
    /\ UNCHANGED <<execution, commands, scene, visible>>

Recorded == SumFunction([s \in Turn |-> Len(buffers[s].commands)])

Record(kind, target) ==
    buffers' = [buffers EXCEPT ![running].commands =
                  Append(@, [kind |-> kind, target |-> target]),
                  ![running].nextPending = IF kind = "spawn" THEN @ + 1 ELSE @]

Spawn ==
    LET b == buffers[running]
        p == Pending(running, b.epoch, b.nextPending, Len(meant.of) + 1)
    IN
    /\ running # 0 /\ Len(meant.of) < MaxSpawns /\ Recorded < MaxCommands
    /\ Record("spawn", p)
    /\ handed' = handed \cup {p}
    /\ meant' = [scene |-> Spawned(meant.scene),
                 of |-> Append(meant.of, meant.scene.next)]
    /\ UNCHANGED <<execution, kept, scene, events>>

\* despawn, queueAdd and queueRemove.
Queue(kind, target) ==
    LET e == IF target.buffer = 0 THEN target.entity ELSE meant.of[target.spawn]
    IN
    /\ running # 0 /\ Recorded < MaxCommands
    /\ Accepted(running, target)
    /\ Record(kind, target)
    /\ meant' = [meant EXCEPT !.scene = Effect(@, kind, e)]
    /\ UNCHANGED <<execution, kept, handed, scene, events>>

\* Mutant: only the buffer of the system that threw.
AfterThrowMutant ==
    [buffers EXCEPT ![running] = Discarded(@)]

AfterThrow == [s \in Turn |-> Discarded(buffers[s])]

\* A handler or tick() throws: the commands of this tick never happened, and
\* those that an earlier barrier left are dropped with them.
Throw ==
    /\ running # 0
    /\ running' = 0
    /\ inTick' = FALSE
    /\ buffers' = AfterThrow
    /\ kept' = NoneKept
    /\ meant' = [meant EXCEPT !.scene = scene]
    /\ UNCHANGED <<ended, ticks, barriers, handed, scene, events>>

\* Every system ended, and the TE_CHECKs of apply hold.
AtBarrier ==
    /\ inTick /\ running = 0 /\ ended = Systems
    /\ \A s \in Turn : Resolvable(s)

\* Every buffer was applied.  After a replay the scene meant starts anew.
AllApplied ==
    /\ scene' = SceneAfter[Systems]
    /\ buffers' = [s \in Turn |-> Discarded(buffers[s])]
    /\ kept' = NoneKept
    /\ meant' = IF Torn THEN [meant EXCEPT !.scene = scene'] ELSE meant
    /\ inTick' = FALSE

Barrier ==
    LET st == AfterBarrier([visible |-> visible, staging |-> staging]) IN
    /\ AtBarrier
    /\ AllApplied
    /\ visible' = st.visible
    /\ staging' = st.staging
    /\ barriers' = barriers + 1
    /\ UNCHANGED <<running, ended, ticks, handed, published>>

\* Mutant: the buffer that failed gets its next epoch and keeps its commands.
AfterFailureMutant(s) ==
    [r \in Turn |-> IF r < s THEN Discarded(buffers[r])
                    ELSE IF r = s THEN [buffers[r] EXCEPT !.epoch = @ + 1]
                    ELSE buffers[r]]

\* apply discards a buffer only when all of its commands are done.
AfterFailure(s) ==
    [r \in Turn |-> IF r < s THEN Discarded(buffers[r]) ELSE buffers[r]]

\* Command i of system s throws in apply: it would have changed the scene and
\* did not, or its entity was made but not noted.  No catch covers the barrier.
ApplyThrows(s, i) ==
    LET done == Replayed(SceneAfter[s - 1], buffers[s]) IN
    /\ AtBarrier
    /\ done[i].scene # done[i - 1].scene
    /\ \/ scene' = done[i - 1].scene
       \/ buffers[s].commands[i].kind = "spawn" /\ scene' = done[i].scene
    /\ buffers' = AfterFailure(s)
    /\ kept' = [r \in Turn |-> Len(buffers'[r].commands)]
    /\ inTick' = FALSE
    /\ UNCHANGED <<running, ended, ticks, barriers, handed, meant, events>>

\* assignNetIds throws: the commands are done, and no event moves.
ServicesThrow ==
    /\ AtBarrier
    /\ AllApplied
    /\ UNCHANGED <<running, ended, ticks, barriers, handed, events>>

Kinds == {"despawn", "add", "remove"}
Targets == {Direct(e) : e \in 1 .. scene.next - 1} \cup handed

Next ==
    \/ BeginTick
    \/ BeginSystem
    \/ EndSystem
    \/ Publish
    \/ Spawn
    \/ \E kind \in Kinds, target \in Targets : Queue(kind, target)
    \/ Throw
    \/ Barrier
    \/ \E s \in Turn : \E i \in DOMAIN buffers[s].commands : ApplyThrows(s, i)
    \/ ServicesThrow

Spec == Init /\ [][Next]_vars

----------------------------------------------------------------------------
\* Properties.

\* A scene has no component of an entity that is gone.
Scene == {sc \in [live : SUBSET Nat, with : SUBSET Nat, next : Nat \ {0}] :
             sc.live \subseteq 1 .. sc.next - 1 /\ sc.with \subseteq sc.live}
Target == [buffer : 0 .. Systems, epoch : Nat, index : Nat, spawn : Nat, entity : Nat]
Command == [kind : Kinds \cup {"spawn"}, target : Target]
Buffer == [epoch : Nat, nextPending : Nat, commands : Seq(Command)]

TypeOK ==
    /\ running \in Turn \cup {0}
    /\ ended \in 0 .. Systems
    /\ inTick \in BOOLEAN
    /\ {ticks, barriers} \subseteq 0 .. MaxTicks
    /\ buffers \in [Turn -> Buffer]
    /\ \A s \in Turn : buffers[s].nextPending \in 0 .. MaxSpawns
    /\ kept \in [Turn -> Nat]
    /\ handed \subseteq {p \in Target : p.buffer # 0}
    /\ scene \in Scene
    /\ meant \in [scene : Scene, of : Seq(Nat)] /\ Len(meant.of) <= MaxSpawns

\* An event published in one tick is what every system sees in the tick after
\* the next barrier, with the others of its tick and in their order, and in
\* no tick after that.  A tick that failed, at its barrier too, lets the
\* batches stand: its own events wait.
EventsOneTickLater ==
    LET since(n) == {e \in DOMAIN published : published[e] = n}
    IN  /\ ToSet(staging) = since(barriers)
        /\ ToSet(visible) = {e \in DOMAIN published : published[e] + 1 = barriers}
        /\ \A batch \in {visible, staging} :
             \A i, j \in DOMAIN batch : i < j => batch[i] < batch[j]

\* After a tick the scene is the one its commands would have made at once, in
\* the order the systems recorded them, each pending entity being the one its
\* own spawn made; after a tick in which a system threw it is the one before.
\* Nothing of the kind holds once apply has thrown: the scene has a part of
\* the tick, and what is left of it acts again at the next barrier.  The
\* scene which that barrier makes, or the one that stands when a system
\* throws before it, is where the promise begins again.
AsIfImmediate == ~inTick /\ ~Torn => scene = meant.scene

\* A PendingEntity that a buffer accepts is resolved when the buffer is
\* applied, and when it is applied again after a throw: its TE_CHECK cannot
\* abort the process.
PendingResolvable == \A s \in Turn : Resolvable(s)

\* Between two ticks no buffer holds a command, but for those that a barrier
\* which threw had not finished with: what a tick recorded in which a system
\* threw cannot reach the scene in the next, and what a barrier left goes with
\* the next barrier or system that throws.
NothingOutlivesTick ==
    ~inTick => \A s \in Turn : Len(buffers[s].commands) = kept[s]

\* The systems take their turns in order, each in a tick.
TurnsInOrder ==
    /\ running # 0 => inTick /\ running = ended + 1
    /\ barriers + (IF inTick THEN 1 ELSE 0) <= ticks

\* A buffer has what a barrier left in it, and what its system does in its turn.
RecordedInTurn ==
    \A s \in Turn :
        /\ kept[s] <= Len(buffers[s].commands)
        /\ kept[s] < Len(buffers[s].commands) =>
              inTick /\ s <= (IF running = 0 THEN ended ELSE running)

\* What applying a buffer would make of the scene, now.
Outcome(s) == Applied(SceneAfter[s - 1], buffers[s])

\* The buffers, applied now, make the scene the commands meant.
BuffersMean == ~Torn => meant.scene = SceneAfter[Systems]

\* A pending entity of this execution of its buffer is one that the buffer
\* will spawn, ...
PendingSpawned ==
    /\ \A s \in Turn :
          /\ buffers[s].nextPending = Len(Outcome(s).resolved)
          /\ buffers[s].nextPending <= Len(meant.of)
    /\ \A p \in handed :
          /\ p.spawn \in DOMAIN meant.of
          /\ p.epoch <= buffers[p.buffer].epoch
          /\ p.epoch = buffers[p.buffer].epoch => p.index < buffers[p.buffer].nextPending

\* ... and the entity its spawn meant.
PendingMeant ==
    ~Torn => \A p \in handed :
        p.epoch = buffers[p.buffer].epoch =>
            Outcome(p.buffer).resolved[p.index + 1] = meant.of[p.spawn]

\* The types and the buffers, in every tick and between ticks, and why a
\* tick's commands are as good as immediate ones, but for what a barrier that
\* threw has left.
TickSound ==
    /\ TypeOK
    /\ TurnsInOrder /\ RecordedInTurn
    /\ BuffersMean /\ PendingSpawned /\ PendingMeant
    /\ PendingResolvable
    /\ NothingOutlivesTick
=============================================================================
