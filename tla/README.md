# TechEngine: a verification development

TLA+ modules of the concurrency, the life cycles and the data structures of
TechEngine (`src/engine`, and what `src/apps` does with it), the TLC
configurations that check them on small instances, and theorems about them
that TLAPS proves for every value of their constants. `PROJECT.json` lists the
runs, the mutants each property was tried against, the lines every definition
stands for, and the hazards the properties were chosen for.

Run a configuration with `tlc -workers 2 -config X.cfg M`, and check the proofs
of a module with `tlapm M.tla`.

## 1. The system

TechEngine is a C++ game engine. An application links `App` (engine/app) with
a `Client` (engine/client: window and renderer) or without one, and runs three
kinds of threads beside the main one: the simulation thread, the render thread
and the pool of workers.

```
 main thread            simulation thread          render thread
 App::run, Client       SimulationThread           RenderThread
   | window events        | advance: ticks           | frames
   v                      v                          v
 InputBuffer  --------> InputState -> Systems -> SnapshotMailbox -> SnapshotHistory
   |  (state for presentation) ----------------------------------------^
 App::submitCommand -> CommandQueue -> applied between two ticks
 App::requestStop   -> flags and condition variables of both threads
                          |
                          +-- Schedule/TaskGraph -> SerialExecutor -> Scene
                          +-- ResourceCache -> JobSystem workers (loads)
```

### Inventory

| Component | State | Operations | Interacts with | Hard behaviour | Correct when |
|---|---|---|---|---|---|
| JobSystem (core/jobs) | queue, pending batches, `m_running`, worker registry | construct, submit, wait, shutdown, the worker's loop | everyone that submits; tasks submit from inside | notify after unlock, waits of workers, concurrent shutdown, spurious wakeups | every accepted task runs once, in order; `wait` is a barrier; `shutdown` drains; nobody sleeps forever |
| Dedicated threads (core/jobs) | startup and completion results, stop token | start, signalReady, join | SimulationThread, RenderThread | failure before and after ready | the starter learns of either |
| App and SimulationThread (app) | flags, two condition variables, state of the thread | run, requestStop, submitCommand, the two loops | all hooks of the application | stop from any thread at any moment, hooks that throw, a second run | one clean end, in order; the failure is reported; a stop always ends the run |
| CommandQueue (app) | bounded queue, closed flag | submit, consume, close, open | submitters, simulation thread | close against open, flag cleared before the queue is emptied | every accepted command gets one outcome, in order |
| ResourceSlots, EntitySlots (core) | generations, free list, live count | create, destroy, clear, contains | ResourceCache, Scene | generation at its limit, relinking by clear | a handle resolves during its life only and is never given out again |
| ResourceCache (core/resources) | entries, acquires, dependencies, index, pending loads and frees, completions | request, release, addDependency, loading phase, drain, shutdown | JobSystem, resource clients | loads that end in any order or fail, release while loading, cycles, frees that cause frees | counts balance, nothing used is freed, nothing unused stays, a phase loads everything, a loading entry is pinned |
| SceneAsset (core/scene) | bytes, references | load, acquireReferences, write, read | ResourceCache, Scene | release and request again, failed references | a loaded scene holds what it references |
| InputBuffer, InputState (platform) | queue, overflow, main state, presentation state | publish, consume, presentationState, apply | window callbacks, simulation, renderer | two locks in turn, overflow, focus loss, runs | no loss without a report; the simulation's keys are the window's |
| Simulation timing, snapshots, render thread | timeline, mailbox, history | restartTimeline, advance, publish, prepareFrame | clock, ClientApp | stalls, skipped snapshots, jumps | ticks follow the clock; the shown time never runs backward |
| Scene hierarchy and transforms | sibling links, local and cached world transforms | create, destroy, setParent, unparent, set transforms, clear, read | systems, SceneCommandBuffer, SceneAsset, editor | index before unlinking, cycles, singular matrices | the links are an ordered forest; worlds are fresh; a preserving move moves nothing |
| Schedule, TaskGraph | entries, edges, levels | registration, constructor | SerialExecutor | priorities, terminal slot, cycles | conflicting systems never share a level; every cycle is named |
| SerialExecutor, SceneCommandBuffer, EventStream | buffers, epochs, three stages of a stream | execute, record, spawn, publish, barrier | systems, Scene | systems that throw, a barrier that throws half-way, pending entities kept too long | a tick's commands act as a whole, or not at all when a system throws; what a barrier that throws leaves can be applied again; an event lives for one tick |
| ArchetypeStorage, Query (core/scene) | archetypes with their rows and edges, revision, locations; each query's matches | create, destroy, add, remove, write, clear, mark changed, each | Scene, systems | rows that move, allocations and copies that throw, matches kept between ticks | every location names its row; components keep their values; a query misses nothing |
| Log and sinks (base) | ring, sink table, module and channel tables | write, addLogSink, removeLogSink, register, set levels | everyone, the editor's console | records logged inside a sink, registration without a lock, full tables | no record lost or given twice, in order; no deadlock; an id keeps its entry |
| Editor console (apps/editor) | queue, drop count, wake flag; records, counts, filter, rows | sink's write, drain, clear, filter, select | log, client's wake, main thread | lock order, records dropped, rows that index a shifted list | a warning is shown; rows are the records |
| Edit session, commands, panels (apps/editor) | selection with its sequence, revisions, undo records, snapshot slot, what the panels keep | select, edit, drop, rename, save, close | App's commands, Scene | commands decided on a snapshot that lags | an edit lands where it was drawn, or is refused; nothing unsaved is lost unasked |
| Project, files, mounts (apps/editor, platform) | index, files on disk, `.tewrite` siblings, mounted roots, export folder, child process | start, save, write, export, run, move, copy, remove | simulation and main thread, the system | crashes and failures between two writes, roots that shadow each other | a file is old or new, never half; a runtime starts on one whole export |
| Packs, serialization, registries, rendering objects, window controls | tables and formats | - | - | pure, I/O, or frozen early | - |

The exhaustive list, with what is not modelled and why, is `components` in
`PROJECT.json`.

## 2. The modules

| Module | Models | Grain of a step |
|---|---|---|
| `JobSystem` | `JobSystem.cpp`, `RegisteredThread.hpp` | one critical section, one notification outside the lock, one task body |
| `BatchBarrier` | the promise of the job system | - |
| `AppLifecycle` | `App.cpp`, `SimulationThread.cpp`, `CommandQueue.cpp`, what they use of `DedicatedThread` | one critical section, atomic access, notification or hook |
| `CommandLog` | the promise of `submitCommand` | - |
| `HandleLimits` | the types of `Handle` and `Entity`, with limits as constants | - |
| `ResourceSlots`, `EntitySlots` | the two slot tables | one call |
| `HandleTable` | the promise of a slot table | - |
| `ResourceCache` | `ResourceCache.cpp` and its phases | one pass of a loop of the owner, one load of a worker |
| `SceneLoading` | `SceneAsset::load`, on top of `ResourceCache` (EXTENDS) | one call on the cache |
| `ArchetypeStorage` | `ArchetypeStorage.cpp`, `Archetype.cpp`, `ComponentStorage.hpp`, `Query.hpp` | one call, complete or thrown out of |
| `EntityComponents` | the promise of the storage: a map from entities to components | - |
| `InputBuffer` | `InputBuffer.cpp`, `InputState.cpp`, the window's callbacks, the simulation's use | one lock of `publish`, one call |
| `PresentedInput` | the input of a frame (EXTENDS `InputBuffer`) | one call |
| `SnapshotFlow` | `beginAdvance`/`endAdvance`, `SnapshotMailbox`, `SnapshotHistory`, the frame loop | one critical section or read of the clock |
| `SceneHierarchy` | the hierarchy and transforms of `Scene.cpp`, the rows of `SceneAsset::read` | one call; `read` row by row |
| `HierarchyTree` | the promise of the hierarchy: an ordered forest | - |
| `TaskGraph` | the constructor of `TaskGraph.cpp` | one level, one step of the search for a cycle |
| `TickBarrier`, `TickBounds` | `SerialExecutor.cpp`, `SceneCommandBuffer`, `EventStream` | the start and the end of a system, each thing it records, and the barrier up to its end or to the command that throws |
| `LogSinks` | the ring and the sinks of `Log.cpp` | one critical section, one write to a sink |
| `LogChannels` | the tables of modules and channels of `Log.cpp` | one atomic access |
| `FormatBuffer` | `FormatBuffer.hpp` | one character |
| `ConsoleLog` | `ConsoleLog.cpp`, the client's wake, the order of start and shutdown of the editor (EXTENDS `LogSinks`) | one critical section |
| `ConsoleHistory` | `ConsoleHistory.cpp`, what `ConsolePanel.cpp` keeps | one call |
| `EditorSession` | the two threads around one edit session: `EditorApp.cpp`, `EditSession.cpp`, `SaveSceneCommand.cpp`, `ClosePrompt.cpp` | one step of the frame, one command |
| `HierarchyEdit` | `EditorSnapshot.cpp`'s rows, the drops and menus of `HierarchyPanel.cpp`, `HierarchyCommands.cpp` | one snapshot, one command |
| `InspectorEdit` | the fields of a selection (`EditSession.cpp`, `FieldCollector.cpp`), `InspectorCommands.cpp`, `FieldSetter.cpp` | one snapshot, one command |
| `InspectorFields` | what `InspectorPanel.cpp` and `TextEditField.cpp` keep between frames | one frame, one batch |
| `ProjectFiles` | `FileAccess::write`, `AssetIndex.cpp`, the startup scene, saving, with crashes | one step of a write |
| `ProjectRun` | `Project::exportTo`, Run, Export, `Process.cpp` | one file, one step of the frame |
| `FileMounts` | `VirtualPath.cpp`, `MountTable.cpp`, the operations of `FileAccess.cpp` | one call |
| `MC*` | the instances for TLC | - |
| `*Proofs`, `NumberInduction` | the theorems, and the induction some of them need | - |

State keeps the name of the member it stands for, or has it in the comment at
its declaration; actions keep the name of the function, or of the place in it
where they end. Where a function is several steps (`publish`, `wait`,
`requestStop`, the phases of the cache), the steps follow a program counter
(`pc`, `window.phase`, `todo`) in the order of the code.

**Composition.** `SceneLoading` extends `ResourceCache` with one more call, made
of the steps the cache already has; `MCResourceCache` runs the cache alone and with
loads of a scene. `PresentedInput` extends `InputBuffer` with
the mailbox and the renderer. `ConsoleLog` extends `LogSinks` with one sink, the
client's wake and the life of the editor. `MCSchedule` runs the ticks of
`TickBarrier` after the graph of `TaskGraph` is built. `ResourceCache` takes new
handles from `HandleTable`'s promise, which `ResourceSlots` is proved to keep,
and starts a load per worker by `BatchBarrier`'s, which `JobSystem` is checked
to keep; `ArchetypeStorage` takes its entities from `HandleTable` too.

`MCStorage`, `MCInput` and `MCEditor` each hold several machines with no shared
state: `machine` chooses one at the start and the others stand still, so a run
is the sum of the machines and not their product. Where two modules of the
editor meet, each says in its head what it leaves to the other: a scene edit is
a number for `EditorSession` and a change of lists for `HierarchyEdit`; a write
is whole or nothing for `ProjectRun` because of `ProjectFiles`.

**Refinement.** Five pairs: `JobSystem` implements `BatchBarrier` with its
liveness (property `ImplementsBarrier`), `AppLifecycle` implements `CommandLog`
with its liveness (`ImplementsLog`, the safety part also proved), both slot tables implement `HandleTable`
(`EntityImplementsTable`, `ResourceImplementsTable`, also proved), `ArchetypeStorage`
implements `EntityComponents` (`ImplementsMap`, also proved), `SceneHierarchy` implements
`HierarchyTree` (`ImplementsTree`, also proved).

### How the state corresponds to the code

* **JobSystem.** `queue`, `pendingBatches`, `nextBatchId` and `running` are the
  members guarded by `m_mutex`. A condition variable is the set of threads whose `pc` is blocked on
  it; `NotifyAll` sends them back to test their predicate, and each may wake by
  itself (`SpuriousWakeup`). Variables marked *history* at their
  declaration (`batchSize`, `ran`) are in no guard and serve the properties, as
  in the other modules. Joining is enabled when the workers have left.
* **AppLifecycle.** One `pc` per thread; a stop is five steps, on any thread,
  the main thread included. Each hook that may throw has a second action for
  it. `LeftByRun` gives the states an earlier run can leave behind, so a run
  starts as the first one or as any later one.
* **ResourceCache.** The owner's control is a stack `todo`; `submitLoads` puts
  the pending entries on the pool, `RunLoadTask` is a worker's load (success or
  failure), `Publish` its completion, `FreeEntry` one entry of a drain. The
  source is a `catalog` chosen once: what exists for the role, and what it
  references.
* **InputBuffer.** Events carry a number, `m_sequence`, and what they change;
  the presentation state is updated under the first lock, the queue under the
  second. `focus` and `down` are what the window and its keys really are.
* **SnapshotFlow.** A snapshot is its time and whether it follows a jump; time is
  an integer. Interpolation is `Blend`: the clamp is in the code, the colours
  are not in the model.
* **SceneHierarchy.** `links` are the `Hierarchy` components, `local` and `world`
  the transforms, each a scale and a shift modulo `Modulus`. These do not
  commute and a zero scale has no inverse: the two facts about matrices the
  code depends on. What a loop over the links computes is `Rounds` of what one turn
  of it makes, as many as there are entities: no list or path is longer.
* **TickBarrier.** A spawned entity is pending under an index of its buffer and
  the buffer's epoch; `meant` records, beside the buffers, what the systems
  asked for, and `scene` must be what doing it at once gives. The barrier of
  `execute()` is behind the `catch` that discards, so a throw there ends the tick
  with the buffers as they are: `ApplyThrows` is a command of `apply()` that
  throws (the buffers before it are discarded, its own and the later ones keep
  commands and epoch, the scene has the part that was done), `ServicesThrow` a
  throw of `assignNetIds`, when all is done but the events. The executor outlives
  the run that fails, so the next run's barrier applies what was `kept`
  a second time, before what its systems recorded since in the same buffer. `AsIfImmediate` promises nothing
  until that barrier, or a system that throws before it, has emptied the buffers
  (`Torn`); `meant` starts anew there. `NothingOutlivesTick` counts what is kept,
  and `PendingResolvable` and `EventsOneTickLater` hold all the while.
* **ArchetypeStorage.** `archetypes[i]` has the entities of its rows and a column
  per type; `location` is what the entity slots keep. `AddEntity`, `EraseSwap`,
  `Copied` are the functions of `Archetype`. A call that throws is a disjunct
  of its action, for every set of columns that had grown by then.
* **LogSinks, ConsoleLog.** `ring` and `sinks` are `g_ring` and `g_sinks`; a thread is
  `at` a label of `deliverRecord()`. `reached` records what each record was given
  to. `wakeLock` is `Client::wakeMutex`, `posted` the window system's event.
* **EditorSession.** `session` is the `EditSession`, `slot` the snapshot on its way,
  `shown` the main thread's `m_snapshot`, `panel` the selection of the hierarchy
  panel and the sequence it sent. `main` and `sim` are places in the two loops.
* **HierarchyEdit, InspectorEdit.** A command is resolved against the rows of the
  snapshot it was drawn from, and applied to a scene that other commands
  may have changed since; `edits` is `m_editRevision`.
* **ProjectFiles.** `disk` and `temporary` are the files and their `.tewrite`
  siblings; `writing` is how far a write is: a crash is possible between
  any two steps. The rename that replaces a file is one step.
* **ProjectRun.** A file of the export folder is named by the export that wrote
  it. `locks` is whether the system locks a running executable.
* **FileMounts.** `entries` are the mounted roots in the order of the search,
  `owed` what was written and neither removed nor written over.

## 3. The runs

| Run | Bounds | Properties |
|---|---|---|
| `job_system` | 2 workers, 2 callers, 2 batches with 2 tasks between them | `IInv` (types, accounting, the barrier, each task in one place, registry, construction, shutdown), `EachTaskOnceInOrder`, `ShutdownDrains`, `ImplementsBarrier` |
| `app_lifecycle` | the main and simulation threads, one stopper, one submitter, capacity 1, 2 commands, a server and an editor, one run that is the first or a later one | `RunSound`, `NeverAppliedLate`, `StopEndsRun`, `ImplementsLog` |
| `app_late_command` | the same with one command | `RejectedAfterStop`: violated |
| `storage` | both slot tables: 3 slots, generations to 2; archetypes: 3 entities, 2 types, 3 revisions; `FewMarked` | `SlotTablesSound`, `StorageSound`, `EntityImplementsTable`, `ResourceImplementsTable`, `ImplementsMap` |
| `resource_cache` | 3 ids, 5 catalogs, 4 handles, one holder per id, one added dependency; and a scene with two references in 3 catalogs (cyclic, broken, absent) | `CacheSound`, `SceneSound`, `PhaseLoadsAll`, `DrainCollects`, `CallsReturn` |
| `scene_failed_reference` | the scene and its catalogs of `resource_cache`, without the bounds | `ReferencesReady`: violated |
| `input` | 2 keys, a queue of 2, 6 events, 2 runs; 9 units of time, ticks of 2, clamp at 3, 2 runs | `InputSound`, `Accounted`, `OverflowReportedOnce`, `TimelineSound`, `OnlyChanges`, `ShownNeverOlder`, `ShownForward` |
| `input_next_run` | 1 key, a queue of 1 | `NoStuckKey`: violated |
| `scene_hierarchy` | 4 entities, transforms modulo 3 | `HierarchySound`, `WorldFresh`, `ImplementsTree`, `WorldPreserved` |
| `schedule` | every schedule of 3 systems with up to 3 constraints; 3 ticks of 2 systems, any command of which may throw at the barrier | `GraphSound` (levels, edges, cycles), `TickSound`, `AsIfImmediate`, `EventsOneTickLater`, `Ends` |
| `editor` | log: 3 threads, 2 sinks, rings and queues of 2, 3 records; channels: 3 calls, a table of 3; text: a buffer of 4, a marker of 2, 6 characters; console: 2 records of 4; hierarchy: 4 entities, one command between the snapshot and the next; session: one edit, two selections, a queue of 2; inspector: 2 entities, 2 commands, 2 selections; fields: 3 commands; files: 3 crashes, 2 saves; run: 3 exports; mounts: 2 roots, 5 paths, 3 calls | `LogSound`, `EditingSound`, `ProjectSound`, `LogReturns`, `EditLands`, `MainHears` |
| `editor_close` | the session of `editor` | `AsksBeforeClosing`: violated |

**What they show.** The comment before each property states it and the code it
is about. The ones that relate most:

* `ImplementsBarrier`: with every interleaving of queue, locks and wakeups, the
  pool is as good as one that runs each accepted task at some moment and
  releases a waiter when its batch is done, and it does release it.
* `StopEndsRun` and `ImplementsLog`: no order of the flags, the mutexes and the
  notifications of `requestStop`, `submitCommand` and the two loops loses a
  wakeup or a command.
* `CallsReturn`, `PhaseLoadsAll`, `DrainCollects`: the polling loops of the cache
  end, with nothing left to load and nothing unused left alive.
* `Accounted`, `OverflowReportedOnce`, `InputSound` (`HeldAgrees`): across overflow and focus
  loss, each event reaches the simulation or is in the interval it is told of.
* `ImplementsTree`: `setParent` at every place, relative to every sibling,
  is the move in an ordered forest.
* `GraphSound` (`LevelsIndependent`, `CycleReal`): what parallel levels would rely on.
* `ImplementsMap`: whatever rows move into erased ones and wherever an
  allocation or a copy throws, no component changes but by a call that names it.
  `StorageSound` adds that a query that iterates sees each match once.
* `LogSound`, `LogReturns`: each record reaches every sink that was there, once and
  in order; logging inside a sink, or while the client holds its wake lock, ends.
* `EditingSound`, `EditLands`: a drop, a rename or a field edit that was decided on
  an old snapshot acts on the entities and the place it was drawn for or is
  refused, and what the user is typing or turning survives the snapshots that
  arrive meanwhile.
* `ProjectSound`: after any crashes and failures no file is half written, what a file
  names is there, a save that was reported done is on disk, and the next start opens the scene
  (but for the exception below); a runtime runs on the files of one export; a
  path leads to what was last written to it.
* `MainHears`: what the other threads do reaches a main thread that sleeps in the
  window system.

**Why the bounds are enough.** Each is the least at which the interesting case
happens, and every property was seen to fail when a definition is replaced by a
plausible bug (`mutants`): two workers and two batches let one batch finish
while another is queued and a worker sleeps; two waiting callers let one be
woken for the other; a capacity of one makes a full command queue, two commands
an order; generations up to two retire a slot; a circle of three is the least
that `reaches()` must walk; six events overflow a queue of two twice, in
one run or in two; nine units hold a stall, its clamp and a restart; four
entities give a child of a child of a child, and three siblings under a parent;
three systems with three constraints hold every cycle; three entities let a row
be erased that is neither the last nor alone, and three revisions a query that
is stale twice; in the lists of the hierarchy panel four entities are the least
with two selected, one between them and one that is dropped upon; three log
records overflow a ring and a queue of two; three calls on a table with two
free entries overflow it while another is registered; three crashes are one
in a first start, one in the recovery from it and one in a save.

**Constraints and symmetry.** `CircleOnce` bounds the circular catalog alone: there
TLC does not go on from states in which clients hold three resources, or two while
something loads, or in which something freed was requested again (the other
catalogs do all of it). `SceneAgain` bounds the catalogs with the scene: no dependencies
are added, one resource is held beside it, and a fourth entry is no
other than the scene, requested again. `CallsReturn` is checked on what remains.
`FewMarked` marks types as changed only while at most two entities were created.
`LastForOverflow` keeps the sixth event for the second overflow: without one, five are published.
`FewMoved` keeps every tree of four, and of four entities at most one moved;
trees of up to three have every transform. Keys (`input`) and entities
(`scene_hierarchy`) are symmetric: they differ in nothing but name, and both
runs check invariants and step properties only, never liveness. In `editor`, the
scene of the hierarchy panel starts with its entities named in the order of their rows.

**Deadlock** is checked in `app_lifecycle` and `app_late_command`, where a refused
`submitCommand()` is always possible; that the threads go on is what
`StopEndsRun` and `ImplementsLog` say. In the other models a state without a
successor is the bound reached or the object gone; there `CHECK_DEADLOCK` is
off, and where getting stuck would be a bug a liveness property says so.

### Fairness

* `JobSystem`: weak fairness of each worker's and each caller's step that the
  code has begun, and of the construction. The operating system schedules
  runnable threads, critical sections are short, and tasks terminate (the
  engine's own do; a task that never returns breaks `wait` for any pool).
  Nothing is fair about calling `submit` or `shutdown`, or about spurious
  wakeups.
* `AppLifecycle`: weak fairness of the main thread, of the simulation thread and
  of calls already begun. Hooks are taken to return or throw. That a user closes
  the window, or anyone requests a stop, is not fair.
* `ResourceCache`: the owner goes on with the call it is in, and the pool runs
  some load while loads are queued, which is `BatchBarrier`'s promise. A load of a
  scene runs to its end, as the calls it is made of do (`SceneFairness`).
* `TaskGraph`: the constructor runs on.
* `ConsoleLog`: the main thread's loop runs on, and a thread inside
  `deliverRecord()` goes on when the lock it waits for is free. Locks are
  short and a sink's write returns.
* `EditorSession`, `ProjectRun`: both loops run on, and each frame is drawn
  (`User`), whatever the user does or does not do in it. No event of the
  window is fair: `MainHears` holds because the simulation posts one.
  `MCEditor` states the same fairness for the machine that runs.
* `BatchBarrier`, `CommandLog`: the liveness they promise, shown to follow.

### Findings

1. `app_late_command`. `requestStop()` closes the command queue
   (`App.cpp:89`), but the simulation thread opens it unconditionally when it
   starts (`SimulationThread.cpp:193`). If the stop comes first, a command
   submitted after it is accepted, where `AppTests.cpp:1064` says it is
   rejected. It is never applied (`NeverAppliedLate` holds).
2. `scene_failed_reference`. `SceneAssetTests.cpp:1001` says that a reference
   that fails to load fails the load. `acquireReferences()` sees only the errors
   of its own phase (`SceneAsset.cpp:273`): a reference that failed earlier and
   is still held is shared as it is and the scene loads.
3. `input_next_run`. `InputBufferTests.cpp:85` says that a dropped release
   cannot stick. The buffer outlives a run and keeps a key whose release fell
   between `setInputBuffer(nullptr)` and the end of the run; an overflow in the
   next run hands it to the simulation.
4. `editor_close`. `EditorApp.cpp:130` says that the close request is handled before
   the loop could stop the app without asking. `handleCloseRequest()` decides on
   the snapshot of the frame before (`EditorApp.cpp:270`), and the frame takes the
   next one after it: the editor can close without asking on a frame
   whose title shows unsaved edits.

### Known exceptions

Places where the code does less than a reader may expect, which the models
contain and the properties therefore leave room for:

* A rotation set in world mode that the scene refuses, or that another edit
  replaces before a frame shows it, leaves `m_rotationPending` set
  (`InspectorPanel.cpp:414`): the Euler fields stay on the angles that were typed until
  the selection changes (`lost` in `InspectorFields`).
* An export chosen from the menu after Run was pressed may replace files before
  the runtime starts (`overlapped` in `ProjectRun`).
* A crash after a scene's `.tewrite` sibling is complete and before it replaces the file
  leaves two files with the scene's ID; the index refuses both until one is
  removed by hand, and the editor opens an empty scene.

## 4. The proofs

TLAPS proves, for every value of the constants that the modules' assumptions
allow:

* **`JobSystemProofs`**: `Invariance` (`Spec => []IInv`), and from it `TypeCorrect`,
  `BarrierCorrect` (`BarrierHolds`), `AccountingCorrect`,
  `EachTaskOnceInOrderCorrect` (`EachTaskOnceInOrder`), `NeverWaitCorrect` and
  `ShutdownCorrect` (`ShutdownDrains`). Neither the
  barrier nor the drain is inductive. `IInv` adds that a pending batch's
  counter is positive and counts its tasks not yet accounted for
  (`PendingAccounting`, on the cardinality of `Unaccounted`), that each accepted
  task is in exactly one place (`InOnePlace`), what a worker holds at each label
  (`HandInv`), that only registered threads are taken for workers
  (`RegistryInv`, `WorkersNeverWait`), and how far a construction or a shutdown
  is (`ConstructionInv`, `StopInv`). The proof has a lemma per conjunct and a
  step per action. The order of submission needs `SubmissionOrder` besides, which is
  inductive given `IInv` (`OrderStep`).
* **`AppLifecycleProofs`**: `RunIsSound` (`RunSound`), `LateNeverApplied`
  (`NeverAppliedLate`) and `CommandsAsLogged`: the safety part of `CommandLog` is
  implemented. None of them is inductive. `IInv` says for every label of every
  thread what the flags, the queue and the other thread can be: where the
  simulation thread lives (`ThreadEnclosed`), which flags a
  stop has raised by the time it is past them (`RequestsSeen`, `StopsRaised`), that the commands
  without an outcome are the batch and after it the queue, in order
  (`CommandsInOrder`), that where the simulation reopened the queue after a stop it has yet to test the flag, so
  that what is accepted then is cancelled (`LateCancelled`), and where a failure is kept on each of the ways out
  (`FailuresKept`). The three facts about commands are proved first for the few
  actions that touch them, so the refinement needs no second pass over `Next`.
* **`StorageProofs`**, the slot tables: type correctness, the live count, the refinement of
  `HandleTable` (`ImplementsTableCorrect`, `ResourceImplementsTableCorrect`), and
  `SlotTablesAreSound` (`SlotTablesSound`): no slot leaks. The refinement needs that every handle given
  out belongs to an allocated slot, at a generation not above the slot's, and
  below it when the slot is free. The leak needs the free list itself: its slots have ranks
  without a gap, and each links to the next rank (`OneList`). From that, following the links from the
  head reaches exactly the free slots (`ListReached`); taking the head and putting
  a slot in front keep it (`HeadTaken`, `SlotFreed`); and a list linked in the
  order of its numbers, as `clear()` leaves it, is one (`SlotsLinked`, where the rank of a
  slot is how many free ones are numbered above it).
* **`StorageProofs`**, the archetypes: `StorageIsSound` (`StorageSound`) and
  `ImplementsMapCorrect` (`ImplementsMap`: the whole refinement, which has no fairness).
  The invariant is `AInv`, of three parts. `Stored` is about the tables: no two archetypes
  have one signature, the columns are those of the signature and as long as the
  archetype has entities, an edge leads to the archetype with one type more or less, and an
  entity's location and the row it points to agree both ways. `LocationsSound` alone
  is not kept, for where a move goes is read from the edges. `Others` says that
  while a query iterates or another machine runs nothing moves. `QueriesKept` is what
  `EachMatchOnce` needs before a query begins to iterate: what it has matched, at
  the revision it remembers, is exactly the archetypes it should have matched among the
  first ones, and there are no others at that revision. The lemmas follow the functions of `Archetype`: what
  `AddEntity`, `EraseSwap`, a copied row and a column that was not added leave of `Stored`
  and of the abstract map, and that following or adding an edge finds the right archetype.
  `StorageStep` then shows of each action, its throwing disjuncts included, that it keeps
  `AInv` and is a step of the map or none.
* **`CacheProofs`**, the cache: `CacheIsSound` (`CacheSound`), `DrainCollectsCorrect`
  (`DrainCollects`) and `PhaseLoadsAllCorrect` (`PhaseLoadsAll`), whatever the catalog and
  however calls, loads and drains interleave. The invariant is `CacheInv`. `Kept` is about the
  entries: the index and the live entries agree, an entry's acquires are its holds and
  the places where a dependency names it (`CountedIn`, on the cardinality of `Places`), and
  no entry is reached from its own dependencies (`AcyclicIn`, stated with a closed set
  and not with a walk). `reaches()` walks, so `ReachedIsLeast` shows that its rounds,
  as many as there are live entries, give the least closed set; hence what
  `addDependency()` accepts makes no cycle, and a count changes by exactly the places that
  come or go. `MindedNow` says where every entry that nobody uses or that is not loaded
  is noted, for one that is under way too: without it a load that ends late could
  find its entry freed. `Staged` says which of the loops' local vectors are in use at the top of the owner's stack
  and `Shaped` what may lie below it; `Queued`, that a load is in one place. When a drain ends,
  each entry left has a use; that these uses end in a client's hold is the induction of
  `NoEndlessChain`: in a finite acyclic graph no set has a dependant of each of its members.
* **`CacheProofs`**, the loads of scenes: `ScenesAreSound` (`SceneSound`, and `CacheSound` with loads of scenes
  among the calls) and `SceneCallsCorrect` (`DrainCollects` and `PhaseLoadsAll` there). `SceneSound` is not inductive: that
  the scene's bytes are there depends on what its load did before it was published
  (`BytesKept`: a load that ends without an error has left fresh bytes), and on the drain before the
  request (`Cleared`), which frees every entry nobody uses that is not loading, so that
  the request finds either no entry, or one that has yet to give its bytes up. `Progress` says how far
  `load()` is when the calls on top of it return, `Resolved` that what it has given out
  depends on everything the scene refers to, and `Alone` that a step of `load()` is at the bottom of
  the stack. The cache's own steps keep this because of one relation between the
  entries before and after (`Onward`: ids stay, dependencies of a live entry only grow, bytes
  are read only for a load), shown once for each call.
* **`InputProofs`**, the queue: `InputIsSound` (`InputSound`), `OnlyChangesCorrect` (`OnlyChanges`),
  `AccountedCorrect`, `OverflowReportedOnceCorrect`,
  `PresentationLeadsCorrect`, `QueueBoundedCorrect`. The invariant adds that the
  queued events are numbered without a gap up to the last publication
  (`Numbered`), what the frame of the simulation can hold (`FrameFields`,
  `BufferTypeOK`), and that the first run begins with nothing taken (`FirstRunFresh`). The
  first and second are about what applying a queue of any length computes.
* **`InputProofs`**, what is shown: `PresentedBuffer` (a step of `PresentedInput` is a step of
  `InputBuffer`, so the theorems above hold of it), `PresentationShown`,
  `ShownNeverOlderCorrect` (`ShownNeverOlder`); `TimelineIsSound` (`TimelineSound`) and `ShownForwardCorrect`
  (`ShownForward`). For the input, the invariant `InputLed` says that nothing on its way to the
  screen is ahead of the main thread: not a snapshot, and not what the queue
  will still make of the frame, or of an empty frame when a run begins with
  the queue the last one left. There the focus may differ, so that an event
  changes one state and not the other: `Behind` allows for it. It follows that a frame always shows the buffer's
  state: the other branch of `prepareFrame()` is never taken. For time: snapshots of
  one timeline are as far apart as their ticks, one of a later timeline is not
  earlier, and what is on the screen is within reach of the next frame's start.
* **`ScheduleProofs`**: `GraphIsSound` (`GraphSound`) and `LevelsAreFinal`, for the graph;
  `TickIsSound` (`TickSound`), `AsIfImmediateCorrect` (`AsIfImmediate`) and
  `EventsOneTickLaterCorrect` (`EventsOneTickLater`), for a tick. The graph: an indegree counts the
  predecessors that are in no level (`IndegreeCounts`), the levels share out the
  systems taken, each behind its predecessors, and whatever is in no level
  waits for one of the last level or for one in none. The path of the search for a cycle follows the edges. A tick: the
  buffers, applied now in the order of the systems, make the scene the
  commands meant (`BuffersMean`), and a pending entity of the present epoch
  is the entity its spawn meant (`PendingMeant`). That is inductive
  because only the buffer of the running system grows and those behind it are empty.
  Where a barrier threw, the later buffers are not, and both are claimed again only once
  the buffers are empty. What holds there too is `PendingSpawned`: a pending entity of
  the present epoch has an index below the number of entities its buffer will
  spawn. How many it spawns does not depend on the scene (`SpawnsAsMany`), so a
  buffer that stands can be applied again to whatever the failure made of the
  scene (`BufferStands`), and no `TE_CHECK` of `apply()` aborts.
  Events: `EventsKept`, that none is dated behind the barrier to come.
* **`HierarchyProofs`**: `HierarchyIsSound` (`HierarchySound`), `WorldIsFresh` (`WorldFresh`),
  `ImplementsTreeCorrect` (`ImplementsTree`: the whole refinement, which has no fairness) and
  `WorldPreservedCorrect` (`WorldPreserved`), for any number of entities and any depth. The invariant is
  `HierarchyInv`: the types, `WorldFresh`, and `Forest`, that the links are exactly the lists of a forest of the
  live entities. `Forest` has three parts. `Woven` ties every link to a place in its parent's
  list. `Rooted` says that parents are not in a circle, and says it with sets (every set has a
  member whose parent is outside) and not with a walk, so that a move keeps it by one case split;
  that a climb of as many steps as there are entities passes the root follows (`AncestorEnds`).
  The rest says that what is not live is not linked. On it stand what the functions of `Scene`
  compute: `getChildren` the list (`ChildrenAre`), `setParent`'s insertion points and relinking
  the new lists (`DestinationIs`, `MovedWoven`), `unparent` the list without the child
  (`FreedWoven`), `destroyEntity`'s worklist the whole subtree (`CollectedIs`). The longest argument is
  the walk of `propagateTransformSubtree`, which keeps no stack: `Toured` says which entities
  it has behind it, whatever the shape (with an entity its earlier siblings and all below
  them), down to a first child (`TourDown`) and over to the next sibling of an ancestor
  (`TourUp`); hence it visits the subtree, each entity once and after its parent (`PropagatedIs`).
  `WorldPreserved` needs that transforms compose associatively, which is arithmetic modulo `Modulus`
  (`ComposeAssociates`), and that `fromLocalToWorld`'s product is the cached world when that is fresh
  (`WorldFromLocalsIs`). The assumptions are that the handles of a run are finite and the invalid one
  is none of them (`EntityAssumption`), and that a transform whose scale is not zero has an inverse
  (`InverseAssumption`), as a matrix has whose determinant is not: `Modulus` is then a prime.
* **`NumberInduction`**: what the proofs about recursive functions rest on: a set of
  numbers has a least one (from the library's well-founded sets), hence a fact
  that holds of 0 and is handed on holds up to any number, and a step
  that can be taken everywhere can be iterated in exactly one way.
* **`JobSystemProofs`**, its last section, about `LogChannels` over variables of its own:
  `IdsKeepTheirEntriesCorrect`. The tables of the log are
  claimed by raising a count without a lock, and a call that finds the table
  full sets the count back to the limit while others raise it. The invariant
  adds what makes that harmless: a claim inside the table is below the count,
  and once a claim lies outside, the count never falls below the limit
  again (`ClaimsCounted`). The constants' assumption, `TableAssumption`, is a
  hypothesis of the theorem; with it the tables of 16 modules and 64
  channels are two instances.

The assumptions are those the modules declare (`ThreadsAssumption`,
`BoundsAssumption`, `LimitsAssumption`, `CapacityAssumption`, ...), which TLC
evaluates in the runs; `InputProofs` has those of `MCInput` besides (`FlowSettings`:
the clock's settings are what the constructor checks; `NoneAssumption`: an empty optional
is neither a number nor a snapshot). The `IInv` of `JobSystem`, of both slot tables and of
`InputBuffer`, and the whole of `TickSound` and `TimelineSound`, which are
inductive as they are, are also invariants of a run; those of the archetypes, of the cache and its scenes, of the hierarchy
(whose `Rooted` ranges over all sets of entities), of `AppLifecycle`, `TaskGraph` and `LogChannels`,
`InputLed` and `EventsKept` are proved only.

**Recursion.** No module has a RECURSIVE operator: what a loop computes is a
recursive function over `0 .. n` (`StatesAfter`, `KeptAfter`, `Replayed`, `Rounds`,
`ScenesAfter`, the reached part of a free list). The library's induction over numbers takes an operator,
which none of the installed provers can instantiate; its theorem on
well-founded sets takes a set, and `NumberInduction` goes through that one: a claim about every
`n` becomes a set of counterexamples without a least one.

**Only model-checked.** Everything under fairness (`ImplementsBarrier`,
`ImplementsLog` but for its safety part, `StopEndsRun`, `CallsReturn`, `Ends`, `LogReturns`, `MainHears`): liveness and ENABLED are
beyond this prover. The log and the editor but for the
tables of `LogChannels` (`LogSound`, `EditingSound`, `ProjectSound`, `EditLands`) have no proofs yet.

## 5. What is not modelled

* Byte formats (serialization, packs, manifests, boot records): pure conversions;
  the models see whether a read or a write succeeds.
* The component and event registries, the loader registry: filled before the
  simulation starts and frozen then; a duplicate is refused.
* Window creation, GLFW's codes, rendering objects, ImGui drawing, the hand-over of
  draw data, profiler hooks: I/O or conversions without state of their own.
* The runtime application: it calls what is modelled.
* Memory: blocks behind slots, growth of buffers. A component that cannot be
  allocated or copied is modelled (`ArchetypeStorage`).
* Rotation and sheared matrices; the order of roots.
* Which input and event handlers a system is given.
* A system that catches a failed allocation of its own `spawn()` and goes on: the
  index is taken before the command is stored.
* A full command queue, in the editor's models (`Submit` of `EditorSession` and of
  `ProjectRun` waits for room); `AppLifecycle` models the refusal.
* A copy or a move of a folder below itself (`Fits` of `FileMounts`).
* The refusal for a singular matrix as a step: it is a guard of the preserving
  calls of `SceneHierarchy`, which do nothing where the code returns false.
* Clock rates and work durations, shown in a title.
* A failing `TE_CHECK`: the process aborts. The guard is in the model, the abort
  is not.
* An error of the system in the middle of a copy or a folder removal
  (`FileAccess.cpp`): the outcome is `IoError` and any prefix of the work is done.
* What GLFW logs while the client posts an event: the model takes posting never to
  log, where `Client::wakeMain` holds its lock.

## 6. Plan

The order is by importance: what every thread relies on first.

1. *Done.* `JobSystem`, `BatchBarrier`, `JobSystemProofs`.
2. *Done.* `AppLifecycle`, `CommandLog`, `AppLifecycleProofs`.
3. *Done.* `ResourceSlots`, `EntitySlots`, `HandleTable` and their proofs,
   `ResourceCache`, `SceneLoading` and their proofs.
4. *Done.* `InputBuffer`, `PresentedInput`, `SnapshotFlow` and their proofs.
5. *Done.* `SceneHierarchy`, `HierarchyTree` and their proofs.
6. *Done.* `TaskGraph`, `TickBarrier`, `ScheduleProofs`.
7. *Done.* `ArchetypeStorage`, `EntityComponents` and their proofs.
8. *Done.* `LogSinks`, `LogChannels` and its proof, `FormatBuffer`, `ConsoleLog`,
   `ConsoleHistory`. Next: the records a sink gets, as a theorem.
9. *Done.* `EditorSession`, `HierarchyEdit`, `InspectorEdit`, `InspectorFields`.
   Next: `SavedIsFile` and `SelectionLive` as theorems.
10. *Done.* `ProjectFiles`, `ProjectRun`, `FileMounts`. Next: that no crash loses a
    saved scene, for any number of crashes and saves, and `OneRuntime`.
