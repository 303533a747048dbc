--------------------------- MODULE ResourceCache ----------------------------
(***************************************************************************)
(* engine/core ResourceCache: resources loaded once and shared, counted by *)
(* acquires, with the resources they reference as dependencies.  One       *)
(* thread owns the cache and makes every call; the loads run on the        *)
(* workers of JobSystem, at the same time and in any order.                *)
(*                                                                         *)
(* The owner's code is a stack of steps, "todo": a call pushes its steps,  *)
(* each step is one pass of a loop or one call; the workers interleave.    *)
(* Between calls (todo = <<>>) the owner's clients call what they like.    *)
(*                                                                         *)
(* Slots are taken at ResourceSlots' word (HandleTable): every entry gets  *)
(* a handle of its own, 1, 2, ..., and dead handles resolve to nothing.    *)
(* The vectors m_pendingLoads and m_pendingFrees are sets: any order, and  *)
(* a duplicate does what its first copy did.                               *)
(***************************************************************************)
EXTENDS Naturals, Sequences, SequencesExt, FiniteSets

CONSTANTS
    Ids,            \* ResourceId
    Catalogs,       \* the asset sources: functions from Ids to Asset
    NoHandle,       \* an invalid ResourceSlotId
    MaxHandles,     \* bound: entries ever created
    MaxHolds,       \* bound: acquires the clients keep of one entry
    MaxAdded        \* bound: dependencies of an entry to which one is added

Handle == 1 .. MaxHandles

\* What m_source->find() says of an id, and the ids its bytes name.
Asset == [there : {"Present", "AbsentForRole", "Unknown"}, refs : Seq(Ids)]

ASSUME CatalogsAssumption == Catalogs \subseteq [Ids -> Asset]
ASSUME BoundsAssumption == {MaxHandles, MaxHolds, MaxAdded} \subseteq Nat /\ MaxHolds # 0
ASSUME NoHandleAssumption == NoHandle \notin Nat

VARIABLES
    catalog,        \* the source of this run
    entries,        \* the ResourceEntry of every handle given out so far
    byId,           \* m_byId
    pendingLoads,   \* m_pendingLoads
    pendingFrees,   \* m_pendingFrees
    tasks,          \* load tasks of m_inFlightBatches that have not ended
    completions,    \* m_completions, in the order the tasks ended
    todo,           \* the owner's remaining steps, the next one first
    publishing,     \* removeCompletions()'s local vector, from the one in work
    linking,        \* the dependencies publishCompletion() has left to add
    draining,       \* drainFrees()'s local vector
    deferred,       \* drainFrees()'s local vector
    phaseError,     \* runLoadingPhase()'s firstError is set
    held            \* the clients' acquires of each handle not released yet

queues == <<pendingLoads, pendingFrees>>
work == <<tasks, completions>>
locals == <<publishing, linking, draining, deferred, phaseError>>
vars == <<catalog, entries, byId, queues, work, todo, locals, held>>

ResourceStates == {"Pending", "Ready", "Failed", "AbsentForRole"}
\* The steps of the cache's calls, and of a load(), which is made of such calls
\* (SceneLoading).
CacheSteps == {"Submit", "Wait", "Remove", "Publish", "Link", "Again", "Drain", "Free"}
SceneSteps == {"SceneRequest", "SceneTake", "SceneParse", "SceneLink", "SceneDone",
               "SceneAbandon"}
Steps == CacheSteps \cup SceneSteps

\* An entry that is not occupied.
Blank(id) == [id |-> id, occupied |-> FALSE, state |-> "Pending", loading |-> FALSE,
              acquires |-> 0, dependencies |-> <<>>, payload |-> "None", error |-> FALSE]

Live == {h \in DOMAIN entries : entries[h].occupied}
State(h) == entries[h].state
Acquires(h) == entries[h].acquires
Dependencies(h) == entries[h].dependencies
NewHandle == Len(entries) + 1

\* Mutant: a dependency named twice is released once.
EdgesMutant(h, d) == Cardinality(ToSet(Dependencies(h)) \cap {d})

\* How many of h's dependencies are d.
Edges(h, d) == Cardinality({k \in DOMAIN Dependencies(h) : Dependencies(h)[k] = d})

\* The live entries reached from the handles S, and S itself.
Reached(S) ==
    LET within[n \in 0 .. Cardinality(Live)] ==      \* by at most n dependencies
          IF n = 0 THEN S
          ELSE within[n - 1] \cup
               UNION {ToSet(Dependencies(h)) : h \in within[n - 1] \cap Live}
    IN  within[Cardinality(Live)]

\* Mutant: only the dependencies of the first slot are looked at.
reachesMutant(from, target) == target \in {from} \cup ToSet(Dependencies(from))

reaches(from, target) == target \in Reached({from})

Init ==
    /\ catalog \in Catalogs
    /\ entries = <<>>
    /\ byId = [id \in Ids |-> NoHandle]
    /\ pendingLoads = {}
    /\ pendingFrees = {}
    /\ tasks = {}
    /\ completions = <<>>
    /\ todo = <<>>
    /\ publishing = <<>>
    /\ linking = <<>>
    /\ draining = {}
    /\ deferred = {}
    /\ phaseError = FALSE
    /\ held = [h \in Handle |-> 0]

----------------------------------------------------------------------------
(* requestEntry(), releaseEntry(), addEntryDependency(): what they do to   *)
(* the entries and the queues.  The caller says what becomes of the handle.*)

\* Mutant: the entry is shared without being acquired.
ShareMutant(id) == byId[id] # NoHandle /\ UNCHANGED <<entries, byId, queues>>

\* The id has an entry already.
Share(id) ==
    /\ byId[id] # NoHandle
    /\ entries' = [entries EXCEPT ![byId[id]].acquires = @ + 1]
    /\ UNCHANGED <<byId, queues>>

\* The id gets one.  "holder" is the entry that asks, or NoHandle.
NewEntry(id, holder) ==
    LET there == catalog[id].there
        entry == [Blank(id) EXCEPT !.occupied = TRUE, !.acquires = 1,
                    !.state = IF there = "Present" THEN "Pending" ELSE there]
        linked == IF holder = NoHandle THEN entries
                  ELSE [entries EXCEPT ![holder].dependencies = Append(@, NewHandle)]
    IN
    /\ byId[id] = NoHandle
    /\ there # "Unknown"
    /\ NewHandle \in Handle
    /\ entries' = Append(linked, entry)
    /\ byId' = [byId EXCEPT ![id] = NewHandle]
    /\ pendingLoads' = IF there = "Present" THEN pendingLoads \cup {NewHandle}
                       ELSE pendingLoads
    /\ UNCHANGED pendingFrees

\* requestEntry() that succeeds, with the handle it returns.
Requested(id, h) ==
    \/ h = byId[id] /\ Share(id)
    \/ h = NewHandle /\ NewEntry(id, NoHandle)

\* Mutant: the entry is not queued for the drain.
UnusedMutant(hs) == pendingFrees

\* The queue after the entries hs gave up their last acquire.
Unused(hs) == pendingFrees \cup hs

\* releaseEntry(); a stale handle changes nothing.
Released(h) ==
    /\ h \in Live => Acquires(h) > 0
    /\ entries' = IF h \in Live THEN [entries EXCEPT ![h].acquires = @ - 1] ELSE entries
    /\ pendingFrees' = Unused({h} \cap {g \in Live : Acquires(g) = 1})
    /\ UNCHANGED <<byId, pendingLoads>>

\* Mutant: an entry the cache has already is linked but not acquired.
LinkedMutant(holder, id) ==
    \/ /\ byId[id] # NoHandle
       /\ ~reaches(byId[id], holder)
       /\ entries' = [entries EXCEPT ![holder].dependencies = Append(@, byId[id])]
       /\ UNCHANGED <<byId, queues>>
    \/ NewEntry(id, holder)

\* addEntryDependency() that succeeds: the id is acquired for the holder.
Linked(holder, id) ==
    \/ /\ byId[id] # NoHandle
       /\ ~reaches(byId[id], holder)
       /\ entries' = [entries EXCEPT ![byId[id]].acquires = @ + 1,
                                     ![holder].dependencies = Append(@, byId[id])]
       /\ UNCHANGED <<byId, queues>>
    \/ NewEntry(id, holder)

\* ... that fails, with the entries as they were: the id is unknown, or it
\* would close a cycle and what was just acquired is released again.
Refused(holder, id) ==
    \/ byId[id] = NoHandle /\ catalog[id].there = "Unknown"
    \/ byId[id] # NoHandle /\ reaches(byId[id], holder)

RefusedFrees(id) ==
    Unused({byId[id]} \cap {g \in Live : Acquires(g) = 0})

----------------------------------------------------------------------------
(* The calls of clients, between other calls. *)

Idle == todo = <<>>

Request(id) ==
    /\ Idle
    /\ \E h \in Handle :
         /\ held[h] < MaxHolds
         /\ Requested(id, h)
         /\ held' = [held EXCEPT ![h] = @ + 1]
    /\ UNCHANGED <<catalog, work, todo, locals>>

\* Of a handle the client holds.
Release(h) ==
    /\ Idle
    /\ held[h] > 0
    /\ Released(h)
    /\ held' = [held EXCEPT ![h] = @ - 1]
    /\ UNCHANGED <<catalog, work, todo, locals>>

\* Of a Ready entry the client holds; a refusal leaves the holder Ready.
AddDependency(holder, id) ==
    /\ Idle
    /\ held[holder] > 0 /\ State(holder) = "Ready"
    /\ Len(Dependencies(holder)) < MaxAdded
    /\ \/ Linked(holder, id)
       \/ /\ Refused(holder, id)
          /\ pendingFrees' = RefusedFrees(id)
          /\ UNCHANGED <<entries, byId, pendingLoads>>
    /\ UNCHANGED <<catalog, work, todo, locals, held>>

loadingPhase == <<"Submit", "Wait", "Remove", "Publish", "Again">>

Call(steps) ==
    /\ Idle
    /\ todo' = steps
    /\ phaseError' = FALSE
    /\ UNCHANGED <<catalog, entries, byId, queues, work, publishing, linking,
                   draining, deferred, held>>

submitLoads == Call(<<"Submit">>)
removeCompletions == Call(<<"Remove", "Publish">>)
runLoadingPhase == Call(loadingPhase)
drainFrees == Call(<<"Drain">>)
shutdown == Call(<<"Wait">>)

----------------------------------------------------------------------------
(* The steps. *)

At(step) == todo # <<>> /\ Head(todo) = step
Return == todo' = Tail(todo)

Submit ==
    LET started == {h \in pendingLoads \cap Live : State(h) = "Pending" /\ ~entries[h].loading}
    IN
    /\ At("Submit")
    /\ pendingLoads' = {}
    /\ entries' = [h \in DOMAIN entries |->
                     [entries[h] EXCEPT !.loading = @ \/ h \in started]]
    /\ tasks' = tasks \cup started
    /\ Return
    /\ UNCHANGED <<catalog, byId, pendingFrees, completions, locals, held>>

\* JobSystem::wait() on every batch in flight.
Wait ==
    /\ At("Wait")
    /\ tasks = {}
    /\ Return
    /\ UNCHANGED <<catalog, entries, byId, queues, work, locals, held>>

TakeCompletions ==
    /\ At("Remove")
    /\ publishing' = completions
    /\ completions' = <<>>
    /\ Return
    /\ UNCHANGED <<catalog, entries, byId, queues, tasks, linking, draining,
                   deferred, phaseError, held>>

\* Mutant: a completion leaves its entry loading.
PublishedMutant(h, state) == [entries EXCEPT ![h].state = state]

Published(h, state) == [entries EXCEPT ![h].loading = FALSE, ![h].state = state]

\* publishCompletion() up to its loop over the dependencies.
Publish ==
    /\ At("Publish")
    /\ UNCHANGED <<catalog, byId, queues, work, draining, deferred, held>>
    /\ IF publishing = <<>>
         THEN Return /\ UNCHANGED <<entries, publishing, linking, phaseError>>
       ELSE LET h == Head(publishing) IN
         \/ /\ h \notin Live
            /\ publishing' = Tail(publishing)
            /\ UNCHANGED <<entries, todo, linking, phaseError>>
         \/ /\ h \in Live /\ entries[h].error
            /\ entries' = Published(h, "Failed")
            /\ publishing' = Tail(publishing)
            /\ phaseError' = TRUE
            /\ UNCHANGED <<todo, linking>>
         \/ /\ h \in Live /\ ~entries[h].error
            /\ entries' = Published(h, "Ready")
            /\ linking' = catalog[entries[h].id].refs
            /\ todo' = <<"Link">> \o todo
            /\ UNCHANGED <<publishing, phaseError>>

\* One dependency of the completion in work.
Link ==
    LET h == Head(publishing) IN
    /\ At("Link")
    /\ UNCHANGED <<catalog, work, draining, deferred, held>>
    /\ \/ /\ linking = <<>>
          /\ publishing' = Tail(publishing)
          /\ Return
          /\ UNCHANGED <<entries, byId, queues, linking, phaseError>>
       \/ /\ linking # <<>>
          /\ Linked(h, Head(linking))
          /\ linking' = Tail(linking)
          /\ UNCHANGED <<todo, publishing, phaseError>>
       \/ /\ linking # <<>>
          /\ Refused(h, Head(linking))
          /\ entries' = [entries EXCEPT ![h].state = "Failed", ![h].error = TRUE]
          /\ pendingFrees' = RefusedFrees(Head(linking))
          /\ linking' = <<>>
          /\ publishing' = Tail(publishing)
          /\ phaseError' = TRUE
          /\ Return
          /\ UNCHANGED <<byId, pendingLoads>>

\* Mutant: a round whose loads named new dependencies is the last.
MoreToLoadMutant == \E h \in Live : entries[h].loading

MoreToLoad == (\E h \in Live : entries[h].loading) \/ pendingLoads # {}

\* The end of a round of the loading phase.
Again ==
    /\ At("Again")
    /\ todo' = (IF MoreToLoad THEN loadingPhase ELSE <<"Drain">>) \o Tail(todo)
    /\ UNCHANGED <<catalog, entries, byId, queues, work, locals, held>>

Drain ==
    /\ At("Drain")
    /\ IF pendingFrees = {}
         THEN /\ pendingFrees' = deferred
              /\ deferred' = {}
              /\ Return
              /\ UNCHANGED draining
         ELSE /\ draining' = pendingFrees
              /\ pendingFrees' = {}
              /\ todo' = <<"Free">> \o todo
              /\ UNCHANGED deferred
    /\ UNCHANGED <<catalog, entries, byId, pendingLoads, work, publishing, linking,
                   phaseError, held>>

\* The entries after h is freed: its dependencies are released.
Freed(h) ==
    LET after(g) == IF g = h THEN Blank(entries[h].id)
                    ELSE [entries[g] EXCEPT !.acquires = @ - Edges(h, g)]
    IN  [g \in DOMAIN entries |-> after(g)]

\* Mutant: m_byId keeps the id.
FreeEntryMutant(h) ==
    /\ entries' = Freed(h)
    /\ pendingFrees' = Unused({g \in Live : Edges(h, g) > 0 /\ Acquires(g) = Edges(h, g)})
    /\ UNCHANGED byId

\* freeEntry() of a live entry nobody has acquired.
FreeEntry(h) ==
    /\ entries' = Freed(h)
    /\ byId' = [byId EXCEPT ![entries[h].id] = NoHandle]
    /\ pendingFrees' = Unused({g \in Live : Edges(h, g) > 0 /\ Acquires(g) = Edges(h, g)})

\* Mutant: an entry still loading is freed under its task.
MustStayMutant(h) == Acquires(h) > 0

MustStay(h) == entries[h].loading \/ Acquires(h) > 0

Free ==
    /\ At("Free")
    /\ UNCHANGED <<catalog, pendingLoads, work, publishing, linking, phaseError, held>>
    /\ \/ /\ draining = {}
          /\ Return
          /\ UNCHANGED <<entries, byId, pendingFrees, draining, deferred>>
       \/ \E h \in draining :
            /\ draining' = draining \ {h}
            /\ UNCHANGED todo
            /\ \/ /\ h \notin Live
                  /\ UNCHANGED <<entries, byId, pendingFrees, deferred>>
               \/ /\ h \in Live /\ MustStay(h)
                  /\ deferred' = deferred \cup {h}
                  /\ UNCHANGED <<entries, byId, pendingFrees>>
               \/ /\ h \in Live /\ ~MustStay(h)
                  /\ FreeEntry(h)
                  /\ UNCHANGED deferred

\* On a worker: the asset is read and parsed, or fails; the completion is
\* queued under m_completionMutex.
RunLoadTask(h) ==
    /\ h \in tasks
    /\ tasks' = tasks \ {h}
    /\ \/ entries' = [entries EXCEPT ![h].error = TRUE]
       \/ entries' = [entries EXCEPT ![h].error = FALSE, ![h].payload = "Fresh"]
    /\ completions' = Append(completions, h)
    /\ UNCHANGED <<catalog, byId, queues, todo, locals, held>>

----------------------------------------------------------------------------

OwnerStep ==
    \/ Submit \/ Wait \/ TakeCompletions \/ Publish \/ Link \/ Again \/ Drain \/ Free

ClientCall ==
    \/ \E id \in Ids : Request(id)
    \/ \E h \in Handle : Release(h)
    \/ \E h \in Live, id \in Ids : AddDependency(h, id)
    \/ submitLoads \/ removeCompletions \/ runLoadingPhase \/ drainFrees \/ shutdown

Next == ClientCall \/ OwnerStep \/ \E h \in Handle : RunLoadTask(h)

SafeSpec == Init /\ [][Next]_vars
\* A call runs to its end and the pool runs what it is given.
Fairness == WF_vars(OwnerStep) /\ WF_vars(\E h \in Handle : RunLoadTask(h))
Spec == SafeSpec /\ Fairness

----------------------------------------------------------------------------
(* Properties. *)

Entry == [id : Ids, occupied : BOOLEAN, state : ResourceStates, loading : BOOLEAN,
          acquires : Nat, dependencies : Seq(Handle), payload : {"None", "Fresh", "Taken"},
          error : BOOLEAN]

TypeOK ==
    /\ catalog \in Catalogs
    /\ entries \in Seq(Entry) /\ Len(entries) <= MaxHandles
    /\ byId \in [Ids -> Handle \cup {NoHandle}]
    /\ pendingLoads \subseteq Handle /\ pendingFrees \subseteq Handle
    /\ tasks \subseteq Handle
    /\ completions \in Seq(Handle)
    /\ todo \in Seq(Steps)
    /\ publishing \in Seq(Handle) /\ linking \in Seq(Ids)
    /\ draining \subseteq Handle /\ deferred \subseteq Handle
    /\ phaseError \in BOOLEAN
    /\ held \in [Handle -> 0 .. MaxHolds]

\* The dependencies on d: whose, and which of them.
UsesOf(d) == {e \in UNION {{h} \X DOMAIN Dependencies(h) : h \in Live} :
                Dependencies(e[1])[e[2]] = d}

(* The acquires of a live entry are those its clients hold and one for each *)
(* dependency on it, through loads that fail half way, cycles that are     *)
(* refused and frees that cascade; and what anybody refers to is live.     *)
CountsBalanced ==
    /\ \A d \in Live : Acquires(d) = held[d] + Cardinality(UsesOf(d))
    /\ \A h \in Handle : held[h] > 0 => h \in Live
    /\ \A h \in Live : ToSet(Dependencies(h)) \subseteq Live

(* One entry per id: m_byId names exactly the live entries, each under its *)
(* own id, so no request can miss an entry and load a resource twice.      *)
Indexed ==
    /\ \A h \in Live : byId[entries[h].id] = h
    /\ \A id \in Ids : byId[id] # NoHandle => byId[id] \in Live /\ entries[byId[id]].id = id

(* Dependencies form no cycle: a cycle would keep itself alive for ever.   *)
Acyclic == \A h \in Live : h \notin Reached(ToSet(Dependencies(h)))

(* A load task writes through a pointer to its entry: the entry stays      *)
(* until the completion is published, also when everybody has released it. *)
Unpublished ==
    ToSet(completions) \cup ToSet(IF At("Link") THEN Tail(publishing) ELSE publishing)
LoadingPinned == \A h \in tasks \cup Unpublished : h \in Live /\ entries[h].loading

(* Nothing is forgotten: an entry nobody has acquired waits for a drain,   *)
(* and a Pending one for a submission or its completion.                   *)
NothingForgotten ==
    /\ \A h \in Live : Acquires(h) = 0 => h \in pendingFrees \cup draining \cup deferred
    /\ \A h \in Live : State(h) = "Pending" => h \in pendingLoads \/ entries[h].loading
    /\ \A h \in Live : entries[h].loading =>
          h \in tasks \cup Unpublished

(* What holds of the entries between any two steps of the owner and the    *)
(* workers, in the middle of a call too.                                   *)
CacheSound ==
    /\ TypeOK
    /\ LoadingPinned
    /\ Indexed
    /\ CountsBalanced
    /\ Acyclic
    /\ NothingForgotten

(* A drain collects all the garbage: what is left is reached from a handle *)
(* a client holds, or is still loading.                                    *)
InUse == Reached({h \in Handle : held[h] > 0}) \cup {h \in Live : entries[h].loading}
DrainCollects == [][At("Drain") /\ Return => (Live \subseteq InUse)']_vars

(* A loading phase leaves nothing Pending, whatever the loads of each of   *)
(* its rounds asked for, and whatever was submitted before it.             *)
PhaseLoadsAll ==
    [][At("Again") /\ Head(todo') = "Drain" => \A h \in Live : State(h) # "Pending"]_vars

(* Every call returns: a loading phase runs out of rounds, also when the   *)
(* assets refer to each other in circles, and a drain out of frees.  (A    *)
(* model out of handles stops.)                                            *)
CallsReturn == ~Idle ~> Idle \/ Len(entries) = MaxHandles
=============================================================================
