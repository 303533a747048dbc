---------------------------- MODULE SceneLoading ----------------------------
(***************************************************************************)
(* engine/core SceneAsset::load(): a scene is a resource whose bytes are   *)
(* taken out of the cache and streamed into the live scene, and whose      *)
(* references become dependencies of its entry.  The load is one more call *)
(* of ResourceCache's owner, made of drains, requests and loading phases,  *)
(* among the other calls on the same cache.                                *)
(***************************************************************************)
EXTENDS ResourceCache

CONSTANTS
    Scenes,         \* the ids that are scenes
    SceneRefs       \* the distinct ids the components of each scene reference

\* The loader of scene bytes names no dependencies.
ASSUME ScenesAssumption ==
    /\ Scenes \subseteq Ids
    /\ SceneRefs \in [Scenes -> Seq(Ids)]
    /\ \A source \in Catalogs, id \in Scenes : source[id].refs = <<>>

VARIABLES
    sceneId,        \* the id of the SceneAsset in load()
    scene,          \* load()'s handle, or NoHandle
    references,     \* acquireReferences()' references left to add
    loaded          \* history: the handles load() has given out

sceneVars == <<sceneId, scene, references, loaded>>
allVars == <<vars, sceneVars>>

SceneInit ==
    /\ Init
    /\ sceneId \in Scenes
    /\ scene = NoHandle
    /\ references = <<>>
    /\ loaded = {}

\* Mutant: load() does not drain first.
loadStepsMutant == <<"SceneRequest">>

loadSteps == <<"Drain", "SceneRequest">>

load(id) ==
    /\ Call(loadSteps)
    /\ sceneId' = id
    /\ UNCHANGED <<scene, references, loaded>>

\* Somebody holds the scene already: it is requested and released again.
AlreadyLoaded == byId[sceneId] # NoHandle /\ Acquires(byId[sceneId]) > 0

SceneRequest ==
    /\ At("SceneRequest")
    /\ \/ /\ catalog[sceneId].there = "Unknown" \/ AlreadyLoaded
          /\ Return
          /\ UNCHANGED <<entries, byId, queues, phaseError, held, scene>>
       \/ /\ ~AlreadyLoaded
          /\ \E h \in Handle :
               /\ Requested(sceneId, h)
               /\ scene' = h
               /\ held' = [held EXCEPT ![h] = @ + 1]
          /\ phaseError' = FALSE
          /\ todo' = loadingPhase \o <<"SceneTake">> \o Tail(todo)
    /\ UNCHANGED <<catalog, work, publishing, linking, draining, deferred,
                   sceneId, references, loaded>>

Continue(step) == todo' = <<step>> \o Tail(todo)

\* After the first loading phase; takePayload() moves the bytes out.
SceneTake ==
    /\ At("SceneTake")
    /\ \/ /\ phaseError \/ State(scene) # "Ready"
          /\ Continue("SceneAbandon")
          /\ UNCHANGED entries
       \/ /\ ~phaseError /\ State(scene) = "Ready"
          /\ entries' = [entries EXCEPT ![scene].payload = "Taken"]
          /\ Continue("SceneParse")
    /\ UNCHANGED <<catalog, byId, queues, work, locals, held, sceneVars>>

\* read() of the bytes, which may be malformed.
SceneParse ==
    /\ At("SceneParse")
    /\ \/ Continue("SceneAbandon") /\ UNCHANGED references
       \/ Continue("SceneLink") /\ references' = SceneRefs[sceneId]
    /\ UNCHANGED <<catalog, entries, byId, queues, work, locals, held, sceneId, scene, loaded>>

\* acquireReferences(): one reference, or the second loading phase.
SceneLink ==
    /\ At("SceneLink")
    /\ \/ /\ references = <<>>
          /\ phaseError' = FALSE
          /\ todo' = loadingPhase \o <<"SceneDone">> \o Tail(todo)
          /\ UNCHANGED <<entries, byId, queues, references>>
       \/ /\ references # <<>>
          /\ Linked(scene, Head(references))
          /\ references' = Tail(references)
          /\ UNCHANGED <<todo, phaseError>>
       \/ /\ references # <<>>
          /\ Refused(scene, Head(references))
          /\ pendingFrees' = RefusedFrees(Head(references))
          /\ references' = <<>>
          /\ Continue("SceneAbandon")
          /\ UNCHANGED <<entries, byId, pendingLoads, phaseError>>
    /\ UNCHANGED <<catalog, work, publishing, linking, draining, deferred, held,
                   sceneId, scene, loaded>>

\* After the second loading phase: the handle is the caller's.
SceneDone ==
    /\ At("SceneDone")
    /\ \/ phaseError /\ Continue("SceneAbandon") /\ UNCHANGED <<scene, loaded>>
       \/ /\ ~phaseError
          /\ loaded' = loaded \cup {scene}
          /\ scene' = NoHandle
          /\ Return
    /\ UNCHANGED <<catalog, entries, byId, queues, work, locals, held, sceneId, references>>

\* Every failure releases the handle.
SceneAbandon ==
    /\ At("SceneAbandon")
    /\ Released(scene)
    /\ held' = [held EXCEPT ![scene] = @ - 1]
    /\ scene' = NoHandle
    /\ Return
    /\ UNCHANGED <<catalog, work, locals, sceneId, references, loaded>>

LoadStep ==
    SceneRequest \/ SceneTake \/ SceneParse \/ SceneLink \/ SceneDone \/ SceneAbandon

SceneStep == (\E id \in Scenes : load(id)) \/ LoadStep

\* What the engine and the editor call between two loads.  (Only tests call
\* submitLoads() and removeCompletions() by themselves.)
OtherCall ==
    \/ \E id \in Ids : Request(id)
    \/ \E h \in Handle : Release(h)
    \/ \E h \in Live, id \in Ids : AddDependency(h, id)
    \/ runLoadingPhase \/ drainFrees

CacheStep ==
    /\ OtherCall \/ OwnerStep \/ \E h \in Handle : RunLoadTask(h)
    /\ UNCHANGED sceneVars

SceneNext == CacheStep \/ SceneStep

SceneSafeSpec == SceneInit /\ [][SceneNext]_allVars
\* load() runs to its end, as the calls it is made of do.
SceneFairness == Fairness /\ WF_allVars(LoadStep)
SceneSpec == SceneSafeSpec /\ SceneFairness

----------------------------------------------------------------------------
(* Properties. *)

SceneTypeOK ==
    /\ sceneId \in Scenes
    /\ scene \in Handle \cup {NoHandle}
    /\ references \in Seq(Ids)
    /\ loaded \subseteq Handle

(* A scene is streamed from bytes nobody has taken: a released scene, whose *)
(* bytes are gone, is freed before the request could revive it.            *)
SceneHasBytes ==
    At("SceneTake") /\ ~phaseError /\ State(scene) = "Ready" => entries[scene].payload = "Fresh"

(* The handles load() writes into the components resolve as long as the    *)
(* scene is held, whoever else uses and releases the resources.            *)
ReferencesOutliveLoad ==
    \A h \in loaded : held[h] > 0 =>
        \A k \in DOMAIN SceneRefs[entries[h].id] :
            LET ref == byId[SceneRefs[entries[h].id][k]] IN
            ref \in Live /\ ref \in ToSet(Dependencies(h))

(* The types, the bytes of every scene that is taken, and its references.  *)
SceneSound == SceneTypeOK /\ SceneHasBytes /\ ReferencesOutliveLoad

(* load() succeeds only with references that are Ready, or absent for this *)
(* role (what SceneAssetTests says of the handles it fills).               *)
ReferencesReady ==
    [][\A h \in loaded' \ loaded :
         \A d \in ToSet(Dependencies(h)) : State(d) \in {"Ready", "AbsentForRole"}]_allVars
=============================================================================
