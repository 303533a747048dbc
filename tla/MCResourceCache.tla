-------------------------- MODULE MCResourceCache ---------------------------
(***************************************************************************)
(* ResourceCache and SceneLoading on three ids and a scene, for TLC.  A    *)
(* behaviour is one of the cache alone or, where the source has the scene, *)
(* of loads of it among the other calls.                                   *)
(***************************************************************************)
EXTENDS SceneLoading

CONSTANTS a, b, c, s

Refers(there, refs) == [there |-> there, refs |-> refs]

Leaf == Refers("Present", <<>>)
Missing == Refers("Unknown", <<>>)
Absent == Refers("AbsentForRole", <<>>)

Assets(ofA, ofB, ofC) == (a :> ofA) @@ (b :> ofB) @@ (c :> ofC) @@ (s :> Missing)
Scene(ofA, ofB, ofScene) == (a :> ofA) @@ (b :> ofB) @@ (c :> Missing) @@ (s :> ofScene)

\* A repeated reference, a mutual one, a circle of three, references that are
\* absent or cannot be had, and resources whose clients add dependencies.
Repeated == Assets(Refers("Present", <<b, b>>), Leaf, Missing)
Mutual == Assets(Refers("Present", <<b>>), Refers("Present", <<a>>), Missing)
Circle == Assets(Refers("Present", <<b>>), Refers("Present", <<c>>),
                 Refers("Present", <<a>>))
Gaps == Assets(Refers("Present", <<b, c>>), Absent, Missing)
Loose == Assets(Leaf, Leaf, Missing)

Graphs == {Repeated, Mutual, Circle, Gaps, Loose}

\* The scene references a and b, and a references b: b the scene again, or b
\* cannot be had; and a role without the scene.
CyclicScene == Scene(Refers("Present", <<b>>), Refers("Present", <<s>>), Leaf)
BrokenScene == Scene(Refers("Present", <<b>>), Missing, Leaf)
AbsentScene == Scene(Leaf, Leaf, Absent)

SceneGraphs == {CyclicScene, BrokenScene, AbsentScene}
AllGraphs == Graphs \cup SceneGraphs
SceneReferences == s :> <<a, b>>

MCNext ==
    \/ catalog \in Graphs /\ Next /\ UNCHANGED sceneVars
    \/ catalog \in SceneGraphs /\ SceneNext

MCSpec == SceneInit /\ [][MCNext]_allVars /\ SceneFairness
\* The loads of a scene alone.
LoadingSpec == SceneInit /\ catalog \in SceneGraphs /\ [][MCNext]_allVars

\* The bounds: of the circle two resources are held at a time, one while loads
\* are under way, and nothing that was freed is requested again; with a scene no
\* dependencies are added, one resource is held beside it, and after three
\* resources only the scene is requested.
CircleOnce ==
    catalog = Circle =>
        /\ Len(entries) <= 3
        /\ Cardinality({h \in Live : held[h] > 0})
             <= IF tasks = {} /\ pendingLoads = {} THEN 2 ELSE 1
SceneAgain ==
    catalog \in SceneGraphs =>
        /\ 4 \in DOMAIN entries => entries[4].id = s
        /\ Cardinality({h \in Live : held[h] > 0 /\ entries[h].id # s}) <= 1
        /\ \A h \in Live : Len(Dependencies(h)) <=
               IF entries[h].id = s THEN 2 ELSE Len(catalog[entries[h].id].refs)
CacheBounds == CircleOnce /\ SceneAgain
=============================================================================
