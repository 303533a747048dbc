-------------------------- MODULE MCSceneHierarchy ---------------------------
(* SceneHierarchy, for TLC: every transform on every tree of up to three     *)
(* entities, and every tree of four under which few entities have moved.     *)
EXTENDS SceneHierarchy

Alike == Permutations(Entity)

Flip == [scale |-> 2, shift |-> 1]

\* The bound: among as many entities as there can be, TLC goes on only from
\* those of which one is flipped, or none.
FewMoved ==
    live = Entity =>
        /\ \A e \in live : local[e] \in {Identity, Flip}
        /\ Cardinality({e \in live : local[e] = Flip}) <= 1
=============================================================================
