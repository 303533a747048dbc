\* Every tree of four entities, and transforms modulo 3: order and direction
\* matter, and a scale of zero has no inverse.
SPECIFICATION Spec
CONSTANTS
    Entity = {e1, e2, e3, e4}
    Null = Null
    Modulus = 3
    Scales = {0, 1, 2}
    Shifts = {0, 1}
SYMMETRY Alike
CONSTRAINT FewMoved
INVARIANTS
    HierarchySound
    WorldFresh
PROPERTIES
    ImplementsTree
    WorldPreserved
CHECK_DEADLOCK FALSE
