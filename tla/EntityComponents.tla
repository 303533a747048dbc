-------------------------- MODULE EntityComponents --------------------------
(***************************************************************************)
(* What the component storage of a scene promises, with no archetype, row  *)
(* or column: every live entity has a set of components, and a component   *)
(* keeps its value until it is written or removed, whatever happens to the *)
(* other entities.  A call that throws changes nothing but, for a creation,*)
(* the handle it wasted.                                                   *)
(***************************************************************************)
EXTENDS Naturals

CONSTANTS
    Types,     \* the component types
    Base,      \* the types every entity is created with
    Values,    \* the values of a component
    Default    \* the value of a component nobody wrote

VARIABLES
    data,      \* for every live entity its components and their values
    created    \* the number of handles given out

evars == <<data, created>>

\* The map f with v at x.
With(f, x, v) == [y \in DOMAIN f \cup {x} |-> IF y = x THEN v ELSE f[y]]

EInit == data = <<>> /\ created = 0

Create ==
    /\ created' = created + 1
    /\ data' = With(data, created + 1, [c \in Base |-> Default])

CreateThrows == created' = created + 1 /\ UNCHANGED data

Destroy(e) ==
    /\ data' = [f \in DOMAIN data \ {e} |-> data[f]]
    /\ UNCHANGED created

Add(e, c, v) ==
    /\ c \notin DOMAIN data[e]
    /\ data' = [data EXCEPT ![e] = With(@, c, v)]
    /\ UNCHANGED created

Remove(e, c) ==
    /\ c \in DOMAIN data[e]
    /\ data' = [data EXCEPT ![e] = [d \in DOMAIN @ \ {c} |-> @[d]]]
    /\ UNCHANGED created

Write(e, c, v) ==
    /\ c \in DOMAIN data[e]
    /\ data' = [data EXCEPT ![e][c] = v]
    /\ UNCHANGED created

Clear == data' = <<>> /\ UNCHANGED created

ENext ==
    \/ Create \/ CreateThrows \/ Clear
    \/ \E e \in DOMAIN data :
          \/ Destroy(e)
          \/ \E c \in Types : Remove(e, c) \/ \E v \in Values : Add(e, c, v) \/ Write(e, c, v)

ESpec == EInit /\ [][ENext]_evars
=============================================================================
