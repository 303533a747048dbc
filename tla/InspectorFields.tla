-------------------------- MODULE InspectorFields ---------------------------
(***************************************************************************)
(* What the inspector keeps across frames while the snapshots it draws     *)
(* lag behind what it sent: the angles of a rotation (syncEuler of         *)
(* InspectorPanel.cpp) and the text of a name being typed                  *)
(* (TextEditField.cpp, drawName).                                          *)
(*                                                                         *)
(* Two angles that differ by Turn are one rotation.  The simulation takes  *)
(* what is queued as a batch and publishes once after it; a rotation set   *)
(* in world mode may be refused, and another edit may replace one.         *)
(***************************************************************************)
EXTENDS Naturals, SequencesExt

CONSTANTS
    Entities, NoEntity,
    Turn,           \* the rotations: an angle modulo Turn
    CommandBound    \* bound: commands sent

VARIABLES
    rotation,       \* the rotation of each entity
    active,         \* the session's active entity
    snapshot,       \* the one on screen is drawn with: [active, rotation]
    queue, sent,
    worldMode,      \* m_worldMode
    euler,          \* the Euler cache: [entity, angle, rotation, pending]
    lost,           \* the rotation sent last was refused, or replaced before a frame showed it
    name,           \* m_nameField and m_nameEntities: [activated, entity]
    begun,          \* the active entity on screen when the typing began
    renamed         \* the entity of the last rename; NoEntity if none

panel == <<worldMode, euler, name, begun>>
vars == <<rotation, active, snapshot, queue, sent, lost, panel, renamed>>

Angles == 0 .. 2 * Turn - 1
Rotation(angle) == angle % Turn
ToEuler(r) == r

----------------------------------------------------------------------------
\* syncEuler, for the snapshot the frame is drawn with.
\* Mutant: an older snapshot replaces what was sent.
PendingMutant == FALSE
Pending == euler.pending
Synced ==
    LET shown == snapshot.rotation
        fresh == [entity |-> snapshot.active, angle |-> ToEuler(shown), rotation |-> shown, pending |-> FALSE]
    IN  IF snapshot.active = NoEntity THEN euler
        ELSE IF snapshot.active # euler.entity THEN fresh
        ELSE IF Pending THEN [euler EXCEPT !.pending = shown # euler.rotation]
        ELSE IF shown # euler.rotation THEN fresh
        ELSE euler

Submit(c) == sent < CommandBound /\ sent' = sent + 1 /\ queue' = Append(queue, c)

\* drawTransform and sendAxes: the user turns the active entity.
Turned ==
    /\ snapshot.active # NoEntity
    /\ \E angle \in Angles \ {Synced.angle} :
         /\ euler' = [Synced EXCEPT !.angle = angle, !.rotation = Rotation(angle), !.pending = TRUE]
         /\ Submit([kind |-> "turn", entity |-> snapshot.active, rotation |-> Rotation(angle), world |-> worldMode])
    /\ lost' = FALSE
    /\ UNCHANGED <<rotation, active, snapshot, worldMode, name, begun, renamed>>

\* drawModeToggle: the cache holds the other mode's angles.
Toggled ==
    /\ snapshot.active # NoEntity
    /\ worldMode' = ~worldMode /\ euler' = [Synced EXCEPT !.entity = NoEntity]
    /\ lost' = FALSE
    /\ UNCHANGED <<rotation, active, snapshot, queue, sent, name, begun, renamed>>

\* A frame in which only the cache is brought up to date.
Frame ==
    /\ euler' = Synced
    /\ UNCHANGED <<rotation, active, snapshot, queue, sent, worldMode, lost, name, begun, renamed>>

----------------------------------------------------------------------------
\* drawName: the name belongs to what was selected when the typing began.
\* Mutant: the name goes to what is selected when it ends.
NameEntityMutant == snapshot.active
NameEntity == IF name.activated THEN name.entity ELSE snapshot.active

TypeName ==
    /\ snapshot.active # NoEntity
    /\ name' = [activated |-> TRUE, entity |-> NameEntity]
    /\ begun' = IF name.activated THEN begun ELSE snapshot.active
    /\ UNCHANGED <<rotation, active, snapshot, queue, sent, lost, worldMode, euler, renamed>>
EndName ==
    /\ snapshot.active # NoEntity /\ name.activated
    /\ name' = [activated |-> FALSE, entity |-> NameEntity]
    /\ renamed' = NameEntity
    /\ UNCHANGED <<rotation, active, snapshot, queue, sent, lost, worldMode, euler, begun>>

----------------------------------------------------------------------------
\* Commands of the other panels.
Others ==
    /\ \E e \in Entities :
         \/ Submit([kind |-> "select", entity |-> e, rotation |-> 0, world |-> FALSE])
         \/ \E r \in 0 .. Turn - 1 : Submit([kind |-> "other", entity |-> e, rotation |-> r, world |-> FALSE])
    /\ UNCHANGED <<rotation, active, snapshot, lost, panel, renamed>>

\* One batch and the snapshot after it.  refused: the turns that are.
Batch ==
    /\ queue # <<>> /\ queue' = <<>>
    /\ \E refused \in SUBSET {i \in DOMAIN queue : queue[i].world} :
         LET writes == {i \in DOMAIN queue \ refused : queue[i].kind # "select"}
             last(e) == {i \in writes : queue[i].entity = e /\ \A j \in writes : queue[j].entity = e => j <= i}
             selects == {i \in DOMAIN queue : queue[i].kind = "select"}
         IN  /\ rotation' = [e \in Entities |->
                   IF last(e) = {} THEN rotation[e] ELSE queue[CHOOSE i \in last(e) : TRUE].rotation]
             /\ active' = IF selects = {} THEN active
                          ELSE queue[CHOOSE i \in selects : \A j \in selects : j <= i].entity
             /\ lost' = (lost \/ (euler.pending /\ euler.entity # NoEntity /\ rotation'[euler.entity] # euler.rotation))
    /\ snapshot' = [active |-> active', rotation |-> IF active' = NoEntity THEN 0 ELSE rotation'[active']]
    /\ UNCHANGED <<sent, panel, renamed>>

----------------------------------------------------------------------------
Init ==
    /\ rotation = [e \in Entities |-> 0] /\ active = NoEntity
    /\ snapshot = [active |-> NoEntity, rotation |-> 0]
    /\ queue = <<>> /\ sent = 0 /\ worldMode = FALSE
    /\ euler = [entity |-> NoEntity, angle |-> 0, rotation |-> 0, pending |-> FALSE]
    /\ lost = FALSE
    /\ name = [activated |-> FALSE, entity |-> NoEntity] /\ begun = NoEntity /\ renamed = NoEntity
Next == Turned \/ Toggled \/ Frame \/ TypeName \/ EndName \/ Others \/ Batch
Spec == Init /\ [][Next]_vars

----------------------------------------------------------------------------
\* The frame after the last snapshot shows the active entity's rotation, unless
\* the one that was sent last was refused or replaced: then the panel waits for
\* it for as long as the entity stays selected.
EulerCatchesUp ==
    queue = <<>> /\ snapshot.active # NoEntity =>
        Rotation(Synced.angle) = rotation[active] \/ (Synced.pending /\ lost)

\* A turn that is under way is never undone on screen by an older snapshot.
EulerHolds == euler.pending /\ snapshot.active = euler.entity => Synced.angle = euler.angle

\* A name goes to the entity it was begun for, whatever is selected meanwhile.
NameGoesHome == (name.activated => name.entity = begun) /\ (~name.activated => renamed \in {NoEntity, begun})
FieldsSound == EulerCatchesUp /\ EulerHolds /\ NameGoesHome
=============================================================================
