--------------------------- MODULE InspectorEdit ----------------------------
(***************************************************************************)
(* Editing what entities hold: the rows the inspector shows for a selection *)
(* (EditSession.cpp, FieldCollector.cpp), the commands it sends for them   *)
(* (InspectorPanel.cpp), and what these do to the scene when they are       *)
(* applied, which may be after another edit (InspectorCommands.cpp,        *)
(* FieldSetter.cpp, the rename of HierarchyCommands.cpp).                  *)
(*                                                                         *)
(* One registered component stands for all: a field that is read only, a   *)
(* number and an asset, in the order of its visit.  A transform is two     *)
(* angles, and its world angles are those shifted by the parent's.  The    *)
(* resource cache is ResourceCache's: here a load ends ready or it does    *)
(* not.                                                                    *)
(***************************************************************************)
EXTENDS Naturals, FiniteSets, SequencesExt

CONSTANTS
    Entities, NoEntity,
    Asset, NoAsset, \* an indexed client asset of the field's type; no asset
    Start,          \* what the entities hold at first
    Shift,          \* the angle of each entity's parent
    EditBound,      \* bound: commands sent
    SelectBound     \* bound: selections made

VARIABLES
    scene,          \* what each entity holds
    live,
    ready,          \* the assets the cache holds ready for the scene
    session,        \* [selection, active]
    edits, records, \* m_editRevision and the EditRecords
    shown,          \* the snapshot on screen
    queue,
    sent, chosen    \* commands sent, selections made

vars == <<scene, live, ready, session, edits, records, shown, queue, sent, chosen>>

Numbers == 0 .. 1
Assets == {Asset, NoAsset}
Axes == 1 .. 2
NoComponent == [kind |-> "none"]
Has(e, s) == s[e].component # NoComponent

----------------------------------------------------------------------------
\* The walk over a component's fields.

Visit == <<"fixed", "number", "asset">>
ReadOnly == {"fixed"}
Holds(kind) == CASE kind = "number" -> Numbers [] kind = "asset" -> Assets [] OTHER -> {}

\* FieldCollector: one row per field, read only or not.
Rows(c) == [i \in DOMAIN Visit |-> [index |-> i - 1, kind |-> Visit[i], value |-> c[Visit[i]]]]

\* Mutant: the setter does not count the fields it skips.
SetterIndexMutant(i) == Cardinality({j \in 1 .. i - 1 : Visit[j] \notin ReadOnly})
SetterIndex(i) == Cardinality(1 .. i - 1)

\* FieldSetter: the field of the index, if the value is of its type.
Targets(index, value) == {i \in DOMAIN Visit : SetterIndex(i) = index /\ value \in Holds(Visit[i])}
SetField(c, index, value) ==
    [f \in DOMAIN c |-> IF \E i \in Targets(index, value) : Visit[i] = f THEN value ELSE c[f]]

----------------------------------------------------------------------------
\* The snapshot.

World(e, angles) == [x \in Axes |-> (angles[x] + Shift[e]) % 2]
Local(e, angles) == [x \in Axes |-> (angles[x] + 2 - Shift[e]) % 2]

\* Mutant: the condition is turned round, and the active entity compared with itself.
OthersMutant(selection, active) == selection \cap {active}
Others(selection, active) == selection \ {active}

\* collectComponents, markMixedFields, markMixedRotationAxes.
Snapshot(s, alive, selection, active) ==
    LET others == Others(selection, active) \cap alive
        allHave == \A e \in (selection \cap alive) \cup {active} : Has(e, s)
        field(i) == Rows(s[active].component)[i]
        mixed(i) == \E e \in others : Rows(s[e].component)[i].value # field(i).value
    IN  [selection |-> selection, active |-> active,
         rows |-> IF active \in alive /\ allHave
                  THEN [i \in DOMAIN Visit |-> [index |-> field(i).index, kind |-> field(i).kind,
                                                value |-> field(i).value, mixed |-> mixed(i)]]
                  ELSE <<>>,
         angles |-> IF active \in alive THEN s[active].angles ELSE <<>>,
         anglesMixed |-> IF active \notin alive THEN {}
                         ELSE {x \in Axes : \E e \in others : s[e].angles[x] # s[active].angles[x]},
         addable |-> active \in alive /\ ~allHave]

Publish(s, alive, next) == shown' = Snapshot(s, alive, next.selection, next.active)

----------------------------------------------------------------------------
\* The panel's commands, for the selection and the rows of the snapshot.

Send(c) ==
    /\ sent < EditBound /\ shown.active # NoEntity
    /\ queue' = Append(queue, [c EXCEPT !.entities = shown.selection]) /\ sent' = sent + 1
    /\ UNCHANGED <<scene, live, ready, session, edits, records, shown, chosen>>

\* drawField, drawAssetPicker: a mixed row takes any value, another one a new one.
EditRow ==
    \E i \in DOMAIN shown.rows : \E v \in Holds(shown.rows[i].kind) :
      /\ shown.rows[i].mixed \/ v # shown.rows[i].value
      /\ v # NoAsset
      /\ Send([kind |-> shown.rows[i].kind, entities |-> {}, index |-> shown.rows[i].index, value |-> v])

\* drawTransform, sendAxes: the active entity takes all its angles as shown.
EditAngle ==
    \E x \in Axes, v \in Numbers, inWorld \in BOOLEAN :
      /\ shown.angles # <<>>
      /\ LET at == IF inWorld THEN World(shown.active, shown.angles) ELSE shown.angles
         IN  /\ at[x] # v
             /\ Send([kind |-> IF inWorld THEN "world" ELSE "local", entities |-> {}, active |-> shown.active,
                      angles |-> [at EXCEPT ![x] = v], axis |-> x, value |-> v])

AddComponent == shown.addable /\ Send([kind |-> "add", entities |-> {}])
RemoveComponent == shown.rows # <<>> /\ Send([kind |-> "remove", entities |-> {}])
Rename == \E v \in Numbers : Send([kind |-> "rename", entities |-> {}, value |-> v])

----------------------------------------------------------------------------
\* The commands.  A write makes [entity, held]: what the entity holds after it.

Reached(c) == c.entities \cap live
Kept(e) == [entity |-> e, held |-> scene[e]]

\* Mutant: the other entities take all the active entity's angles.
AnglesMutant(c, e, angles) == c.angles
Angles(c, e, angles) == IF e = c.active THEN c.angles ELSE [angles EXCEPT ![c.axis] = c.value]

Written(c, e) ==
    LET h == scene[e]
    IN  CASE c.kind \in {"number", "asset"} ->
               IF Has(e, scene) THEN [h EXCEPT !.component = SetField(@, c.index, c.value)] ELSE h
          [] c.kind = "local" -> [h EXCEPT !.angles = Angles(c, e, @)]
          [] c.kind = "world" -> [h EXCEPT !.angles = Local(e, Angles(c, e, World(e, @)))]
          [] c.kind = "add" -> IF Has(e, scene) THEN h
                               ELSE [h EXCEPT !.component = [fixed |-> 0, number |-> 0, asset |-> NoAsset]]
          [] c.kind = "remove" -> [h EXCEPT !.component = NoComponent]
          [] c.kind = "rename" -> [h EXCEPT !.name = c.value]

\* SetAssetFieldCommand: the asset is loaded for the scene before it is set.
\* Mutant: an asset that did not load is set all the same.
LoadMutant(c) ==
    c.kind = "asset" /\ (\E e \in Reached(c) : Has(e, scene)) /\ ready' \in {ready, ready \cup {c.value}}
Load(c) ==
    /\ c.kind = "asset"
    /\ \E e \in Reached(c) : Has(e, scene) /\ Rows(scene[e].component)[c.index + 1].value # c.value
    /\ ready' = ready \cup {c.value}

\* Mutant: what an entity held is recorded after the write.
OldMutant(c, e) == [entity |-> e, held |-> Written(c, e)]
Old(c, e) == Kept(e)

\* Writes to the entities that take it: each one that changes leaves a record,
\* and the scene counts as edited if one did.
Write(c, takers) ==
    LET changed == {e \in takers : Written(c, e) # scene[e]}
    IN  /\ scene' = [e \in Entities |-> IF e \in changed THEN Written(c, e) ELSE scene[e]]
        /\ records' = records \o SetToSeq({Old(c, e) : e \in changed})
        /\ edits' = edits + IF c.kind \in {"add", "remove"} THEN Cardinality(changed)
                            ELSE Cardinality({c.kind : e \in changed})

Apply ==
    /\ queue # <<>> /\ queue' = Tail(queue)
    /\ LET c == Head(queue)
       IN  \/ c.kind \notin {"asset", "world"} /\ Write(c, Reached(c)) /\ UNCHANGED ready
           \/ Load(c) /\ Write(c, Reached(c))
           \/ /\ c.kind = "world"   \* Transform::setWorld may refuse some
              /\ \E takers \in SUBSET Reached(c) : Write(c, takers)
              /\ UNCHANGED ready
    /\ IF queue' = <<>> THEN Publish(scene', live, session) ELSE UNCHANGED shown
    /\ UNCHANGED <<live, session, sent, chosen>>

\* An asset that does not load, or that every entity holds, is not set.
ApplyRefused ==
    /\ queue # <<>> /\ Head(queue).kind = "asset" /\ queue' = Tail(queue)
    /\ IF queue' = <<>> THEN Publish(scene, live, session) ELSE UNCHANGED shown
    /\ UNCHANGED <<scene, live, ready, session, edits, records, sent, chosen>>

\* Another panel selects, or destroys an entity.
Select ==
    /\ chosen < SelectBound /\ chosen' = chosen + 1
    /\ \E selection \in SUBSET live : \E active \in selection :
         /\ selection # session.selection \/ active # session.active
         /\ session' = [selection |-> selection, active |-> active]
    /\ Publish(scene, live, session')
    /\ UNCHANGED <<scene, live, ready, edits, records, queue, sent>>
Destroy ==
    /\ Cardinality(live) > 1
    /\ \E e \in live : live' = live \ {e}
    /\ session' = [selection |-> session.selection \cap live',
                   active |-> IF session.active \in live' THEN session.active ELSE NoEntity]
    /\ Publish(scene, live', session')
    /\ UNCHANGED <<scene, ready, edits, records, queue, sent, chosen>>

----------------------------------------------------------------------------
Init ==
    /\ scene = Start /\ live = Entities /\ ready = {NoAsset}
    /\ session = [selection |-> {}, active |-> NoEntity]
    /\ edits = 0 /\ records = <<>> /\ queue = <<>> /\ sent = 0 /\ chosen = 0
    /\ shown = Snapshot(scene, live, {}, NoEntity)
Next ==
    \/ EditRow \/ EditAngle \/ AddComponent \/ RemoveComponent \/ Rename
    \/ Apply \/ ApplyRefused \/ Select \/ Destroy
Spec == Init /\ [][Next]_vars

----------------------------------------------------------------------------
\* The records, taken back from the last, lead to the scene as it was opened.
Undone ==
    LET back[n \in 0 .. Len(records)] ==
          IF n = Len(records) THEN scene
          ELSE [back[n + 1] EXCEPT ![records[n + 1].entity] = records[n + 1].held]
    IN  back[0]
RecordsUndo == Undone = Start

\* An asset an entity names is one the cache holds for the scene.
AssetsHeld == \A e \in live : Has(e, scene) => scene[e].component.asset \in ready

\* While no command is on its way, a row that is not mixed shows what every
\* selected entity holds.
RowsTrue ==
    \A i \in DOMAIN shown.rows : queue = <<>> /\ ~shown.rows[i].mixed =>
        \A e \in shown.selection \cap live : scene[e].component[shown.rows[i].kind] = shown.rows[i].value

InspectorSound == RecordsUndo /\ AssetsHeld /\ RowsTrue

\* A value that is set lands in the row it was set in, and in no other, of every
\* entity that has one (an asset in all of them or in none); turning an axis of
\* several entities turns no other axis of any but the active one; the scene
\* counts as edited exactly when it changed.
EditLands ==
    [][/\ scene' # scene <=> edits' # edits
       /\ Len(queue') < Len(queue) => LET c == Head(queue) IN \A e \in Entities :
            LET old == scene[e] new == scene'[e]
            IN  /\ new # old => e \in c.entities \cap live
                /\ c.kind = "number" \/ (c.kind = "asset" /\ scene' # scene) =>
                     e \notin c.entities \cap live \/ ~Has(e, scene) \/ new.component = [old.component EXCEPT ![c.kind] = c.value]
                /\ c.kind \in {"local", "world"} /\ e # c.active =>
                     \A x \in Axes \ {c.axis} : new.angles[x] = old.angles[x]]_vars
=============================================================================
