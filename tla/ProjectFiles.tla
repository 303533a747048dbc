---------------------------- MODULE ProjectFiles ----------------------------
(***************************************************************************)
(* The files of a project through the starts, saves and crashes of the     *)
(* editor: a write goes to a sibling that replaces the file once finished  *)
(* (FileAccess::write), the index of a start is made of what is on disk    *)
(* (AssetIndex.cpp), a project without a startup scene gets one            *)
(* (EditorApp::createStartupScene), and the scene is saved over its file   *)
(* (SaveSceneCommand.cpp).                                                 *)
(*                                                                         *)
(* A file is an ID and a body; the header of an asset, which the index     *)
(* reads, may be on disk before the rest is.  The startup scene names the  *)
(* mesh; the manifest names the startup scene.                             *)
(***************************************************************************)
EXTENDS Naturals, FiniteSets

CONSTANTS
    CrashBound,     \* bound: crashes and aborts
    SaveBound,      \* bound: saves
    IdBound         \* bound: IDs the index gives

Scene == "scene"
Mesh == "mesh"
Manifest == "manifest"
Paths == {Scene, Mesh, Manifest}

VARIABLES
    disk,           \* the files
    temporary,      \* their siblings with the suffix .tewrite
    at,             \* what the editor is doing
    writing,        \* the file it is writing, what, and how far
    records,        \* the AssetIndex: [id, path, sibling]
    taken,          \* IDs of the index and of its duplicates
    opened,         \* is the startup scene open from its file: "yes", "no", "adopted" by this start
    startup,        \* m_clientStartupScene; 0 is none
    body,           \* the scene in memory
    saved,          \* the body of the last save that was reported done
    issued, crashes, saves

vars == <<disk, temporary, at, writing, records, taken, opened, startup, body, saved, issued, crashes, saves>>

None == [id |-> 0, body |-> 0, names |-> 0, part |-> "none"]
File(id, b, names) == [id |-> id, body |-> b, names |-> names, part |-> "whole"]
Exists(f) == f.part # "none"
HasHeader(f) == f.part \in {"header", "whole"}
Idle == [path |-> Scene, file |-> None, step |-> "none"]

----------------------------------------------------------------------------
\* AssetIndex::build: an ID in two files is in neither record.  The sibling of
\* an unfinished write is a file like another.
Found == {[id |-> disk[p].id, path |-> p, sibling |-> FALSE] : p \in {q \in {Scene, Mesh} : HasHeader(disk[q])}}
         \cup {[id |-> temporary[p].id, path |-> p, sibling |-> TRUE] :
                  p \in {q \in {Scene, Mesh} : HasHeader(temporary[q])}}
\* Mutant: the first of two files with an ID is indexed.
UniqueMutant(found) == {r \in found : r.sibling \/ \A s \in found : s.id = r.id => ~s.sibling}
Unique(found) == {r \in found : \A s \in found : s.id = r.id => s = r}

RecordAt(rs, p) == {r \in rs : r.path = p /\ ~r.sibling}
ById(rs, id) == {r \in rs : r.id = id}
FileOf(r) == IF r.sibling THEN temporary[r.path] ELSE disk[r.path]

\* SceneAsset::load through LooseSource: the scene and the mesh it names.
Loads(rs, id) ==
    \E r \in ById(rs, id) : FileOf(r).part = "whole" /\ \E m \in ById(rs, FileOf(r).names) : FileOf(m).part = "whole"

----------------------------------------------------------------------------
\* FileAccess::write, in the steps a crash may come between.

Write(p, file) == writing' = [path |-> p, file |-> file, step |-> "open"]
Writing(step) == at # "down" /\ writing.step = step

OpenTemporary ==
    /\ Writing("open")
    /\ temporary' = [temporary EXCEPT ![writing.path] = [None EXCEPT !.part = "short"]]
    /\ writing' = [writing EXCEPT !.step = "write"]
    /\ UNCHANGED <<disk, at, records, taken, opened, startup, body, saved, issued, crashes, saves>>
WriteHeader ==
    /\ Writing("write")
    /\ temporary' = [temporary EXCEPT ![writing.path] = [writing.file EXCEPT !.part = "header"]]
    /\ writing' = [writing EXCEPT !.step = "close"]
    /\ UNCHANGED <<disk, at, records, taken, opened, startup, body, saved, issued, crashes, saves>>
CloseTemporary ==
    /\ Writing("close")
    /\ temporary' = [temporary EXCEPT ![writing.path] = writing.file]
    /\ writing' = [writing EXCEPT !.step = "rename"]
    /\ UNCHANGED <<disk, at, records, taken, opened, startup, body, saved, issued, crashes, saves>>
\* Mutant: the file is replaced before the rest of it is written.
MayReplaceMutant == Writing("close")
MayReplace == Writing("rename")
Replace ==
    /\ MayReplace
    /\ disk' = [disk EXCEPT ![writing.path] = temporary[writing.path]]
    /\ temporary' = [temporary EXCEPT ![writing.path] = None]
    /\ writing' = [writing EXCEPT !.step = "done"]
    /\ UNCHANGED <<at, records, taken, opened, startup, body, saved, issued, crashes, saves>>
\* Any step may fail: the sibling is discarded, unless that fails too.
WriteFails ==
    /\ at # "down" /\ writing.step \notin {"none", "done", "failed"}
    /\ \/ temporary' = [temporary EXCEPT ![writing.path] = IF writing.step = "open" THEN @ ELSE None]
       \/ UNCHANGED temporary
    /\ writing' = [writing EXCEPT !.step = "failed"]
    /\ UNCHANGED <<disk, at, records, taken, opened, startup, body, saved, issued, crashes, saves>>

----------------------------------------------------------------------------
\* EditorApp::init and simulationStartupLoad.

Start ==
    /\ at = "down"
    /\ records' = Unique(Found) /\ taken' = {r.id : r \in Found}
    /\ startup' = disk[Manifest].names
    /\ IF disk[Manifest].names # 0
       THEN /\ opened' = IF Loads(records', startup') THEN "yes" ELSE "no"
            /\ body' = IF opened' = "yes" THEN FileOf(CHOOSE r \in ById(records', startup') : TRUE).body ELSE 0
            /\ at' = "open"
       ELSE opened' = "no" /\ body' = 0 /\ at' = "create"
    /\ UNCHANGED <<disk, temporary, writing, saved, issued, crashes, saves>>

Down == at' = "down" /\ writing' = Idle /\ crashes' = crashes + 1

\* createStartupScene: a scene that is there becomes the startup scene, but is
\* not loaded by this start.
AdoptScene ==
    /\ at = "create" /\ \E r \in RecordAt(records, Scene) : startup' = r.id
    /\ opened' = "adopted"
    /\ Write(Manifest, File(0, 0, startup')) /\ at' = "manifest"
    /\ UNCHANGED <<disk, temporary, records, taken, body, saved, issued, crashes, saves>>

\* requireNewAssetPath aborts on a file that is there and not indexed.
Refused(p) == at = "create" /\ RecordAt(records, Scene) = {} /\ RecordAt(records, p) = {} /\ Exists(disk[p])
Abort ==
    /\ crashes < CrashBound
    /\ \/ Refused(Scene) \/ Refused(Mesh)
       \/ writing.step = "failed" /\ at \in {"mesh", "scene", "manifest"}
    /\ Down
    /\ UNCHANGED <<disk, temporary, records, taken, opened, startup, body, saved, issued, saves>>

NewId == issued + 1
CreateMesh ==
    /\ at = "create" /\ RecordAt(records, Scene) = {} /\ RecordAt(records, Mesh) = {}
    /\ ~Exists(disk[Scene]) /\ ~Exists(disk[Mesh]) /\ issued < IdBound
    /\ issued' = NewId
    /\ Write(Mesh, File(NewId, 1, 0)) /\ at' = "mesh"
    /\ UNCHANGED <<disk, temporary, records, taken, opened, startup, body, saved, crashes, saves>>

Add(id, p) ==
    records' = records \cup {[id |-> id, path |-> p, sibling |-> FALSE]} /\ taken' = taken \cup {id}
WriteScene(meshId) ==
    /\ issued < IdBound /\ issued' = NewId
    /\ Write(Scene, File(NewId, 1, meshId)) /\ at' = "scene"
CreateScene ==
    /\ \/ /\ at = "mesh" /\ writing.step = "done"
          /\ Add(writing.file.id, Mesh) /\ WriteScene(writing.file.id)
       \/ /\ at = "create" /\ RecordAt(records, Scene) = {} /\ ~Exists(disk[Scene])
          /\ \E r \in RecordAt(records, Mesh) : WriteScene(r.id)
          /\ UNCHANGED <<records, taken>>
    /\ UNCHANGED <<disk, temporary, opened, startup, body, saved, crashes, saves>>
NameScene ==
    /\ at = "scene" /\ writing.step = "done"
    /\ Add(writing.file.id, Scene)
    /\ startup' = writing.file.id
    /\ opened' = IF Loads(records', startup') THEN "yes" ELSE "no"
    /\ body' = IF opened' = "yes" THEN 1 ELSE 0
    /\ Write(Manifest, File(0, 0, startup')) /\ at' = "manifest"
    /\ UNCHANGED <<disk, temporary, saved, issued, crashes, saves>>
Open ==
    /\ at = "manifest" /\ writing.step = "done"
    /\ at' = "open" /\ writing' = Idle
    /\ UNCHANGED <<disk, temporary, records, taken, opened, startup, body, saved, issued, crashes, saves>>

----------------------------------------------------------------------------
\* SaveSceneCommand::apply: only a scene that was opened from its file.
Save ==
    /\ at = "open" /\ opened = "yes" /\ saves < SaveBound
    /\ saves' = saves + 1 /\ body' = body + 1
    /\ Write(Scene, File(startup, body', disk[Scene].names)) /\ at' = "save"
    /\ UNCHANGED <<disk, temporary, records, taken, opened, startup, saved, issued, crashes>>
SaveEnds ==
    /\ at = "save" /\ writing.step \in {"done", "failed"}
    /\ saved' = IF writing.step = "done" THEN body ELSE saved
    /\ at' = "open" /\ writing' = Idle
    /\ UNCHANGED <<disk, temporary, records, taken, opened, startup, body, issued, crashes, saves>>

\* The editor stops, or crashes at any step.
Crash ==
    /\ at # "down" /\ crashes < CrashBound /\ Down
    /\ UNCHANGED <<disk, temporary, records, taken, opened, startup, body, saved, issued, saves>>

----------------------------------------------------------------------------
Init ==
    /\ disk = [p \in Paths |-> IF p = Manifest THEN File(0, 0, 0) ELSE None]
    /\ temporary = [p \in Paths |-> None]
    /\ at = "down" /\ writing = Idle /\ records = {} /\ taken = {}
    /\ opened = "no" /\ startup = 0 /\ body = 0 /\ saved = 0
    /\ issued = 0 /\ crashes = 0 /\ saves = 0
Next ==
    \/ OpenTemporary \/ WriteHeader \/ CloseTemporary \/ Replace \/ WriteFails
    \/ Start \/ AdoptScene \/ Abort \/ CreateMesh \/ CreateScene \/ NameScene \/ Open
    \/ Save \/ SaveEnds \/ Crash
Spec == Init /\ [][Next]_vars

----------------------------------------------------------------------------
\* No crash or failure leaves a part of a file where the file was.
FilesWhole == \A p \in Paths : disk[p].part \in {"none", "whole"}

\* What is named is there: the manifest's scene, and the scene's mesh.
NamesResolve ==
    /\ disk[Manifest].names # 0 => disk[Manifest].names = disk[Scene].id
    /\ Exists(disk[Scene]) => disk[Scene].names = disk[Mesh].id

\* A save that was reported done survives what comes after.
SavesSurvive == saved # 0 => disk[Scene].body >= saved

\* A start that knows its startup scene opens it, unless a crash left a sibling
\* with the scene's ID, which keeps both out of the index.
StartOpens ==
    at \in {"open", "save"} /\ opened = "no" =>
        disk[Scene].id \in taken /\ disk[Scene].id \notin {r.id : r \in records}

\* The scene file a session saves to is the one the manifest will open.
SavesToStartup ==
    at \in {"open", "save"} /\ opened = "yes" => disk[Scene].id = startup /\ startup = disk[Manifest].names
FilesSound == FilesWhole /\ NamesResolve /\ SavesSurvive /\ StartOpens /\ SavesToStartup
=============================================================================
