----------------------------- MODULE FileMounts -----------------------------
(***************************************************************************)
(* Virtual paths: what splitVirtualPath refuses (VirtualPath.cpp), which   *)
(* root a path of a mount resolves to (MountTable.cpp), and the operations *)
(* on files and folders above them (FileAccess.cpp).  How a write replaces *)
(* a file is ProjectFiles's.                                               *)
(*                                                                         *)
(* Two roots share an alias; a path is a sequence of names; every write    *)
(* has a content of its own.  Where a call of the system fails midway the  *)
(* outcome is IoError, which this module leaves out.                       *)
(***************************************************************************)
EXTENDS Naturals, FiniteSets, SequencesExt

CONSTANTS
    RootPriority,   \* the roots to mount under the alias, and their priorities
    Paths,          \* the paths below a root
    CallBound,      \* bound: calls that change files
    TextBound,      \* bound: length of the relative paths of ParentRefused
    Width           \* bits of an offset

VARIABLES
    entries,        \* m_entries: the mounted roots, in the order they are searched
    disk,           \* what is at each path of each root: "none", "folder", or a content
    calls,          \* the calls made, each one a content to write
    last,           \* the last call: [call, path, error]
    owed            \* history: the contents written and not removed or written over by name

vars == <<entries, disk, calls, last, owed>>

Roots == DOMAIN RootPriority
Exists(r, p) == disk[r][p] # "none"

----------------------------------------------------------------------------
\* VirtualPath.cpp: a relative path as its characters.

Texts == UNION {[1 .. n -> {"dot", "slash", "letter"}] : n \in 0 .. TextBound}
DotsAt(t, i) == i < Len(t) /\ t[i] = "dot" /\ t[i + 1] = "dot"

\* Mutant: only a segment that a slash follows is found.
EndsMutant(t, i) == i + 2 <= Len(t) /\ t[i + 2] = "slash"
Ends(t, i) == i + 2 > Len(t) \/ t[i + 2] = "slash"

\* hasParentSegment goes on behind the two dots it found.
HasParentSegment(t) ==
    LET from[i \in 1 .. Len(t) + 2] ==
          IF i > Len(t) THEN FALSE
          ELSE IF ~DotsAt(t, i) THEN from[i + 1]
          ELSE ((i = 1 \/ t[i - 1] = "slash") /\ Ends(t, i)) \/ from[i + 2]
    IN  from[1]

\* readRange's check, where a sum is cut to Width bits.
Sum(x, y) == (x + y) % 2 ^ Width
\* Mutant: the wrapped sum is not looked at.
InRangeMutant(offset, size, fileSize) == Sum(offset, size) <= fileSize
InRange(offset, size, fileSize) == Sum(offset, size) >= offset /\ Sum(offset, size) <= fileSize

----------------------------------------------------------------------------
\* MountTable.cpp

Mounted == ToSet(entries)
\* Mutant: the order is turned round.
GoesBeforeMutant(r, s) == RootPriority[s] > RootPriority[r]
GoesBefore(r, s) == RootPriority[s] < RootPriority[r]
Mount ==
    /\ \E r \in Roots \ Mounted :
         LET later == {i \in DOMAIN entries : GoesBefore(r, entries[i])}
             at == IF later = {} THEN Len(entries) + 1 ELSE CHOOSE i \in later : \A j \in later : i <= j
         IN  /\ entries' = InsertAt(entries, at, r)
             /\ last' = [call |-> "mount", path |-> <<>>, error |-> "none"]
    /\ UNCHANGED <<disk, calls, owed>>
Unmount ==
    /\ entries # <<>> /\ entries' = <<>>
    /\ last' = [call |-> "unmount", path |-> <<>>, error |-> "none"]
    /\ UNCHANGED <<disk, calls, owed>>

\* exists() of a disk that takes a name in any case.
OtherCase(name) == CASE name = "x" -> "X" [] name = "X" -> "x" [] OTHER -> name
SameName(p, q) == Len(p) = Len(q) /\ \A i \in DOMAIN p : q[i] \in {p[i], OtherCase(p[i])}
ExistsAnyCase(r, p) == \E q \in Paths : Exists(r, q) /\ SameName(p, q)

\* Mutant: the spelling of a name is not looked at.
MatchesOnDiskCaseMutant(r, p) == TRUE
MatchesOnDiskCase(r, p) == \A n \in DOMAIN p : Exists(r, SubSeq(p, 1, n))

\* The first root the disk says has the path, and has it in this spelling.
Resolve(p, there) ==
    LET hits == {i \in DOMAIN entries : entries[i] \in there /\ MatchesOnDiskCase(entries[i], p)}
    IN  IF hits = {} THEN "none" ELSE entries[CHOOSE i \in hits : \A j \in hits : i <= j]
ResolveExisting(p) == Resolve(p, {r \in Roots : Exists(r, p)})
\* Where a path is made, whatever lies in the other roots.
ForCreate == IF entries = <<>> THEN {} ELSE {entries[1]}

----------------------------------------------------------------------------
\* FileAccess.cpp

Parent(p) == Front(p)
HasParent(r, p) == IF Len(p) = 1 THEN TRUE ELSE Exists(r, Parent(p))
InFolder(r, p) == IF Len(p) = 1 THEN TRUE ELSE disk[r][Parent(p)] = "folder"
Below(p) == {q \in Paths : IsPrefix(p, q)}
IsFolder(r, p) == disk[r][p] = "folder"

Call(name, p, error) ==
    /\ entries # <<>> /\ calls < CallBound /\ calls' = calls + 1
    /\ last' = [call |-> name, path |-> p, error |-> error]
    /\ UNCHANGED entries
Refuse(name, p, error) == Call(name, p, error) /\ UNCHANGED <<disk, owed>>

Write ==
    \E p \in Paths, r \in ForCreate :
      \/ IsFolder(r, p) /\ Refuse("write", p, "IsADirectory")
      \/ ~IsFolder(r, p) /\ ~HasParent(r, p) /\ Refuse("write", p, "NotFound")
      \/ /\ ~IsFolder(r, p) /\ InFolder(r, p)
         /\ disk' = [disk EXCEPT ![r][p] = ToString(calls)]
         /\ owed' = (owed \ {disk[r][p]}) \cup {ToString(calls)}
         /\ Call("write", p, "none")

\* create_directories makes the folders above, too.
CreateDirectory ==
    \E p \in Paths, r \in ForCreate :
      \/ Exists(r, p) /\ Refuse("createDirectory", p, "AlreadyExists")
      \/ /\ ~Exists(r, p) /\ (\A q \in Paths : IsPrefix(q, p) => disk[r][q] \in {"none", "folder"})
         /\ disk' = [disk EXCEPT ![r] = [q \in Paths |-> IF IsPrefix(q, p) THEN "folder" ELSE @[q]]]
         /\ Call("createDirectory", p, "none") /\ UNCHANGED owed

RemovePath ==
    \E p \in Paths, r \in ForCreate, recursive \in BOOLEAN :
      \/ ~Exists(r, p) /\ Refuse("remove", p, "NotFound")
      \/ ~recursive /\ (\E q \in Below(p) \ {p} : Exists(r, q)) /\ Refuse("remove", p, "NotEmpty")
      \/ /\ Exists(r, p) /\ (recursive \/ \A q \in Below(p) \ {p} : ~Exists(r, q))
         /\ disk' = [disk EXCEPT ![r] = [q \in Paths |-> IF q \in Below(p) THEN "none" ELSE @[q]]]
         /\ owed' = owed \ {disk[r][q] : q \in Below(p)}
         /\ Call("remove", p, "none")

\* What is at and below from, put at to; the source is left if it is copied.
At(from, to, q) == from \o SubSeq(q, Len(to) + 1, Len(q))
Transferred(rFrom, from, rTo, to, keep) ==
    LET taken == [disk EXCEPT ![rFrom] =
                    [q \in Paths |-> IF q \in Below(from) /\ ~keep THEN "none" ELSE @[q]]]
    IN  [taken EXCEPT ![rTo] =
           [q \in Paths |-> IF q \in Below(to)
                            THEN IF At(from, to, q) \in Paths THEN disk[rFrom][At(from, to, q)] ELSE "none"
                            ELSE @[q]]]
Fits(r, from, to) ==
    /\ ~IsPrefix(from, to)
    /\ \A q \in Below(from) : Exists(r, q) => At(to, from, q) \in Paths

\* resolveTransfer of copy and move.
\* Mutant: what is at the destination is not looked at.
OccupiedMutant(r, p) == FALSE
Occupied(r, p) == Exists(r, p)
Transfer(name, keep) ==
    \E from, to \in Paths, r \in ForCreate : LET s == ResolveExisting(from) IN
      \/ s = "none" /\ Refuse(name, from, "NotFound")
      \/ s # "none" /\ Occupied(r, to) /\ Refuse(name, from, "AlreadyExists")
      \/ s # "none" /\ ~Occupied(r, to) /\ ~HasParent(r, to) /\ Refuse(name, from, "NotFound")
      \/ /\ s # "none" /\ ~Occupied(r, to) /\ InFolder(r, to) /\ Fits(s, from, to)
         /\ disk' = Transferred(s, from, r, to, keep) /\ Call(name, from, "none") /\ UNCHANGED owed
Copy == Transfer("copy", TRUE)
Move == Transfer("move", FALSE)

\* rename stays in the folder the path resolves to, in whichever root that is.
Rename ==
    \E from, to \in Paths : LET s == ResolveExisting(from) IN
      /\ Len(from) = Len(to) /\ Parent(from) = Parent(to)
      /\ \/ s = "none" /\ Refuse("rename", from, "NotFound")
         \/ s # "none" /\ Exists(s, to) /\ Refuse("rename", from, "AlreadyExists")
         \/ /\ s # "none" /\ ~Exists(s, to) /\ Fits(s, from, to)
            /\ disk' = Transferred(s, from, s, to, FALSE) /\ Call("rename", from, "none") /\ UNCHANGED owed

----------------------------------------------------------------------------
Init ==
    /\ entries = <<>>
    /\ disk = [r \in Roots |-> [p \in Paths |-> "none"]]
    /\ calls = 0 /\ last = [call |-> "none", path |-> <<>>, error |-> "none"]
    /\ owed = {}
Next == Mount \/ Unmount \/ Write \/ CreateDirectory \/ RemovePath \/ Copy \/ Move \/ Rename
Spec == Init /\ [][Next]_vars

----------------------------------------------------------------------------
\* A relative path is refused exactly if one of its segments is "..".
Boundary(t, i) == i = 0 \/ i = Len(t) + 1 \/ t[i] = "slash"
ParentRefused ==
    \A t \in Texts : HasParentSegment(t) <=>
        \E i, j \in 0 .. Len(t) + 1 : j = i + 3 /\ Boundary(t, i) /\ Boundary(t, j) /\ DotsAt(t, i + 1)

\* A range is read exactly if it lies in the file, whatever its sum wraps to.
RangeInFile ==
    \A offset, size, fileSize \in 0 .. 2 ^ Width - 1 : InRange(offset, size, fileSize) <=> offset + size <= fileSize

\* Roots are searched by priority.
MountsSorted == \A i, j \in DOMAIN entries : i < j => RootPriority[entries[i]] >= RootPriority[entries[j]]

\* A path resolves to the same root on a disk that tells cases apart and on one
\* that does not.
SameOnEveryDisk == \A p \in Paths : ResolveExisting(p) = Resolve(p, {r \in Roots : ExistsAnyCase(r, p)})

\* Nothing lies in a file or outside of a folder.
FoldersSound == \A r \in Roots, p \in Paths : Exists(r, p) /\ Len(p) > 1 => IsFolder(r, Parent(p))

\* What was written last is what its path reads, until it is called upon again.
ReadsBack ==
    last.call = "write" /\ last.error = "none" =>
        /\ ResolveExisting(last.path) # "none"
        /\ disk[ResolveExisting(last.path)][last.path] = ToString(calls - 1)

\* A content is lost only by a remove or a write that names its path: not by
\* copying, moving, renaming or mounting.
NothingLost == owed \subseteq {disk[r][p] : r \in Roots, p \in Paths}

\* (The first two are about every state: they are looked at in one.)
MountsSound ==
    /\ calls = 0 /\ entries = <<>> => ParentRefused /\ RangeInFile
    /\ MountsSorted /\ SameOnEveryDisk /\ FoldersSound /\ ReadsBack /\ NothingLost
=============================================================================
