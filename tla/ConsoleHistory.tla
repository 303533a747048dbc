--------------------------- MODULE ConsoleHistory ---------------------------
(***************************************************************************)
(* The records the editor's console keeps and the rows it shows            *)
(* (ConsoleHistory.cpp, ConsolePanel.cpp): a bounded list, a count per     *)
(* level, the levels and the text the user filters by, and the list of     *)
(* visible rows, which indexes the records.  A record is its number, its   *)
(* level and whether its message contains the searched text; the panel     *)
(* keeps a copy of the record the user selected.                           *)
(***************************************************************************)
EXTENDS Naturals, Sequences, FiniteSets, SequencesExt

CONSTANTS
    Levels,
    RecordCapacity,     \* RECORD_CAPACITY
    BatchSize,          \* bound: records per drain
    RecordBound         \* bound: records in all

VARIABLES records, levelCounts, levelShown, searching, visibleRows, selected, added

vars == <<records, levelCounts, levelShown, searching, visibleRows, selected, added>>

NoRecord == [id |-> 0, level |-> CHOOSE l \in Levels : TRUE, found |-> FALSE]

Init ==
    /\ records = <<>> /\ visibleRows = <<>> /\ searching = FALSE /\ added = 0
    /\ levelCounts = [l \in Levels |-> 0]
    /\ levelShown = [l \in Levels |-> TRUE]
    /\ selected = NoRecord

PassesFilter(r, shown, search) == shown[r.level] /\ (search => r.found)

\* rebuildVisibleRows.
VisibleRows(rs, shown, search) ==
    SelectSeq([i \in DOMAIN rs |-> i], LAMBDA i : PassesFilter(rs[i], shown, search))

\* Mutant: the record that leaves keeps its place in the counts.
ForgottenMutant(counts, r) == counts
Forgotten(counts, r) == [counts EXCEPT ![r.level] = @ - 1]

\* push, on the records and the counts.
Push(h, r) ==
    LET full == Len(h.records) >= RecordCapacity
        counts == IF full THEN Forgotten(h.counts, Head(h.records)) ELSE h.counts
    IN [records |-> Append(IF full THEN Tail(h.records) ELSE h.records, r),
        counts |-> [counts EXCEPT ![r.level] = @ + 1]]

\* Mutant: the rows are not rebuilt when a drain only drops records.
RowsAfterAddMutant(rs) == IF Len(rs) = Len(records) THEN visibleRows ELSE VisibleRows(rs, levelShown, searching)
RowsAfterAdd(rs) == VisibleRows(rs, levelShown, searching)

DroppedRow(id) == [id |-> id, level |-> CHOOSE l \in Levels : \A m \in Levels : l <= m, found |-> FALSE]

\* add(): a row for what was dropped, then the batch.
Add(dropped, levels, founds) ==
    LET n == Len(levels) + (IF dropped THEN 1 ELSE 0)
        first == added + 1 + (n - Len(levels))
        batch == (IF dropped THEN <<DroppedRow(added + 1)>> ELSE <<>>) \o
                 [i \in DOMAIN levels |-> [id |-> first + i - 1, level |-> levels[i], found |-> founds[i]]]
        h == FoldLeft(Push, [records |-> records, counts |-> levelCounts], batch)
    IN /\ added + n <= RecordBound
       /\ added' = added + n
       /\ records' = h.records /\ levelCounts' = h.counts
       /\ visibleRows' = RowsAfterAdd(h.records)
       /\ UNCHANGED <<levelShown, searching, selected>>

\* The panel's Clear button.
Clear ==
    /\ records' = <<>> /\ visibleRows' = <<>> /\ selected' = NoRecord
    /\ levelCounts' = [l \in Levels |-> 0]
    /\ UNCHANGED <<levelShown, searching, added>>

SetLevelShown(l) ==
    /\ levelShown' = [levelShown EXCEPT ![l] = ~@]
    /\ visibleRows' = VisibleRows(records, levelShown', searching)
    /\ UNCHANGED <<records, levelCounts, searching, selected, added>>

SetSearch ==
    /\ searching' = ~searching
    /\ visibleRows' = VisibleRows(records, levelShown, searching')
    /\ UNCHANGED <<records, levelCounts, levelShown, selected, added>>

Select(row) ==
    /\ selected' = records[visibleRows[row]]
    /\ UNCHANGED <<records, levelCounts, levelShown, searching, visibleRows, added>>

Next ==
    \/ \E dropped \in BOOLEAN, n \in 0 .. BatchSize :
          \E levels \in [1 .. n -> Levels], founds \in [1 .. n -> BOOLEAN] : Add(dropped, levels, founds)
    \/ Clear \/ SetSearch
    \/ \E l \in Levels : SetLevelShown(l)
    \/ \E row \in DOMAIN visibleRows : Select(row)

Spec == Init /\ [][Next]_vars

\* Every row names a record that is still there, the rows are those the filter
\* lets through, in order, and the counts are those of the records kept, whatever
\* left at the front since the rows were built.
HistorySound ==
    /\ Len(records) <= RecordCapacity
    /\ \A i \in DOMAIN visibleRows : visibleRows[i] \in DOMAIN records
    /\ [i \in DOMAIN visibleRows |-> records[visibleRows[i]]]
         = SelectSeq(records, LAMBDA r : PassesFilter(r, levelShown, searching))
    /\ \A l \in Levels : levelCounts[l] = Cardinality({i \in DOMAIN records : records[i].level = l})
    /\ \A i \in 1 .. Len(records) - 1 : records[i].id + 1 = records[i + 1].id
=============================================================================
