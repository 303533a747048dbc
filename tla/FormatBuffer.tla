---------------------------- MODULE FormatBuffer ----------------------------
(***************************************************************************)
(* The fixed buffer a record's text is formatted into (FormatBuffer.hpp):  *)
(* characters beyond its capacity are dropped and the end is overwritten   *)
(* with a marker; when the formatter throws, the text so far is replaced   *)
(* by the error.  A character is only told by where it comes from.         *)
(***************************************************************************)
EXTENDS Naturals, SequencesExt

CONSTANTS
    Capacity, MarkerSize,
    LengthBound     \* bound: characters the formatter produces

VARIABLES
    data, truncated,
    produced,       \* history: the characters pushed since the last reset
    stage           \* "format", "error", "done"

vars == <<data, truncated, produced, stage>>

Init == data = <<>> /\ truncated = FALSE /\ produced = <<>> /\ stage = "format"

\* FormatBuffer::push.
Pushed(d, c) == IF Len(d) < Capacity THEN Append(d, c) ELSE d

PushOne(c) ==
    /\ Len(produced) < LengthBound
    /\ data' = Pushed(data, c)
    /\ truncated' = (truncated \/ Len(data) >= Capacity)
    /\ produced' = Append(produced, c)
    /\ UNCHANGED stage

Format == stage = "format" /\ PushOne("text")

\* The formatter throws.  Mutant: the flag stays set from the text it replaces.
TruncatedAfterErrorMutant == truncated
TruncatedAfterError == FALSE
Throw ==
    /\ stage = "format"
    /\ data' = <<>> /\ truncated' = TruncatedAfterError /\ produced' = <<>>
    /\ stage' = "error"

FormatError == stage = "error" /\ PushOne("error")

Marker == [i \in 1 .. MarkerSize |-> "marker"]
\* Mutant: the marker is pushed behind the text.
CutMutant(d) == d
\* What stays of the text before the marker.
Cut(d) == SubSeq(d, 1, IF Len(d) > MarkerSize THEN Len(d) - MarkerSize ELSE 0)

Marked(d) == FoldLeft(Pushed, Cut(d), Marker)

\* markTruncated.
Finish ==
    /\ stage \in {"format", "error"}
    /\ data' = IF truncated THEN Marked(data) ELSE data
    /\ stage' = "done"
    /\ UNCHANGED <<truncated, produced>>

Next == Format \/ Throw \/ FormatError \/ Finish
Spec == Init /\ [][Next]_vars

\* The text fits; it is complete and unmarked, or ends in the marker (as much of
\* it as fits); a text that failed half way leaves nothing in front of its error.
TextSound ==
    /\ Len(data) <= Capacity
    /\ stage = "done" =>
         IF Len(produced) <= Capacity THEN data = produced
         ELSE LET m == IF MarkerSize < Capacity THEN MarkerSize ELSE Capacity
              IN /\ SubSeq(data, Len(data) - m + 1, Len(data)) = SubSeq(Marker, 1, m)
                 /\ SubSeq(data, 1, Len(data) - m) = SubSeq(produced, 1, Len(data) - m)
=============================================================================
