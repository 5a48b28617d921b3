------------------------------ MODULE RowRuns ------------------------------
(***************************************************************************)
(* _changed_row_runs and encode_update of device/wmp_screen.py: which rows *)
(* an update carries.  Runs of changed rows absorb small gaps, are padded  *)
(* by a row on either side, stay inside the bands of the user interface    *)
(* and are merged again where the padding made them meet.                  *)
(***************************************************************************)
EXTENDS Integers, Sequences, FiniteSets

CONSTANTS
  Bands,       \* the bands from top to bottom, <<first, end>>
  Percent      \* DELTA_FULL_THRESHOLD

Height     == Bands[Len(Bands)][2]
ScreenRows == 0 .. Height - 1
Band(b)    == b[1] .. b[2] - 1

\* No row is in two bands or in none.
ASSUME RunsAssumption ==
  /\ Bands \in Seq(Nat \X Nat) /\ Bands # <<>> /\ Percent \in 0 .. 100
  /\ \A i \in DOMAIN Bands : Bands[i][1] < Bands[i][2]
  /\ \A i, j \in DOMAIN Bands : i < j => Bands[i][2] <= Bands[j][1]
  /\ \A y \in ScreenRows : \E i \in DOMAIN Bands : y \in Band(Bands[i])

VARIABLE changed      \* the rows in which two frames differ

---------------------------------------------------------------------------
\* Does row y belong to the last of these runs?  Two quiet rows are absorbed.
Absorbs(runs, y) == runs # <<>> /\ y <= runs[Len(runs)][2] + 3
\* A bug: it loses the last row of a run it extends.
ExtendedShort(runs, y) ==
  IF Absorbs(runs, y) THEN [runs EXCEPT ![Len(runs)] = <<@[1], y - 1>>]
  ELSE Append(runs, <<y, y>>)
\* One more changed row; a run is its first and last row so far.
Extended(runs, y) ==
  IF Absorbs(runs, y) THEN [runs EXCEPT ![Len(runs)] = <<@[1], y>>]
  ELSE Append(runs, <<y, y>>)

Larger(a, b)  == IF a > b THEN a ELSE b
Smaller(a, b) == IF a < b THEN a ELSE b
\* A bug: the padding leaves the band.
PaddedOut(b, run) == <<Larger(0, run[1] - 1), Smaller(Height, run[2] + 2)>>
\* A row above and below, as <<start, end>>.
Padded(b, run) == <<Larger(b[1], run[1] - 1), Smaller(b[2], run[2] + 2)>>

\* The runs of the changed rows before each row of a band.
RawRuns(b) ==
  LET before[y \in b[1] .. b[2]] ==
        IF y = b[1] THEN <<>>
        ELSE IF y - 1 \in changed THEN Extended(before[y - 1], y - 1) ELSE before[y - 1]
  IN  before[b[2]]
RunsOf(b) == LET runs == RawRuns(b) IN [i \in DOMAIN runs |-> Padded(b, runs[i])]

\* Those of the bands one after the other.
Unmerged ==
  LET upTo[i \in 0 .. Len(Bands)] ==
        IF i = 0 THEN <<>> ELSE upTo[i - 1] \o RunsOf(Bands[i])
  IN  upTo[Len(Bands)]

\* Runs that meet become one if they lie in one band.
Meets(runs, run) ==
  /\ runs # <<>> /\ run[1] <= runs[Len(runs)][2]
  /\ \E i \in DOMAIN Bands : /\ run[1] >= Bands[i][1] /\ run[2] <= Bands[i][2]
                             /\ runs[Len(runs)][1] >= Bands[i][1]
Merged(runs, run) ==
  IF Meets(runs, run) THEN [runs EXCEPT ![Len(runs)] = <<@[1], Larger(@[2], run[2])>>]
  ELSE Append(runs, run)
AllMerged(runs) ==
  LET merged[i \in 0 .. Len(runs)] == IF i = 0 THEN <<>> ELSE Merged(merged[i - 1], runs[i])
  IN  merged[Len(runs)]
Runs == AllMerged(Unmerged)

Carried(runs) == UNION {Band(runs[i]) : i \in DOMAIN runs}
Size(runs) ==
  LET rows[i \in 0 .. Len(runs)] == IF i = 0 THEN 0 ELSE rows[i - 1] + runs[i][2] - runs[i][1]
  IN  rows[Len(runs)]
\* encode_update sends all rows when nothing or too much has changed.
Update == IF Runs = <<>> \/ 100 * Size(Runs) >= Height * Percent
          THEN <<<<0, Height>>>> ELSE Runs

\* Two frames may differ anywhere.
RowsInit == changed = {}
Redraw(y) == changed' = (changed \ {y}) \cup ({y} \ changed)
RowsNext == \E y \in ScreenRows : Redraw(y)
RowsSpec == RowsInit /\ [][RowsNext]_changed

---------------------------------------------------------------------------
(* Properties *)

\* The reference: a row is carried if it or its neighbour in the band
\* changed, or if it lies in a gap of at most two rows between changes.
Reference ==
  UNION {{y \in Band(Bands[i]) :
            \/ \E x \in changed \cap Band(Bands[i]) : x - y \in -1 .. 1
            \/ \E x, z \in changed \cap Band(Bands[i]) : x < y /\ y < z /\ z - x <= 3}
         : i \in DOMAIN Bands}

\* The runs carry exactly the rows of the reference, so every changed row.
RunsAreReference == Carried(Runs) = Reference

\* An update carries every changed row and no row twice, inside the screen:
\* the count that decides on a full frame is the number of rows sent.
UpdateSound ==
  /\ changed \subseteq Carried(Update) /\ Carried(Update) \subseteq ScreenRows
  /\ Size(Update) = Cardinality(Carried(Update))
=============================================================================
