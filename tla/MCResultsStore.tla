--------------------------- MODULE MCResultsStore ---------------------------
(***************************************************************************)
(* Instances of ResultsStore.  Two basenames in one bucket, two axes: "a1" *)
(* is on the front when the processes start, "k1" is a watchdog kill from  *)
(* before the migration, "b1" beats a1 until "a2" completes a1's point to  *)
(* a tie, "s1" is a point of a Morris screen and "f1" a failed Trial.      *)
(* "v1" is such a kill that bears the mark in its status, and "o1" a row   *)
(* older than the trial_id column.                                         *)
(***************************************************************************)
EXTENDS ResultsStore, TLC

CONSTANTS p1, p2

MCAxes == {"tps", "coding"}
MCScores == 1..2
MCModels == {"A", "B"}
MCBuckets == {8, 16}

Base == [ model |-> "A", bucket |-> 8, peak |-> 8,
          vector |-> ("tps" :> 1 @@ "coding" :> 2),
          screen |-> FALSE, anonymous |-> FALSE, failed |-> FALSE, keyed |-> TRUE ]

MCAttrs ==
    "a1" :> Base @@
    "k1" :> [Base EXCEPT !.failed = TRUE] @@
    "b1" :> [Base EXCEPT !.model = "B", !.vector = ("tps" :> 2 @@ "coding" :> 2)] @@
    "a2" :> [Base EXCEPT !.vector = ("tps" :> 2 @@ "coding" :> NotMeasured)] @@
    "s1" :> [Base EXCEPT !.screen = TRUE] @@
    "f1" :> [Base EXCEPT !.failed = TRUE] @@
    "v1" :> [Base EXCEPT !.failed = TRUE, !.vector = [x \in MCAxes |-> NotMeasured]] @@
    "o1" :> [Base EXCEPT !.keyed = FALSE]

RowOf(t, s, o) == [trial |-> t, copy |-> 0, status |-> s, outcome |-> o]

KeyedRows == {RowOf("a1", "on_front", "final"), RowOf("k1", "rejected", "VRAM_LIMIT_EXCEEDED")}
MarkedRows == KeyedRows \cup {RowOf("v1", "VRAM_LIMIT_EXCEEDED", "MODEL_REJECTED")}
UnkeyedRows == {RowOf("o1", "on_front", "final")}

OneNewTrial == {"a1", "k1", "b1"}
ThreeTrials == {"a1", "k1", "b1", "a2", "s1"}
MarkedTrials == {"a1", "k1", "v1", "b1", "a2"}
SixTrials == {"a1", "k1", "b1", "a2", "s1", "f1"}
UnkeyedTrials == {"o1", "b1"}
MCAttr == [t \in Trials |-> MCAttrs[t]]

NoRows == {}
Sym == Permutations(Procs)
=============================================================================
