--------------------------- MODULE MCTrialLedger ---------------------------
(***************************************************************************)
(* Bounded instance of TrialLedger: a Trial is its own attribute record,   *)
(* so that every combination of measurements is logged in every order.     *)
(***************************************************************************)
EXTENDS TrialLedger

CONSTANT MaxRows

MCAxes == {"tps", "coding"}
MCScores == 1..2
MCVectors == [MCAxes -> MCScores \cup {NotMeasured}]

\* Complete Trials of two models, in one bucket, and partial ones of one.
MCTrials ==
    {[ model |-> m, bucket |-> b, peak |-> b, vector |-> v,
       screen |-> s, anonymous |-> FALSE, failed |-> f, keyed |-> TRUE ] :
        m \in {"m1", "m2", "m3"}, b \in {8}, v \in MCVectors,
        s \in {FALSE}, f \in {FALSE}}
    \cup
    {[ model |-> "m1", bucket |-> b, peak |-> 8, vector |-> v,
       screen |-> s, anonymous |-> FALSE, failed |-> f, keyed |-> TRUE ] :
        b \in {8, 16}, v \in [MCAxes -> {2}], s \in BOOLEAN, f \in BOOLEAN}
MCModels == {"m1", "m2", "m3"}
MCBuckets == {8, 16}
MCAttr == [t \in MCTrials |-> t]

\* Watchdog kills logged before the migration, the mark in the diagnostic and in the status.
MCFailed == {t \in MCTrials : t.failed /\ ~ t.screen}
MCInitRows ==
    {[ trial |-> CHOOSE t \in MCFailed : t.bucket = 8,
       copy |-> 0, status |-> "rejected", outcome |-> "VRAM_LIMIT_EXCEEDED" ],
     [ trial |-> CHOOSE t \in MCFailed : t.bucket = 16,
       copy |-> 0, status |-> "VRAM_LIMIT_EXCEEDED", outcome |-> "MODEL_REJECTED" ]}

Bounded == Cardinality(rows) <= MaxRows
=============================================================================
