------------------------------ MODULE Classify ------------------------------
(***************************************************************************)
(* Statuses of Trials (autoresearch/core/classify.py and recompute.py):    *)
(* the status planned for a new Trial against the rows known so far, and   *)
(* the store-wide recompute that later replaces it.                        *)
(*                                                                         *)
(* What a Trial measured never changes once it is a row, so it is the      *)
(* constant Attr[t]; a row is a Trial with the cells that do change.       *)
(* "copy" tells apart rows of one Trial: a row without a trial_id can be   *)
(* in a store more than once.                                              *)
(***************************************************************************)
EXTENDS Pareto

CONSTANTS
    Trials,         \* identities of Trials
    Models,         \* GGUF basenames
    Buckets,        \* hardware+budget buckets
    Attr            \* what each Trial is and measured, see TrialAttrs

TrialAttrs ==
    [ model     : Models,
      bucket    : Buckets,  \* row_bucket: VRAM_LIMIT_MB, peak as fallback
      peak      : Buckets,  \* bucket of the peak memory_gb
      vector    : Vectors,
      screen    : BOOLEAN,  \* evaluation_profile = "morris-screen"
      anonymous : BOOLEAN,  \* no model name, or no bucket can be resolved
      failed    : BOOLEAN,  \* outcome # OK
      keyed     : BOOLEAN ] \* has a trial_id; rows older than the column have not

ASSUME AttrAssumption == Attr \in [Trials -> TrialAttrs]

\* run.TRIAL_STATUSES, and the labels of rows older than ADR 0006, of which a watchdog kill's
\* is one of its own.
TRIAL_STATUSES == {"rejected", "incomplete", "on_front", "dominated"}
Statuses == TRIAL_STATUSES \cup {"legacy", "VRAM_LIMIT_EXCEEDED"}

\* An outcome with its diagnostic.  Before the fix a watchdog kill was a MODEL_REJECTED like any
\* other, with "VRAM_LIMIT_EXCEEDED" in its diagnostic or in its status; "final" is whatever no
\* migration looks at.
Outcomes == {"VRAM_LIMIT_EXCEEDED", "MODEL_REJECTED", "final"}

Row == [trial : Trials, copy : Nat, status : Statuses, outcome : Outcomes]

TrialsOf(rows) == {r.trial : r \in rows}

-----------------------------------------------------------------------------
\* Rejected and screen rows, and rows that cannot be placed, never compete.
Competes(r) ==
    /\ r.status # "rejected"
    /\ ~ Attr[r.trial].screen
    /\ ~ Attr[r.trial].anonymous

\* The Trials that compete in a bucket.
Competitors(rows, b) ==
    {r.trial : r \in {q \in rows : Competes(q) /\ Attr[q.trial].bucket = b}}

\* The one point of a basename in a bucket (ADR 0012), and all points of it.
Point(rows, m, b) ==
    Merge({Attr[t].vector : t \in {u \in Competitors(rows, b) : Attr[u].model = m}})

Points(rows, b) == {Point(rows, Attr[t].model, b) : t \in Competitors(rows, b)}

classify_trial(failed, vector, known) ==
    IF failed THEN "rejected"
    ELSE IF ~ Complete(vector) THEN "incomplete"
    ELSE IF \E other \in known : Dominates(other, vector) THEN "dominated"
    ELSE "on_front"

\* Mutant: the earlier measurements of the same basename are forgotten.
PlannedAlone(rows, t) ==
    classify_trial(Attr[t].failed, Attr[t].vector, Points(rows, Attr[t].peak))

\* Status given to a new Trial t before it is written.  The prior rows of
\* its model are not filtered for screens, and the bucket is that of the
\* measured peak, not of the configured limit.
plan_write(rows, t) ==
    LET b == Attr[t].peak
        prior == {r.trial : r \in {q \in rows : /\ q.status # "rejected"
                                                /\ ~ Attr[q.trial].anonymous
                                                /\ Attr[q.trial].model = Attr[t].model
                                                /\ Attr[q.trial].bucket = b}}
        merged == Merge({Attr[u].vector : u \in prior \cup {t}})
    IN  classify_trial(Attr[t].failed, merged, Points(rows, b))

-----------------------------------------------------------------------------
\* Mutant: a Trial is placed by its own measurements alone.
OwnVectorStatus(rows, t) ==
    classify_trial(FALSE, Attr[t].vector, Points(rows, Attr[t].bucket))

\* The store-wide refresh, bucket scope: a row gets the status of the point
\* its Trial belongs to, and one that does not compete keeps its own.
RecomputedStatus(rows, t) ==
    classify_trial(FALSE, Point(rows, Attr[t].model, Attr[t].bucket),
                   Points(rows, Attr[t].bucket))

Refreshed(rows, r) ==
    IF Competes(r) THEN [r EXCEPT !.status = RecomputedStatus(rows, r.trial)] ELSE r

recompute_rows(rows) == {Refreshed(rows, r) : r \in rows}

\* A watchdog kill from before the fix, by its diagnostic or by its status alone.
MarkedInStatus(r) == r.outcome = "MODEL_REJECTED" /\ r.status = "VRAM_LIMIT_EXCEEDED"
OldKill(r) == r.outcome = "VRAM_LIMIT_EXCEEDED" \/ MarkedInStatus(r)

\* Mutant: the marker is replaced in the wrong column.
RelabelledStatus(rows, kills) ==
    {IF r \in kills THEN [r EXCEPT !.status = "final"] ELSE r : r \in rows}

Relabelled(rows, kills) ==
    {IF r \in kills THEN [r EXCEPT !.outcome = "final"] ELSE r : r \in rows}

\* The one-shot migration of pre-fix watchdog kills.
relabel_watchdog_kills(rows) == Relabelled(rows, {r \in rows : OldKill(r)})

=============================================================================
