---------------------------- MODULE TrialLedger ----------------------------
(***************************************************************************)
(* What the results store promises its users: one table of Trials, to      *)
(* which a Trial is added in one step, nothing is ever lost, and whose     *)
(* statuses are those of a full recompute at every moment.  The code gets  *)
(* there with two files, a lock, several processes and a write and a       *)
(* refresh in separate critical sections: see ResultsStore.                *)
(***************************************************************************)
EXTENDS Classify

CONSTANT InitRows       \* the rows logged before

ASSUME InitRowsAssumption == InitRows \subseteq Row

VARIABLE rows

Init == rows = recompute_rows(InitRows)

\* The row of a new Trial, whose status is up to the recompute unless it
\* never competes.
NewRow(t) ==
    [ trial |-> t, copy |-> 0, outcome |-> "final",
      status |-> IF Attr[t].failed /\ ~ Attr[t].screen THEN "rejected" ELSE "incomplete" ]

Log(t) ==
    /\ t \notin TrialsOf(rows)
    /\ ~ Attr[t].anonymous
    /\ rows' = recompute_rows(rows \cup {NewRow(t)})

\* The migration of old watchdog kills.  Which of the competing rejects were marked in their
\* status is not to be seen any more in a table whose statuses were recomputed: a store that has
\* not been recomputed yet relabels them as well, and one that has does not.
MayBeOldKill(r) == OldKill(r) \/ (r.outcome = "MODEL_REJECTED" /\ Competes(r))
Relabel ==
    \E kills \in SUBSET {r \in rows : MayBeOldKill(r)} :
        /\ {r \in rows : OldKill(r)} \subseteq kills
        /\ rows' = Relabelled(rows, kills)

Next == Relabel \/ \E t \in Trials : Log(t)

Spec == Init /\ [][Next]_rows

-----------------------------------------------------------------------------
TypeOK == rows \subseteq Row

PointOf(R, r) == Point(R, Attr[r.trial].model, Attr[r.trial].bucket)

\* The front is exactly the Pareto Set of the bucket's points: the labels
\* agree with pareto.pareto_set, which Search uses instead of the labels.
FrontIsParetoSet ==
    \A b \in Buckets :
        {PointOf(rows, r) : r \in {q \in rows : /\ Competes(q)
                                               /\ q.status = "on_front"
                                               /\ Attr[q.trial].bucket = b}}
            = ParetoSet(Points(rows, b))

\* Logging a Trial of one basename never brings another basename back on
\* the front: points only ever grow, so who was beaten stays beaten.
DemotionIsStable ==
    [][\A t \in Trials : Log(t) =>
        \A r \in rows : \A q \in rows' :
            /\ Competes(r) /\ r.status = "dominated"
            /\ Competes(q) /\ q.trial = r.trial
            /\ Attr[r.trial].model # Attr[t].model
            => q.status = "dominated"]_rows

\* The status planned for a Trial before it is written (classify.plan_write)
\* is the one the recompute settles on, when the peak rounds to the bucket
\* of the configured limit and the model has no screen rows.
PlanAgreesWithRecompute ==
    \A t \in Trials \ TrialsOf(rows) :
        /\ Attr[t].peak = Attr[t].bucket
        /\ ~ Attr[t].screen /\ ~ Attr[t].anonymous
        /\ \A r \in rows : Attr[r.trial].model = Attr[t].model => ~ Attr[r.trial].screen
        => \E q \in recompute_rows(rows \cup {NewRow(t)}) :
                q.trial = t /\ q.status = plan_write(rows, t)

=============================================================================
