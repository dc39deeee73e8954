------------------------- MODULE TrialLedgerProofs -------------------------
(***************************************************************************)
(* The promises of the ledger, for any number of Trials, axes and buckets. *)
(***************************************************************************)
EXTENDS TrialLedger, ClassifyProofs

\* Every row has the status a recompute would give it.
Settled == recompute_rows(rows) = rows

LEMMA SettledStatus ==
    ASSUME NEW R \in SUBSET Row, recompute_rows(R) = R, NEW r \in R, Competes(r)
    PROVE  r.status = RecomputedStatus(R, r.trial)
<1>1. PICK q \in R : r = Refreshed(R, q)
  BY DEF recompute_rows
<1>2. Competes(q) /\ r.trial = q.trial /\ r.status = RecomputedStatus(R, q.trial)
  BY <1>1, RefreshedRow
<1> QED
  BY <1>2

LEMMA NewRowType ==
    ASSUME NEW t \in Trials
    PROVE  NewRow(t) \in Row /\ NewRow(t).trial = t
BY DEF NewRow, Row, Statuses, TRIAL_STATUSES, Outcomes

LEMMA Inductive == Spec => [](TypeOK /\ Settled)
<1>1. Init => TypeOK /\ Settled
  BY InitRowsAssumption, RecomputedRows, RecomputeIsIdempotent DEF Init, TypeOK, Settled
<1>2. ASSUME TypeOK, Settled, [Next]_rows
      PROVE  TypeOK' /\ Settled'
  <2>1. ASSUME NEW t \in Trials, Log(t)
        PROVE  TypeOK' /\ Settled'
    <3>1. rows \cup {NewRow(t)} \in SUBSET Row
      BY <1>2, NewRowType DEF TypeOK
    <3> QED
      BY <2>1, <3>1, RecomputedRows, RecomputeIsIdempotent DEF Log, TypeOK, Settled
  <2>2. CASE Relabel
    BY <1>2, <2>2, RelabelledRows, RelabelKeepsSettled DEF Relabel, TypeOK, Settled
  <2>3. CASE UNCHANGED rows
    BY <1>2, <2>3 DEF TypeOK, Settled
  <2> QED
    BY <1>2, <2>1, <2>2, <2>3 DEF Next
<1> QED
  BY <1>1, <1>2, PTL DEF Spec

\* The ledger only ever holds rows (results_db.py, the trials table).
THEOREM TypeCorrect == Spec => []TypeOK
BY Inductive, PTL

\* The labels on_front of a bucket are its Pareto Set (recompute.recompute_rows
\* against pareto.pareto_set), after any sequence of Trials and relabellings.
THEOREM FrontIsTheParetoSet == Spec => []FrontIsParetoSet
<1>1. ASSUME TypeOK, Settled
      PROVE  FrontIsParetoSet
  <2>1. ASSUME NEW b \in Buckets, NEW r \in rows, Competes(r), Attr[r.trial].bucket = b
        PROVE  /\ PointOf(rows, r) \in Points(rows, b)
               /\ r.status = "on_front" <=> PointOf(rows, r) \in ParetoSet(Points(rows, b))
    <3>1. PointOf(rows, r) \in Points(rows, b)
      BY <2>1 DEF PointOf, Points, Competitors
    <3>2. r.status = RecomputedStatus(rows, r.trial)
      BY <1>1, <2>1, SettledStatus DEF TypeOK, Settled
    <3>3. RecomputedStatus(rows, r.trial)
            = classify_trial(FALSE, PointOf(rows, r), Points(rows, b))
      BY <2>1 DEF RecomputedStatus, PointOf
    <3> QED
      BY <3>1, <3>2, <3>3 DEF classify_trial, ParetoSet
  <2>2. ASSUME NEW b \in Buckets, NEW v \in Points(rows, b)
        PROVE  \E r \in rows : /\ Competes(r)
                               /\ Attr[r.trial].bucket = b
                               /\ v = PointOf(rows, r)
    BY DEF Points, Competitors, PointOf
  <2>3. \A b \in Buckets : ParetoSet(Points(rows, b)) \subseteq Points(rows, b)
    BY DEF ParetoSet
  <2> QED
    BY <2>1, <2>2, <2>3 DEF FrontIsParetoSet
<1> QED
  BY <1>1, Inductive, PTL

\* Who was beaten stays beaten by whatever is logged of another basename.
THEOREM DemotionsAreStable == Spec => DemotionIsStable
<1>1. ASSUME TypeOK, Settled, NEW t \in Trials, Log(t),
             NEW r \in rows, NEW q \in rows',
             Competes(r), r.status = "dominated", Competes(q), q.trial = r.trial,
             Attr[r.trial].model # Attr[t].model
      PROVE  q.status = "dominated"
  <2> DEFINE S == rows \cup {NewRow(t)}
  <2>1. S \in SUBSET Row /\ r.trial \in Trials
    BY <1>1, NewRowType DEF TypeOK, Row
  <2>2. RecomputedStatus(rows, r.trial) = "dominated"
    BY <1>1, SettledStatus DEF TypeOK, Settled
  <2>3. RecomputedStatus(S, r.trial) = "dominated"
    BY <1>1, <2>1, <2>2, NewRowType, DominatedStays DEF TypeOK
  <2>4. PICK s \in S : q = Refreshed(S, s)
    BY <1>1 DEF Log, recompute_rows
  <2>5. s.trial = q.trial /\ Competes(s) /\ q.status = RecomputedStatus(S, s.trial)
    BY <1>1, <2>1, <2>4, RefreshedRow
  <2> QED
    BY <1>1, <2>3, <2>5
<1>2. TypeOK /\ Settled => [\A t \in Trials : Log(t) =>
        \A r \in rows : \A q \in rows' :
            /\ Competes(r) /\ r.status = "dominated"
            /\ Competes(q) /\ q.trial = r.trial
            /\ Attr[r.trial].model # Attr[t].model
            => q.status = "dominated"]_rows
  BY <1>1
<1> QED
  BY <1>2, Inductive, PTL DEF DemotionIsStable

\* What a Trial's status is planned from is what the recompute classifies it from, except that the
\* plan compares with the old point of its own basename and the recompute with the new one; neither
\* beats the merged point.
LEMMA PlannedIsRecomputed ==
    ASSUME TypeOK, NEW t \in Trials \ TrialsOf(rows),
           Attr[t].peak = Attr[t].bucket, ~ Attr[t].screen, ~ Attr[t].anonymous, ~ Attr[t].failed,
           \A r \in rows : Attr[r.trial].model = Attr[t].model => ~ Attr[r.trial].screen
    PROVE  plan_write(rows, t) = RecomputedStatus(rows \cup {NewRow(t)}, t)
<1> DEFINE m == Attr[t].model
           b == Attr[t].bucket
           S == rows \cup {NewRow(t)}
           Of(Q, o) == {u \in Competitors(Q, b) : Attr[u].model = o}
           V(Q, o) == {Attr[u].vector : u \in Of(Q, o)}
           prior == {r.trial : r \in {q \in rows : /\ q.status # "rejected"
                                                   /\ ~ Attr[q.trial].anonymous
                                                   /\ Attr[q.trial].model = Attr[t].model
                                                   /\ Attr[q.trial].bucket = Attr[t].peak}}
           merged == Merge({Attr[u].vector : u \in prior \cup {t}})
           old == Point(rows, m, b)
<1>1. rows \in SUBSET Row /\ S \in SUBSET Row
  BY NewRowType DEF TypeOK
<1>2. Competitors(S, b) = Competitors(rows, b) \cup {t}
  <2>1. Competes(NewRow(t)) /\ NewRow(t).trial = t
    BY DEF Competes, NewRow
  <2>2. Competitors({NewRow(t)}, b) = {t}
    BY <2>1 DEF Competitors
  <2> QED
    BY <2>2, CompetitorsOfUnion
<1>3. prior = Of(rows, m)
  BY DEF Competitors, Competes
<1>4. V(S, m) = {Attr[u].vector : u \in prior \cup {t}}
  BY <1>2, <1>3
<1>5. Point(S, m, b) = merged
  BY <1>4 DEF Point
<1>6. \A u \in Trials : Attr[u].model # m => Point(S, Attr[u].model, b) = Point(rows, Attr[u].model, b)
  <2>1. \A o : o # m => Of(S, o) = Of(rows, o)
    BY <1>2
  <2> QED
    BY <2>1 DEF Point
<1>7. merged \in Vectors /\ old \in Vectors
  BY <1>1, <1>5, PointsAreVectors
<1>8. ~ Dominates(merged, merged)
  BY <1>7, DominatesIsStrictOrder
<1>9. ~ Dominates(old, merged)
  <2> SUFFICES ASSUME Complete(old)
               PROVE  \A x \in Axes : ~ (old[x] > merged[x])
    BY DEF Dominates
  <2>1. V(rows, m) \in SUBSET Vectors /\ V(S, m) \in SUBSET Vectors /\ V(rows, m) \subseteq V(S, m)
    BY <1>1, <1>2, PointsAreVectors
  <2>2. old = Merge(V(rows, m)) /\ merged = Merge(V(S, m))
    BY <1>4 DEF Point
  <2>3. Complete(merged) /\ \A x \in Axes : merged[x] >= old[x]
    <3> HIDE DEF V, old, merged
    <3> QED
      BY <2>1, <2>2, MergeGrows
  <2>4. \A x \in Axes : old[x] \in Int /\ merged[x] \in Int
    <3> HIDE DEF old, merged
    <3> QED
      BY <1>7, <2>3, ScoresAreInt DEF Vectors, Complete
  <2> QED
    BY <2>3, <2>4
<1>10. Competitors(rows, b) \subseteq Trials
  BY <1>1 DEF Competitors, Row
<1>11. (\E other \in Points(rows, b) : Dominates(other, merged))
         <=> (\E other \in Points(S, b) : Dominates(other, merged))
  <2> HIDE DEF merged, S, old, b, m
  <2>1. ASSUME NEW u \in Competitors(rows, b), Dominates(Point(rows, Attr[u].model, b), merged)
        PROVE  \E other \in Points(S, b) : Dominates(other, merged)
    <3>1. Attr[u].model # m
      BY <1>9, <2>1 DEF old
    <3>2. Point(S, Attr[u].model, b) = Point(rows, Attr[u].model, b)
      BY <1>6, <1>10, <3>1
    <3> QED
      BY <1>2, <2>1, <3>2 DEF Points
  <2>2. ASSUME NEW u \in Competitors(S, b), Dominates(Point(S, Attr[u].model, b), merged)
        PROVE  \E other \in Points(rows, b) : Dominates(other, merged)
    <3>1. Attr[u].model # m
      BY <1>5, <1>8, <2>2
    <3>2. u \in Competitors(rows, b)
      BY <1>2, <3>1 DEF m
    <3>3. Point(S, Attr[u].model, b) = Point(rows, Attr[u].model, b)
      BY <1>6, <1>10, <3>1, <3>2
    <3> QED
      BY <2>2, <3>2, <3>3 DEF Points
  <2> QED
    BY <2>1, <2>2 DEF Points
<1>12. plan_write(rows, t) = classify_trial(FALSE, merged, Points(rows, b))
  <2>1. Attr[t].failed = FALSE
    BY AttrAssumption DEF TrialAttrs
  <2>2. plan_write(rows, t) = classify_trial(Attr[t].failed, merged, Points(rows, Attr[t].peak))
    BY DEF plan_write
  <2> QED
    BY <2>1, <2>2
<1>13. RecomputedStatus(S, t) = classify_trial(FALSE, merged, Points(S, b))
  BY <1>5 DEF RecomputedStatus
<1>14. classify_trial(FALSE, merged, Points(rows, b)) = classify_trial(FALSE, merged, Points(S, b))
  <2> HIDE DEF merged, S, b
  <2> QED
    BY <1>11 DEF classify_trial
<1> HIDE DEF merged, b
<1> QED
  BY <1>12, <1>13, <1>14

\* The status a Trial is written with is the one the refresh after it settles on (classify.plan_write
\* against recompute.recompute_rows), whatever was logged before.
THEOREM PlanIsKept == Spec => []PlanAgreesWithRecompute
<1>1. ASSUME TypeOK
      PROVE  PlanAgreesWithRecompute
  <2> SUFFICES ASSUME NEW t \in Trials \ TrialsOf(rows),
                      Attr[t].peak = Attr[t].bucket, ~ Attr[t].screen, ~ Attr[t].anonymous,
                      \A r \in rows : Attr[r.trial].model = Attr[t].model => ~ Attr[r.trial].screen
               PROVE  \E q \in recompute_rows(rows \cup {NewRow(t)}) :
                         q.trial = t /\ q.status = plan_write(rows, t)
    BY DEF PlanAgreesWithRecompute
  <2> DEFINE S == rows \cup {NewRow(t)}
             n == Refreshed(S, NewRow(t))
  <2>1. n \in recompute_rows(S) /\ n.trial = t
    BY NewRowType, RefreshedRow DEF recompute_rows
  <2>2. CASE Attr[t].failed
    <3>1. n = NewRow(t) /\ n.status = "rejected"
      BY <2>2 DEF Refreshed, Competes, NewRow
    <3>2. plan_write(rows, t) = "rejected"
      BY <2>2 DEF plan_write, classify_trial
    <3> QED
      BY <2>1, <3>1, <3>2
  <2>3. CASE ~ Attr[t].failed
    <3>1. Competes(NewRow(t)) /\ NewRow(t).trial = t
      BY <2>3 DEF Competes, NewRow
    <3>2. n.status = RecomputedStatus(S, t)
      BY <3>1, NewRowType DEF Refreshed, Row
    <3> QED
      BY <2>1, <2>3, <3>2, <1>1, PlannedIsRecomputed
  <2> QED
    BY <2>2, <2>3
<1> QED
  BY <1>1, TypeCorrect, PTL

=============================================================================
