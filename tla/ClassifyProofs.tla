--------------------------- MODULE ClassifyProofs ---------------------------
(***************************************************************************)
(* Laws of domination, of the merge and of the recompute, for any axes,    *)
(* scores and Trials.                                                      *)
(***************************************************************************)
EXTENDS Classify, TLAPS

-----------------------------------------------------------------------------
(* Domination.                                                             *)

LEMMA ScoresAreInt == Scores \subseteq Int /\ NotMeasured \notin Scores
BY ScoresAssumption

\* Domination is a strict partial order on vectors (pareto.dominates): the
\* recompute compares every point with all the others, in any order.
THEOREM DominatesIsStrictOrder ==
    /\ \A a \in Vectors : ~ Dominates(a, a)
    /\ \A a, b, c \in Vectors : Dominates(a, b) /\ Dominates(b, c) => Dominates(a, c)
<1>1. ASSUME NEW a \in Vectors
      PROVE  ~ Dominates(a, a)
  <2>1. SUFFICES ASSUME Dominates(a, a)
                 PROVE  FALSE
    OBVIOUS
  <2>2. PICK x \in Axes : a[x] > a[x]
    BY <2>1 DEF Dominates
  <2>3. a[x] \in Int
    BY <2>1, ScoresAreInt DEF Dominates, Vectors, Complete
  <2> QED
    BY <2>2, <2>3
<1>2. ASSUME NEW a \in Vectors, NEW b \in Vectors, NEW c \in Vectors,
             Dominates(a, b), Dominates(b, c)
      PROVE  Dominates(a, c)
  <2>1. \A x \in Axes : a[x] \in Int /\ b[x] \in Int /\ c[x] \in Int
    BY <1>2, ScoresAreInt DEF Dominates, Vectors, Complete
  <2>2. \A x \in Axes : a[x] >= c[x]
    BY <1>2, <2>1 DEF Dominates
  <2>3. \E x \in Axes : a[x] > c[x]
    BY <1>2, <2>1 DEF Dominates
  <2> QED
    BY <1>2, <2>2, <2>3 DEF Dominates
<1> QED
  BY <1>1, <1>2

-----------------------------------------------------------------------------
(* The merge.                                                              *)

LEMMA MaxOfScores ==
    ASSUME NEW S \in SUBSET Scores, S # {}
    PROVE  Max(S) \in S /\ \A n \in S : Max(S) >= n
<1>1. \E m \in S : \A n \in S : m >= n
  BY ScoresAssumption
<1> QED
  BY <1>1 DEF Max

LEMMA MeasuredAreScores ==
    ASSUME NEW V \in SUBSET Vectors, NEW x \in Axes
    PROVE  Measured(V, x) \subseteq Scores
BY DEF Measured, Vectors

LEMMA MergeAxis ==
    ASSUME NEW V \in SUBSET Vectors, NEW x \in Axes
    PROVE  /\ Merge(V)[x] \in Scores \cup {NotMeasured}
           /\ Merge(V)[x] = NotMeasured <=> Measured(V, x) = {}
           /\ Measured(V, x) # {} =>
                /\ Merge(V)[x] \in Measured(V, x)
                /\ \A n \in Measured(V, x) : Merge(V)[x] >= n
<1>1. Measured(V, x) \subseteq Scores
  BY MeasuredAreScores
<1>2. Measured(V, x) # {} => /\ Max(Measured(V, x)) \in Measured(V, x)
                             /\ \A n \in Measured(V, x) : Max(Measured(V, x)) >= n
  BY <1>1, MaxOfScores
<1>3. Merge(V)[x] = IF Measured(V, x) = {} THEN NotMeasured ELSE Max(Measured(V, x))
  BY DEF Merge
<1> QED
  BY <1>1, <1>2, <1>3, ScoresAreInt

LEMMA MergeIsVector ==
    ASSUME NEW V \in SUBSET Vectors
    PROVE  Merge(V) \in Vectors
<1>1. Merge(V) = [x \in Axes |-> Merge(V)[x]]
  BY DEF Merge
<1>2. \A x \in Axes : Merge(V)[x] \in Scores \cup {NotMeasured}
  BY MergeAxis
<1> QED
  BY <1>1, <1>2 DEF Vectors

\* Merging two vectors as the code does, one axis after the other, gives the
\* merge of the set of the two; and merging a set in two parts is merging
\* the merges (pareto.merge): the order of the rows of a store is irrelevant.
THEOREM MergeIsFold ==
    ASSUME NEW V \in SUBSET Vectors, NEW W \in SUBSET Vectors
    PROVE  Merge(V \cup W) = MergeTwo(Merge(V), Merge(W))
<1>1. ASSUME NEW x \in Axes
      PROVE  Merge(V \cup W)[x] = Best(Merge(V)[x], Merge(W)[x])
  <2>1. Measured(V \cup W, x) = Measured(V, x) \cup Measured(W, x)
    BY DEF Measured
  <2>2. /\ Measured(V, x) \subseteq Scores
        /\ Measured(W, x) \subseteq Scores
        /\ V \cup W \in SUBSET Vectors
    BY MeasuredAreScores
  <2>3. CASE Measured(V, x) = {}
    BY <2>1, <2>3 DEF Merge, Best
  <2>4. CASE Measured(V, x) # {} /\ Measured(W, x) = {}
    <3>1. Merge(W)[x] = NotMeasured
      BY <2>4 DEF Merge
    <3>2. Merge(V \cup W)[x] = Merge(V)[x]
      BY <2>1, <2>4 DEF Merge
    <3> QED
      BY <3>1, <3>2 DEF Best
  <2>5. CASE Measured(V, x) # {} /\ Measured(W, x) # {}
    <3> DEFINE a == Merge(V)[x]
               b == Merge(W)[x]
               m == Merge(V \cup W)[x]
    <3>1. /\ a \in Measured(V, x) /\ \A n \in Measured(V, x) : a >= n
          /\ b \in Measured(W, x) /\ \A n \in Measured(W, x) : b >= n
      BY <2>5, MergeAxis
    <3>2. m \in Measured(V \cup W, x) /\ \A n \in Measured(V \cup W, x) : m >= n
      BY <2>1, <2>2, <2>5, MergeAxis
    <3>3. a \in Int /\ b \in Int /\ m \in Int /\ a # NotMeasured /\ b # NotMeasured
      BY <2>1, <2>2, <3>1, <3>2, ScoresAreInt
    <3>4. m = IF a >= b THEN a ELSE b
      <4> HIDE DEF a, b, m
      <4>1. (m >= a /\ m >= b) /\ (a >= m \/ b >= m)
        BY <2>1, <3>1, <3>2
      <4> QED
        BY <4>1, <3>3
    <3> QED
      BY <3>3, <3>4 DEF Best
  <2> QED
    BY <2>3, <2>4, <2>5
<1> QED
  BY <1>1 DEF Merge, MergeTwo

-----------------------------------------------------------------------------
(* The recompute.                                                          *)

\* Nothing but the set of competing Trials matters to a recomputed status.
LEMMA SameCompetitorsSameStatus ==
    ASSUME NEW R, NEW S, NEW t,
           \A b : Competitors(R, b) = Competitors(S, b)
    PROVE  RecomputedStatus(R, t) = RecomputedStatus(S, t)
<1>1. \A m, b : Point(R, m, b) = Point(S, m, b)
  BY DEF Point
<1>2. \A b : Points(R, b) = Points(S, b)
  BY <1>1 DEF Points
<1> QED
  BY <1>1, <1>2 DEF RecomputedStatus

LEMMA RecomputedStatusCompetes ==
    ASSUME NEW R, NEW t
    PROVE  RecomputedStatus(R, t) \in {"incomplete", "dominated", "on_front"}
BY DEF RecomputedStatus, classify_trial

LEMMA RefreshedRow ==
    ASSUME NEW R, NEW r \in Row
    PROVE  /\ Refreshed(R, r) \in Row
           /\ Refreshed(R, r).trial = r.trial
           /\ Refreshed(R, r).copy = r.copy
           /\ Refreshed(R, r).outcome = r.outcome
           /\ Competes(Refreshed(R, r)) <=> Competes(r)
           /\ Competes(r) => Refreshed(R, r).status = RecomputedStatus(R, r.trial)
           /\ ~ Competes(r) => Refreshed(R, r) = r
<1>1. RecomputedStatus(R, r.trial) \in {"incomplete", "dominated", "on_front"}
  BY RecomputedStatusCompetes
<1> QED
  BY <1>1 DEF Refreshed, Row, Competes, Statuses, TRIAL_STATUSES

LEMMA RecomputedRows ==
    ASSUME NEW R \in SUBSET Row
    PROVE  /\ recompute_rows(R) \in SUBSET Row
           /\ TrialsOf(recompute_rows(R)) = TrialsOf(R)
           /\ \A b : Competitors(recompute_rows(R), b) = Competitors(R, b)
<1>1. \A r \in R : /\ Refreshed(R, r) \in Row
                   /\ Refreshed(R, r).trial = r.trial
                   /\ Competes(Refreshed(R, r)) <=> Competes(r)
  BY RefreshedRow
<1>2. TrialsOf(recompute_rows(R)) = TrialsOf(R)
  BY <1>1 DEF TrialsOf, recompute_rows
<1>3. ASSUME NEW b
      PROVE  Competitors(recompute_rows(R), b) = Competitors(R, b)
  BY <1>1 DEF Competitors, recompute_rows
<1> QED
  BY <1>1, <1>2, <1>3 DEF recompute_rows

\* The status of an earlier refresh leaves no trace in a later one.
LEMMA RefreshTwice ==
    ASSUME NEW R, NEW S, NEW r \in Row
    PROVE  Refreshed(S, Refreshed(R, r)) = Refreshed(S, r)
<1>1. CASE Competes(r)
  <2>1. Competes(Refreshed(R, r)) /\ Refreshed(R, r).trial = r.trial
    BY <1>1, RefreshedRow
  <2> QED
    BY <1>1, <2>1 DEF Refreshed, Row
<1>2. CASE ~ Competes(r)
  BY <1>2 DEF Refreshed
<1> QED
  BY <1>1, <1>2

LEMMA SameCompetitorsSameRefresh ==
    ASSUME NEW R, NEW S, NEW r,
           \A b : Competitors(R, b) = Competitors(S, b)
    PROVE  Refreshed(R, r) = Refreshed(S, r)
BY SameCompetitorsSameStatus DEF Refreshed

LEMMA CompetitorsOfUnion ==
    ASSUME NEW R, NEW S, NEW b
    PROVE  Competitors(R \cup S, b) = Competitors(R, b) \cup Competitors(S, b)
BY DEF Competitors

\* A recompute of a recomputed store changes nothing (recompute.recompute_rows:
\* "idempotent, pure").
THEOREM RecomputeIsIdempotent ==
    ASSUME NEW R \in SUBSET Row
    PROVE  recompute_rows(recompute_rows(R)) = recompute_rows(R)
<1> DEFINE Q == recompute_rows(R)
<1>1. \A b : Competitors(Q, b) = Competitors(R, b)
  BY RecomputedRows
<1>2. \A r \in R : Refreshed(Q, Refreshed(R, r)) = Refreshed(R, r)
  <2> TAKE r \in R
  <2>1. Refreshed(Q, Refreshed(R, r)) = Refreshed(Q, r)
    BY RefreshTwice
  <2>2. Refreshed(Q, r) = Refreshed(R, r)
    BY <1>1, SameCompetitorsSameRefresh
  <2> QED
    BY <2>1, <2>2
<1> QED
  BY <1>2 DEF recompute_rows

\* Adding a row before or after a recompute makes no difference to the next
\* one, and neither does the status it is added with: the status planned
\* against a stale read (autoloop._classify) cannot outlive the recompute.
THEOREM RecomputeAfterAdd ==
    ASSUME NEW R \in SUBSET Row, NEW n \in Row, NEW m \in Row,
           n.trial = m.trial, n.copy = m.copy, n.outcome = m.outcome,
           Competes(n) <=> Competes(m),
           ~ Competes(n) => n = m
    PROVE  recompute_rows(recompute_rows(R) \cup {n}) = recompute_rows(R \cup {m})
<1> DEFINE Q == recompute_rows(R) \cup {n}
           S == R \cup {m}
<1>1. \A b : Competitors({n}, b) = Competitors({m}, b)
  BY DEF Competitors
<1>2. ASSUME NEW b
      PROVE  Competitors(Q, b) = Competitors(S, b)
  <2>1. Competitors(recompute_rows(R), b) = Competitors(R, b)
    BY RecomputedRows
  <2>2. Competitors(Q, b) = Competitors(recompute_rows(R), b) \cup Competitors({n}, b)
    BY CompetitorsOfUnion
  <2>3. Competitors(S, b) = Competitors(R, b) \cup Competitors({m}, b)
    BY CompetitorsOfUnion
  <2> QED
    BY <1>1, <2>1, <2>2, <2>3
<1>3. ASSUME NEW r \in R
      PROVE  Refreshed(Q, Refreshed(R, r)) = Refreshed(S, r)
  <2>1. Refreshed(Q, Refreshed(R, r)) = Refreshed(Q, r)
    BY RefreshTwice
  <2>2. Refreshed(Q, r) = Refreshed(S, r)
    BY <1>2, SameCompetitorsSameRefresh
  <2> QED
    BY <2>1, <2>2
<1>4. Refreshed(Q, n) = Refreshed(S, m)
  <2>1. Refreshed(Q, n) = Refreshed(S, n)
    BY <1>2, SameCompetitorsSameRefresh
  <2>2. CASE Competes(n)
    <3>1. [n EXCEPT !.status = RecomputedStatus(S, n.trial)]
             = [m EXCEPT !.status = RecomputedStatus(S, m.trial)]
      BY DEF Row
    <3> QED
      BY <2>1, <2>2, <3>1 DEF Refreshed
  <2>3. CASE ~ Competes(n)
    BY <2>1, <2>3
  <2> QED
    BY <2>2, <2>3
<1>5. recompute_rows(Q) = {Refreshed(Q, Refreshed(R, r)) : r \in R} \cup {Refreshed(Q, n)}
  BY DEF recompute_rows
<1>6. recompute_rows(S) = {Refreshed(S, r) : r \in R} \cup {Refreshed(S, m)}
  BY DEF recompute_rows
<1> QED
  BY <1>3, <1>4, <1>5, <1>6

LEMMA RelabelledRows ==
    ASSUME NEW R \in SUBSET Row, NEW S
    PROVE  /\ Relabelled(R, S) \in SUBSET Row
           /\ TrialsOf(Relabelled(R, S)) = TrialsOf(R)
           /\ \A b : Competitors(Relabelled(R, S), b) = Competitors(R, b)
<1> DEFINE L(r) == IF r \in S THEN [r EXCEPT !.outcome = "final"] ELSE r
<1>1. \A r \in Row : /\ L(r) \in Row
                     /\ L(r).trial = r.trial
                     /\ Competes(L(r)) <=> Competes(r)
  BY DEF Row, Competes, Outcomes
<1>2. Relabelled(R, S) = {L(r) : r \in R}
  BY DEF Relabelled
<1> HIDE DEF L
<1>3. Relabelled(R, S) \in SUBSET Row /\ TrialsOf(Relabelled(R, S)) = TrialsOf(R)
  BY <1>1, <1>2 DEF TrialsOf
<1>4. ASSUME NEW b
      PROVE  Competitors(Relabelled(R, S), b) = Competitors(R, b)
  <2>1. Competitors(Relabelled(R, S), b) \subseteq Competitors(R, b)
    BY <1>1, <1>2 DEF Competitors
  <2>2. Competitors(R, b) \subseteq Competitors(Relabelled(R, S), b)
    BY <1>1, <1>2 DEF Competitors
  <2> QED
    BY <2>1, <2>2
<1> QED
  BY <1>3, <1>4

\* A relabelling changes no status, whichever rows it takes for kills.
LEMMA RecomputeOfRelabelled ==
    ASSUME NEW R \in SUBSET Row, NEW S
    PROVE  recompute_rows(Relabelled(R, S))
             = {IF r \in S THEN [Refreshed(R, r) EXCEPT !.outcome = "final"] ELSE Refreshed(R, r) : r \in R}
<1> DEFINE L(r) == IF r \in S THEN [r EXCEPT !.outcome = "final"] ELSE r
           F(r) == IF r \in S THEN [Refreshed(R, r) EXCEPT !.outcome = "final"] ELSE Refreshed(R, r)
           Q == Relabelled(R, S)
<1>1. Q = {L(r) : r \in R}
  BY DEF Relabelled
<1>2. ASSUME NEW r \in R
      PROVE  Refreshed(Q, L(r)) = F(r)
  <2>1. L(r).trial = r.trial /\ (Competes(L(r)) <=> Competes(r))
    BY DEF Row, Competes
  <2>2. RecomputedStatus(Q, r.trial) = RecomputedStatus(R, r.trial)
    BY RelabelledRows, SameCompetitorsSameStatus
  <2>3. CASE Competes(r)
    <3>1. Refreshed(Q, L(r)) = [L(r) EXCEPT !.status = RecomputedStatus(R, r.trial)]
      <4> HIDE DEF L, Q
      <4> QED
        BY <2>1, <2>2, <2>3 DEF Refreshed
    <3>2. Refreshed(R, r) = [r EXCEPT !.status = RecomputedStatus(R, r.trial)]
      BY <2>3 DEF Refreshed
    <3> QED
      BY <3>1, <3>2 DEF Row
  <2>4. CASE ~ Competes(r)
    BY <2>1, <2>4 DEF Refreshed
  <2> QED
    BY <2>3, <2>4
<1>3. recompute_rows(Q) = {Refreshed(Q, L(r)) : r \in R}
  <2> HIDE DEF L, Q
  <2> QED
    BY <1>1 DEF recompute_rows
<1>4. {Refreshed(Q, L(r)) : r \in R} = {F(r) : r \in R}
  <2> HIDE DEF L, F, Q
  <2> QED
    BY <1>2
<1> QED
  BY <1>3, <1>4

\* A refresh leaves the marker in a diagnostic, and overwrites the one in the status of a row
\* that competes.
LEMMA RefreshedKill ==
    ASSUME NEW R, NEW r \in Row
    PROVE  /\ OldKill(Refreshed(R, r)) => OldKill(r)
           /\ OldKill(r) => OldKill(Refreshed(R, r)) \/ (Competes(r) /\ MarkedInStatus(r))
           /\ Competes(r) /\ MarkedInStatus(r) => ~ OldKill(Refreshed(R, r))
<1>1. CASE Competes(r)
  <2>1. /\ Refreshed(R, r).outcome = r.outcome
        /\ Refreshed(R, r).status \in {"incomplete", "dominated", "on_front"}
    BY <1>1, RefreshedRow, RecomputedStatusCompetes
  <2> QED
    BY <1>1, <2>1 DEF OldKill, MarkedInStatus
<1>2. CASE ~ Competes(r)
  BY <1>2 DEF Refreshed
<1> QED
  BY <1>1, <1>2

\* The migration and the recompute commute on a store of one row per Trial exactly when no row
\* that competes bears the marker in its status alone (recompute.relabel_watchdog_kills reads the
\* status, recompute.recompute_rows overwrites it): such a kill is relabelled by a migration that
\* comes before the first recompute, and never by one that comes after it.
THEOREM RelabelCommutes ==
    ASSUME NEW R \in SUBSET Row,
           \A q, r \in R : q.trial = r.trial => q = r
    PROVE  recompute_rows(relabel_watchdog_kills(R)) = relabel_watchdog_kills(recompute_rows(R))
             <=> ~ \E r \in R : Competes(r) /\ MarkedInStatus(r)
<1> DEFINE K == {r \in R : OldKill(r)}
           Q == recompute_rows(R)
           L(r) == [r EXCEPT !.outcome = "final"]
           First(r) == IF r \in K THEN L(Refreshed(R, r)) ELSE Refreshed(R, r)
           After(r) == IF OldKill(Refreshed(R, r)) THEN L(Refreshed(R, r)) ELSE Refreshed(R, r)
<1>1. recompute_rows(relabel_watchdog_kills(R)) = {First(r) : r \in R}
  BY RecomputeOfRelabelled DEF relabel_watchdog_kills
<1>2. relabel_watchdog_kills(Q) = {After(r) : r \in R}
  <2>1. relabel_watchdog_kills(Q) = {IF OldKill(q) THEN L(q) ELSE q : q \in Q}
    BY DEF relabel_watchdog_kills, Relabelled
  <2>2. Q = {Refreshed(R, r) : r \in R}
    BY DEF recompute_rows
  <2> HIDE DEF L, Q
  <2> QED
    BY <2>1, <2>2
<1>3. ASSUME ~ \E r \in R : Competes(r) /\ MarkedInStatus(r)
      PROVE  \A r \in R : First(r) = After(r)
  <2>1. \A r \in R : r \in K <=> OldKill(Refreshed(R, r))
    BY <1>3, RefreshedKill
  <2> HIDE DEF L, K
  <2> QED
    BY <2>1
<1>4. ASSUME NEW r \in R, Competes(r), MarkedInStatus(r)
      PROVE  {First(q) : q \in R} # {After(q) : q \in R}
  <2>1. After(r) = Refreshed(R, r) /\ Refreshed(R, r).outcome = "MODEL_REJECTED"
    BY <1>4, RefreshedKill, RefreshedRow DEF MarkedInStatus
  <2>2. r \in K
    BY <1>4 DEF OldKill
  <2>3. First(r).outcome = "final"
    BY <2>2, RefreshedRow DEF Row
  <2>4. ASSUME NEW q \in R, First(q) = After(r)
        PROVE  FALSE
    <3>1. Refreshed(R, q) \in Row /\ Refreshed(R, q).trial = q.trial /\ Refreshed(R, r).trial = r.trial
      BY RefreshedRow
    <3>2. First(q).trial = q.trial
      BY <3>1 DEF Row
    <3>3. q = r
      <4> HIDE DEF First, After
      <4> QED
        BY <2>1, <2>4, <3>1, <3>2
    <3> HIDE DEF First, After
    <3> QED
      BY <2>1, <2>3, <2>4, <3>3
  <2> HIDE DEF First, After, K
  <2> QED
    BY <2>4
<1> HIDE DEF First, After, K
<1> QED
  BY <1>1, <1>2, <1>3, <1>4

\* A relabelling leaves a settled store settled.
LEMMA RelabelKeepsSettled ==
    ASSUME NEW R \in SUBSET Row, recompute_rows(R) = R, NEW S
    PROVE  recompute_rows(Relabelled(R, S)) = Relabelled(R, S)
<1> DEFINE F(r) == IF r \in S THEN [Refreshed(R, r) EXCEPT !.outcome = "final"] ELSE Refreshed(R, r)
           L(r) == IF r \in S THEN [r EXCEPT !.outcome = "final"] ELSE r
<1>1. ASSUME NEW r \in R
      PROVE  Refreshed(R, r) = r
  <2>1. PICK q \in R : r = Refreshed(R, q)
    BY DEF recompute_rows
  <2> QED
    BY <2>1, RefreshTwice
<1>2. \A r \in R : F(r) = L(r)
  BY <1>1
<1>3. recompute_rows(Relabelled(R, S)) = {F(r) : r \in R}
  BY RecomputeOfRelabelled
<1>4. Relabelled(R, S) = {L(r) : r \in R}
  BY DEF Relabelled
<1> HIDE DEF F, L
<1> QED
  BY <1>2, <1>3, <1>4

\* A relabelling before the recompute is one after it, of the same Trials.
LEMMA RelabelThenRecompute ==
    ASSUME NEW R \in SUBSET Row, NEW S \in SUBSET R,
           \A q, r \in R : q.trial = r.trial => q = r
    PROVE  recompute_rows(Relabelled(R, S))
             = Relabelled(recompute_rows(R), {Refreshed(R, r) : r \in S})
<1> DEFINE T == {Refreshed(R, r) : r \in S}
           F(r) == IF r \in S THEN [Refreshed(R, r) EXCEPT !.outcome = "final"] ELSE Refreshed(R, r)
           G(q) == IF q \in T THEN [q EXCEPT !.outcome = "final"] ELSE q
<1>1. ASSUME NEW r \in R
      PROVE  r \in S <=> Refreshed(R, r) \in T
  <2>1. \A q \in R : Refreshed(R, q).trial = q.trial
    BY RefreshedRow
  <2> QED
    BY <2>1
<1>2. \A r \in R : F(r) = G(Refreshed(R, r))
  BY <1>1
<1>3. Relabelled(recompute_rows(R), T) = {G(q) : q \in recompute_rows(R)}
  BY DEF Relabelled
<1>4. recompute_rows(R) = {Refreshed(R, r) : r \in R}
  BY DEF recompute_rows
<1>5. recompute_rows(Relabelled(R, S)) = {F(r) : r \in R}
  BY RecomputeOfRelabelled
<1> HIDE DEF F, G, T
<1>6. Relabelled(recompute_rows(R), T) = {G(Refreshed(R, r)) : r \in R}
  BY <1>3, <1>4
<1>7. Relabelled(recompute_rows(R), T) = {F(r) : r \in R}
  BY <1>2, <1>6
<1> QED
  BY <1>5, <1>7 DEF T

\* Measurements are only ever added to a point, which gets no worse by it.
LEMMA MergeGrows ==
    ASSUME NEW V \in SUBSET Vectors, NEW W \in SUBSET Vectors, V \subseteq W,
           Complete(Merge(V))
    PROVE  Complete(Merge(W)) /\ \A x \in Axes : Merge(W)[x] >= Merge(V)[x]
<1>1. ASSUME NEW x \in Axes
      PROVE  Merge(W)[x] # NotMeasured /\ Merge(W)[x] >= Merge(V)[x]
  <2>1. Measured(V, x) # {} /\ Measured(V, x) \subseteq Measured(W, x)
    <3>1. Merge(V)[x] # NotMeasured
      BY DEF Complete
    <3> QED
      BY <3>1, MergeAxis DEF Measured
  <2> QED
    BY <2>1, MergeAxis
<1> QED
  BY <1>1 DEF Complete

LEMMA PointsAreVectors ==
    ASSUME NEW R \in SUBSET Row, NEW m, NEW b
    PROVE  /\ {Attr[t].vector : t \in {u \in Competitors(R, b) : Attr[u].model = m}}
                    \in SUBSET Vectors
           /\ Point(R, m, b) \in Vectors
<1>1. {Attr[t].vector : t \in {u \in Competitors(R, b) : Attr[u].model = m}} \in SUBSET Vectors
  BY AttrAssumption DEF Competitors, Row, TrialAttrs
<1> QED
  BY <1>1, MergeIsVector DEF Point

\* A dominated point stays dominated when a Trial of another basename is
\* added to the store.
LEMMA DominatedStays ==
    ASSUME NEW R \in SUBSET Row, NEW n \in Row, NEW t \in Trials,
           Attr[t].model # Attr[n.trial].model,
           RecomputedStatus(R, t) = "dominated"
    PROVE  RecomputedStatus(R \cup {n}, t) = "dominated"
<1> DEFINE S == R \cup {n}
           b == Attr[t].bucket
           V(Q, m) == {Attr[w].vector : w \in {u \in Competitors(Q, b) : Attr[u].model = m}}
<1>1. /\ Competitors(S, b) = Competitors(R, b) \cup Competitors({n}, b)
      /\ Competitors({n}, b) \subseteq {n.trial}
  BY CompetitorsOfUnion DEF Competitors
<1>2. S \in SUBSET Row
  OBVIOUS
<1>3. \A Q, m : Point(Q, m, b) = Merge(V(Q, m))
  BY DEF Point
<1>4. \A m : V(R, m) \in SUBSET Vectors /\ V(S, m) \in SUBSET Vectors /\ V(R, m) \subseteq V(S, m)
  BY <1>1, <1>2, PointsAreVectors
<1>5. Point(S, Attr[t].model, b) = Point(R, Attr[t].model, b)
  <2>1. V(S, Attr[t].model) = V(R, Attr[t].model)
    BY <1>1
  <2> QED
    BY <2>1, <1>3
<1>6. PICK u \in Competitors(R, b) :
            Dominates(Point(R, Attr[u].model, b), Point(R, Attr[t].model, b))
  BY DEF RecomputedStatus, classify_trial, Points
<1>7. Complete(Point(R, Attr[t].model, b))
  BY <1>6 DEF Dominates
<1> DEFINE w == Point(R, Attr[u].model, b)
           z == Point(S, Attr[u].model, b)
           v == Point(R, Attr[t].model, b)
<1>8. Complete(w) /\ Complete(z) /\ \A x \in Axes : z[x] >= w[x]
  <2> DEFINE A == V(R, Attr[u].model)
             B == V(S, Attr[u].model)
  <2>1. w = Merge(A) /\ z = Merge(B)
    BY DEF Point
  <2>2. A \in SUBSET Vectors /\ B \in SUBSET Vectors /\ A \subseteq B
    BY <1>4
  <2>3. Complete(w)
    BY <1>6 DEF Dominates
  <2> HIDE DEF A, B, w, z
  <2> QED
    BY <2>1, <2>2, <2>3, MergeGrows
<1>9. Dominates(z, v)
  <2>1. w \in Vectors /\ z \in Vectors /\ v \in Vectors
    BY <1>2, PointsAreVectors
  <2> HIDE DEF w, z, v
  <2>2. \A x \in Axes : w[x] \in Int /\ z[x] \in Int /\ v[x] \in Int
    <3>1. Complete(v)
      BY <1>7 DEF v
    <3> QED
      BY <2>1, <3>1, <1>8, ScoresAreInt DEF Vectors, Complete
  <2>3. Dominates(w, v)
    BY <1>6 DEF w, v
  <2> QED
    BY <2>2, <2>3, <1>8 DEF Dominates
<1>10. z \in Points(S, b)
  BY <1>1 DEF Points
<1> QED
  BY <1>5, <1>7, <1>9, <1>10 DEF RecomputedStatus, classify_trial

=============================================================================
