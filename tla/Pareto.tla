------------------------------- MODULE Pareto -------------------------------
(***************************************************************************)
(* The Pareto nucleus of the harness (autoresearch/core/pareto.py):        *)
(* Objective Vectors, domination, the merge of partial measurements and    *)
(* the Pareto Set.  It is pure; every other component ranks Trials with    *)
(* these operators.                                                        *)
(*                                                                         *)
(* An axis value is a member of Scores, or NotMeasured for the code's      *)
(* None.  The code's four axes are the constant Axes: nothing here depends *)
(* on how many there are.                                                  *)
(***************************************************************************)
EXTENDS FiniteSetsExt

CONSTANTS
    Axes,           \* the maximised axes: ctx, tps, agentic, coding
    Scores,         \* the integers an axis can be measured at
    NotMeasured     \* the axis has no measurement yet

ASSUME AxesAssumption == Axes # {}

\* Scores is a set of integers in which every non-empty set has a greatest
\* member, as every finite set of integers has.
ASSUME ScoresAssumption ==
    /\ Scores \subseteq Int
    /\ NotMeasured \notin Scores
    /\ \A S \in SUBSET Scores : S # {} => \E m \in S : \A n \in S : m >= n

Vectors == [Axes -> Scores \cup {NotMeasured}]

Complete(v) == \A x \in Axes : v[x] # NotMeasured

\* a is at least as good everywhere and better somewhere.  An incomplete
\* vector neither dominates nor is dominated.
Dominates(a, b) ==
    /\ Complete(a)
    /\ Complete(b)
    /\ \A x \in Axes : a[x] >= b[x]
    /\ \E x \in Axes : a[x] > b[x]

ParetoSet(V) ==
    {v \in V : Complete(v) /\ ~ \E w \in V : Dominates(w, v)}

-----------------------------------------------------------------------------
\* merge() folds two vectors at a time, keeping the better value of an axis.
Best(a, b) ==
    IF a = NotMeasured THEN b
    ELSE IF b = NotMeasured \/ a >= b THEN a ELSE b

MergeTwo(v, w) == [x \in Axes |-> Best(v[x], w[x])]

\* The result of that fold over a set of vectors of one Fingerprint, in
\* whatever order: the best measurement of every axis.
Measured(V, x) == {v[x] : v \in V} \ {NotMeasured}

Merge(V) ==
    [x \in Axes |-> IF Measured(V, x) = {} THEN NotMeasured
                                           ELSE Max(Measured(V, x))]

=============================================================================
