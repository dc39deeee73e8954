------------------------------ MODULE MCLaunch ------------------------------
(***************************************************************************)
(* Instances of Launch: three launches that come one after the other, or   *)
(* that overlap.                                                           *)
(***************************************************************************)
EXTENDS Launch

\* Launches start in any order, so the order of their kinds does not matter.
Kinds == <<"llama", "sglang", "alias">>
KindsOf == {[l \in Launches |-> Kinds[k[l]]] : k \in {f \in [Launches -> 1..3] : f[1] <= f[2] /\ f[2] <= f[3]}}

\* The default port, one that the gate and the sweep do not look at, and the last resort.
MCCandidates == <<18080, 18081, 28080>>
MCHarnessPorts == {18080, 28080} \cup (9100..9114)

Orderly ==
    {p \in [kind : KindsOf, multi : {[l \in Launches |-> l = m] : m \in Launches \cup {Nobody}},
            orderly : {TRUE}, tools : {TRUE}, foreign : {{}, {18080}}] :
        p.foreign = {} \/ \A l \in Launches : ~p.multi[l]}

\* Launches that overlap: one of each kind, or all with the same fail-over.
Overlapping ==
    {p \in [kind : {Kinds, [l \in Launches |-> "llama"]}, multi : {[l \in Launches |-> FALSE]},
            orderly : {FALSE}, tools : BOOLEAN, foreign : {{}}] : p.tools \/ p.kind = Kinds}

MCPlans == Orderly \cup Overlapping
=============================================================================
