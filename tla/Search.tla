------------------------------- MODULE Search -------------------------------
(***************************************************************************)
(* The hill-climbing strategy of the Search (autoresearch/core/search.py): *)
(* Neighbors, Random Restarts and the keep rules.  It is pure; AutoLoop    *)
(* drives it.                                                              *)
(*                                                                         *)
(* A search space is a function from knobs to the sequence of their        *)
(* levels.  A configuration is a model with a value for every knob; what   *)
(* else a configuration holds is never changed by the Search.  All of it   *)
(* is get_config_key, so a configuration is its own key.                   *)
(*                                                                         *)
(* Measurements are natural numbers: scores in units of 0.0001 (the width  *)
(* of a tie), the others in any unit.                                      *)
(***************************************************************************)
EXTENDS Pareto, SequencesExt

CONSTANTS
    Models,         \* GGUF basenames
    KnobOrder,      \* the knobs in the order of SEARCH_SPACE
    Values,         \* the values a knob can have, levels or not
    ProbeLimit,     \* how many points the deterministic probe looks at: 1000
    NoConfig        \* the code's None

Knobs == Range(KnobOrder)

Config == [model : Models, knob : [Knobs -> Values]]

Spaces == [Knobs -> Seq(Values)]

\* A configuration with UBATCH_SIZE > BATCH_SIZE is never tried.
is_batch_consistent(c) ==
    {"BATCH_SIZE", "UBATCH_SIZE"} \subseteq Knobs
        => c.knob["UBATCH_SIZE"] <= c.knob["BATCH_SIZE"]

-----------------------------------------------------------------------------
\* The levels next to v, or all of them when v is none.
Adjacent(levels, v) ==
    IF v \in Range(levels)
      THEN {levels[i] : i \in {j \in DOMAIN levels :
                \/ j > 1 /\ levels[j-1] = v
                \/ j < Len(levels) /\ levels[j+1] = v}}
      ELSE Range(levels)

get_neighbors(space, c) ==
    {n \in UNION {{[c EXCEPT !.knob[k] = v] : v \in Adjacent(space[k], c.knob[k])} :
                    k \in Knobs} : is_batch_consistent(n)}

\* The place of a point of the space in the order of itertools.product.
Rank(space, c) ==
    FoldLeft(LAMBDA place, k :
                place * Len(space[k]) + SelectInSeq(space[k], LAMBDA v : v = c.knob[k]) - 1,
             0, KnobOrder)

\* The points of the space for the model of c.
SpacePoints(space, c) ==
    {n \in {[c EXCEPT !.knob = f] : f \in [Knobs -> UNION {Range(space[k]) : k \in Knobs}]} :
        \A k \in Knobs : n.knob[k] \in Range(space[k])}

\* Mutant: visited points are returned too.
AnyRestart(space, visited, c) ==
    {n \in SpacePoints(space, c) : is_batch_consistent(n)}

\* What random_restart can return: any unvisited point the samples hit, and,
\* when they all miss, None unless the probe meets an unvisited point.
random_restart(space, visited, c) ==
    LET unvisited == {n \in SpacePoints(space, c) : is_batch_consistent(n)} \ visited
    IN  unvisited \cup IF \E n \in unvisited : Rank(space, n) < ProbeLimit
                         THEN {} ELSE {NoConfig}

\* autoloop.apply_pins: a pinned knob keeps one of its levels.
apply_pins(space, pins) ==
    [k \in Knobs |-> IF k \in DOMAIN pins /\ pins[k] \in Range(space[k])
                       THEN <<pins[k]>> ELSE space[k]]

-----------------------------------------------------------------------------
TrialOutcome == {"OK", "INVALID_CONFIG", "MODEL_REJECTED", "WATCHDOG_KILL",
                 "INFRA_ERROR", "CODE_ERROR"}

Result == [outcome : TrialOutcome, vector : Vectors,
           score : Nat, tps : Nat, vram : Nat, ppl : Nat]

\* Joins or improves the Pareto Set of the vectors known so far.
improves_set(known, v) ==
    Complete(v) /\ ~ \E w \in ParetoSet(known) : Dominates(w, v)

\* The scalar keep rule for incomplete vectors (use_pareto_tiebreaker set).
is_improvement(base, new) ==
    \/ new.score > base.score + 1
    \/ /\ new.score + 1 >= base.score
       /\ \/ 100 * new.tps > 105 * base.tps
          \/ /\ 100 * new.tps >= 95 * base.tps
             /\ base.vram > 0
             /\ 100 * new.vram < 95 * base.vram

\* The perplexity ceiling of tps mode and of --perplexity-val.
PplDegraded(base, new) == 100 * new.ppl > 101 * base.ppl

=============================================================================
