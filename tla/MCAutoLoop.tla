----------------------------- MODULE MCAutoLoop -----------------------------
(***************************************************************************)
(* Instances of AutoLoop.  Two knobs with two levels each, of which three  *)
(* of the four combinations are consistent, and a third knob in some runs; *)
(* "m1" and "m2" are models.  What a Trial measures depends on the sum of  *)
(* the knobs, so that there is a slope to climb; on "m2" all are as fast   *)
(* and only the memory they use tells them apart.                          *)
(***************************************************************************)
EXTENDS AutoLoop

MCAxes == {"tps", "coding"}
MCScores == 0..9

TwoKnobs == <<"BATCH_SIZE", "UBATCH_SIZE">>
ThreeKnobs == <<"BATCH_SIZE", "UBATCH_SIZE", "THREADS">>
MCSpace == [k \in Knobs |-> <<1, 2>>]
OneModel == <<"m1">>
TwoModels == <<"m1", "m2">>

ConfigOf(m, f) == [model |-> m, knob |-> f]
AllOnes == ConfigOf("m1", [k \in Knobs |-> 1])

\* A value that is no level.
OffSpace == ConfigOf("m1", [k \in Knobs |-> IF k = "BATCH_SIZE" THEN 3 ELSE 1])

Total(c) == FoldFunction(+, 0, c.knob)

AllFit == Config
\* The largest configuration is over the VRAM budget.
SmallFit == {c \in Config : Total(c) < 2 * Len(KnobOrder)}

\* Engine-only Trials: the vector is incomplete, the score is the speed.
Speed(n) == [outcome |-> "OK", vector |-> [x \in Axes |-> IF x = "tps" THEN n ELSE NotMeasured],
             score |-> 10 * n, tps |-> 10 * n, vram |-> 5, ppl |-> 100 + n]
Failed(o) == [NoResult EXCEPT !.outcome = o]

\* A batch size that is no level is the slowest.
Pace(c) == IF c.knob["BATCH_SIZE"] = 3 THEN 1 ELSE Total(c)

\* A tie in speed that needs less memory the larger n is.
Lean(n) == [Speed(0) EXCEPT !.score = 20, !.tps = 20, !.vram = 20 - 2 * n]

Engine(c) == IF c.model = "m1" THEN Speed(Pace(c)) ELSE Lean(Pace(c))

SpeedMeasures == [c \in Config |-> {Engine(c)}]
SpeedOrFail == [c \in Config |->
    {Engine(c)} \cup (IF Total(c) % 2 = 1 THEN {Failed("MODEL_REJECTED"), Failed("INFRA_ERROR")} ELSE {})]

\* Full Trials: faster configurations are worse at coding, except the fastest.
Full(n) == [outcome |-> "OK", score |-> 10 * n, tps |-> n, vram |-> 5, ppl |-> 0,
            vector |-> [x \in Axes |-> IF x = "tps" THEN n ELSE IF n > 3 THEN 1 ELSE 5 - n]]
FullMeasures == [c \in Config |-> {Full(Total(c))}]
FullOrKilled == [c \in Config |->
    {Full(Total(c))} \cup (IF Total(c) = 3 THEN {[Full(3) EXCEPT !.outcome = "WATCHDOG_KILL", !.score = 0]} ELSE {})]

NoPinning == {NoPins}
SomePins == {NoPins, "BATCH_SIZE" :> 2}
=============================================================================
