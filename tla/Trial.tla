------------------------------- MODULE Trial -------------------------------
(***************************************************************************)
(* One Trial: ExperimentRunner.run_trial (evaluation.py).  A Trial passes  *)
(* the preflights, the bench and the perplexity, then serves the model and *)
(* runs the coding datasets, the agentic tiers and the issue loop against  *)
(* it, and turns what it measured into an outcome and a score.  Meanwhile  *)
(* the server may die and, for llama.cpp, the VRAM sampler may end it.     *)
(*                                                                         *)
(* How the server is started and stopped is ServerRunner's; here a start   *)
(* works or fails, and sampler is the time in which its flag can be set.   *)
(* A Trial whose server dies goes on: every further request fails, and a   *)
(* failed request is a failed task.                                        *)
(***************************************************************************)
EXTENDS VramBudget, Sequences

CONSTANTS
    Trials,     \* what is tried: an intent, a host, options and the tasks found for each tier
    Floor,      \* TPS_FLOOR
    Rates       \* the tokens per second a bench can measure

OptionType ==
    [valid : BOOLEAN, tenTasks : BOOLEAN, skipBench : BOOLEAN, perplexity : BOOLEAN, coding : BOOLEAN,
     quick : BOOLEAN, full : BOOLEAN, issues : BOOLEAN, validation : BOOLEAN]

ASSUME TrialAssumption ==
    /\ Floor \in Nat \ {0}
    /\ Rates \subseteq Nat
    /\ Trials \subseteq [intent : IntentType, host : HostType, opt : OptionType,
                       tasks : [{"quick", "full"} -> Nat]]

VARIABLES
    trial,      \* the intent, the host, the options asked for and the tasks found
    pc,         \* the stage of run_trial
    todo,       \* the datasets or the tasks of the tiers still to run
    plan,       \* the evaluations that will run
    won,        \* tasks passed in the current tier
    server,     \* "none", "up" or "dead"
    vramKilled, \* runner.vram_killed
    res         \* TrialResult

vars == <<trial, pc, todo, plan, won, server, vramKilled, res>>

Datasets == <<"humaneval", "mbpp", "lcb", "bigcode">>
\* Mutant: weights that add up to more than the whole.
WeightDrifted == [humaneval |-> 25, mbpp |-> 25, lcb |-> 45, bigcode |-> 15]

Weight == [humaneval |-> 25, mbpp |-> 25, lcb |-> 35, bigcode |-> 15]

NoPlan == [coding |-> FALSE, quick |-> FALSE, full |-> FALSE, issues |-> FALSE]
NewResult ==
    [outcome |-> "OK", score |-> 0, bench |-> 0, perplexity |-> FALSE, coding |-> 0, tokens |-> FALSE,
     codingTps |-> 0, tier |-> "", agentic |-> 0, count |-> 0, issues |-> Unset, tps |-> 0]

Init ==
    /\ trial \in Trials
    /\ pc = "config"
    /\ todo = <<>>
    /\ plan = NoPlan
    /\ won = 0
    /\ server = "none"
    /\ vramKilled = FALSE
    /\ res = NewResult

At(stage) == pc = stage
Go(stage) == pc' = stage
Opt == trial.opt
Sglang == trial.intent.model.dir
TierTasks == trial.tasks

\* A return before there is a server, and one inside the with statement.
Return(outcome) == res' = [res EXCEPT !.outcome = outcome] /\ Go("done")
Leave(outcome) == res' = [res EXCEPT !.outcome = outcome, !.score = 0] /\ Go("leave")

(***************************************************************************)
(* Before the server.                                                      *)
(***************************************************************************)
BeforeServer == UNCHANGED <<won, server, vramKilled>>

\* ServerIntent.from_config: the offload is resolved, or the configuration is refused.
Configure ==
    /\ At("config")
    /\ LET i == trial.intent IN
       IF ~Opt.valid \/ OffloadRefused(i.model, i.offload)
       THEN Return("INVALID_CONFIG") /\ UNCHANGED trial
       ELSE /\ trial' = [trial EXCEPT !.intent.offload = ResolveOffload(i.model, i.offload)]
            /\ Go("vram")
            /\ UNCHANGED res
    /\ UNCHANGED <<todo, plan>>
    /\ BeforeServer

PreflightVram ==
    /\ At("vram")
    /\ IF VramFits(trial.intent, trial.host) THEN Go("host") /\ UNCHANGED res ELSE Return("MODEL_REJECTED")
    /\ UNCHANGED <<trial, todo, plan>>
    /\ BeforeServer

PreflightHost ==
    /\ At("host")
    /\ IF HostFits(trial.intent, trial.host) THEN Go("plan") /\ UNCHANGED res ELSE Return("MODEL_REJECTED")
    /\ UNCHANGED <<trial, todo, plan>>
    /\ BeforeServer

\* What runs: a validation is a smoke of the quick tier, and of nothing else.
Planned ==
    IF Opt.validation
    THEN [NoPlan EXCEPT !.quick = Opt.quick \/ ~Opt.full]
    ELSE [coding |-> Opt.coding, quick |-> Opt.quick, full |-> Opt.full, issues |-> Opt.issues]

Plan ==
    /\ At("plan")
    /\ plan' = Planned
    /\ IF Planned.coding /\ ~Opt.tenTasks THEN Return("INVALID_CONFIG")
       ELSE IF \E t \in {"quick", "full"} : Planned[t] /\ TierTasks[t] = 0 THEN Return("INFRA_ERROR")
       ELSE Go(IF Opt.skipBench THEN "perplexity" ELSE "bench") /\ UNCHANGED res
    /\ UNCHANGED <<trial, todo>>
    /\ BeforeServer

\* The bench measures a rate.
Bench ==
    /\ At("bench")
    /\ \E rate \in Rates :
         IF rate < Floor
         THEN /\ res' = [res EXCEPT !.bench = rate, !.outcome = "MODEL_REJECTED"]
              /\ Go("done")
         ELSE res' = [res EXCEPT !.bench = rate] /\ Go("perplexity")
    /\ UNCHANGED <<trial, todo, plan>>
    /\ BeforeServer

\* llama-cli that crashes rejects the model, and one that its watcher killed is a kill; the rest,
\* and everything that goes wrong in SGLang's bench, is infrastructure.
BenchFails ==
    /\ At("bench")
    /\ \E outcome \in {"INFRA_ERROR"} \cup (IF Sglang THEN {} ELSE {"MODEL_REJECTED", "WATCHDOG_KILL"}) :
         Return(outcome)
    /\ UNCHANGED <<trial, todo, plan>>
    /\ BeforeServer

\* run_llama_perplexity_validation, when it is asked for.
Perplexity ==
    /\ At("perplexity")
    /\ \/ Opt.perplexity /\ Return("INFRA_ERROR")
       \/ res' = [res EXCEPT !.perplexity = Opt.perplexity] /\ Go("engine")
    /\ UNCHANGED <<trial, todo, plan>>
    /\ BeforeServer

\* With perplexity and no evaluation the Trial ends here, without a server.
EngineOnly == Opt.perplexity /\ plan = NoPlan

Engine ==
    /\ At("engine")
    /\ IF EngineOnly
       THEN /\ res' = [res EXCEPT !.tps = res.bench,
                                  !.score = IF res.bench < Floor THEN 0 ELSE res.bench,
                                  !.outcome = IF res.bench < Floor THEN "MODEL_REJECTED" ELSE "OK"]
            /\ Go("done")
       ELSE Go("start") /\ UNCHANGED res
    /\ UNCHANGED <<trial, todo, plan>>
    /\ BeforeServer

(***************************************************************************)
(* The server.  An exception is infrastructure when it is an OSError, and  *)
(* an error of the code otherwise.                                         *)
(***************************************************************************)
Raised(outcome) == outcome \in {"INFRA_ERROR", "CODE_ERROR"} /\ Leave(outcome)

\* No binary, a refusal of the gate, no port, a server that ends while it loads.
StartFails ==
    /\ At("start")
    /\ \E outcome \in {"INFRA_ERROR", "CODE_ERROR"} : Raised(outcome)
    /\ UNCHANGED <<trial, todo, plan, won, server, vramKilled>>

\* Mutant: no RAM preflight.
StartUnchecked ==
    /\ At("start")
    /\ server' = "up" /\ Go("entry")
    /\ UNCHANGED <<trial, todo, plan, won, vramKilled, res>>

\* The RAM preflight comes before the start, for llama.cpp.
Start ==
    /\ At("start")
    /\ IF Sglang \/ RamFits(trial.intent, trial.host)
       THEN server' = "up" /\ Go("entry") /\ UNCHANGED res
       ELSE Raised("CODE_ERROR") /\ UNCHANGED server
    /\ UNCHANGED <<trial, todo, plan, won, vramKilled>>

\* Where the evaluations begin, each of which may have nothing to do.
Entry ==
    /\ At("entry")
    /\ IF vramKilled
       THEN Leave("WATCHDOG_KILL") /\ UNCHANGED todo
       ELSE /\ todo' = IF plan.coding THEN Datasets ELSE <<>>
            /\ Go("coding")
            /\ UNCHANGED res
    /\ UNCHANGED <<trial, plan, won, server, vramKilled>>

\* One dataset of run_coding: passed or not.  A dead server answers nothing.
Dataset ==
    /\ At("coding") /\ todo # <<>>
    /\ \E passed, answered \in BOOLEAN :
         /\ passed => answered
         /\ answered => server = "up"
         /\ res' = [res EXCEPT !.coding = @ + IF passed THEN Weight[Head(todo)] ELSE 0,
                               !.tokens = @ \/ answered]
    /\ todo' = Tail(todo)
    /\ UNCHANGED <<trial, pc, plan, won, server, vramKilled>>

\* The tiers follow each other; a tier is as many tasks as were found for it.
TasksOf(tier) == [k \in 1..TierTasks[tier] |-> tier]
Queued(tier) == IF plan[tier] THEN TasksOf(tier) ELSE <<>>
TierQueue == Queued("quick") \o Queued("full")

CodingDone ==
    /\ At("coding") /\ todo = <<>>
    /\ IF plan.coding /\ res.coding = 0
       THEN Leave("MODEL_REJECTED") /\ UNCHANGED todo
       ELSE /\ \E rate \in Rates \cup {0} :
                 /\ (rate > 0) <=> res.tokens
                 /\ res' = [res EXCEPT !.codingTps = rate]
            /\ todo' = TierQueue
            /\ Go("tier")
    /\ UNCHANGED <<trial, plan, won, server, vramKilled>>

\* Mutant: the first tier is kept.
KeptFirst(tier) == tier = "quick" \/ ~plan.quick

\* The result of the last tier that was asked for is kept.
Kept(tier) == tier = "full" \/ ~plan.full

\* One task: run_agentic_eval and, after the last task of a tier, its score.
TierTask ==
    /\ At("tier") /\ todo # <<>>
    /\ \E passed \in IF server = "up" THEN BOOLEAN ELSE {FALSE} :
         LET tier == Head(todo)
             count == won + IF passed THEN 1 ELSE 0
             last == Len(todo) = 1 \/ todo[2] # tier
         IN /\ won' = IF last THEN 0 ELSE count
            /\ res' = IF last /\ Kept(tier)
                      THEN [res EXCEPT !.tier = tier, !.count = TierTasks[tier],
                                       !.agentic = (100 * count) \div TierTasks[tier]]
                      ELSE res
    /\ todo' = Tail(todo)
    /\ UNCHANGED <<trial, pc, plan, server, vramKilled>>

TiersDone ==
    /\ At("tier") /\ todo = <<>>
    /\ Go("issues")
    /\ UNCHANGED <<trial, todo, plan, won, server, vramKilled, res>>

\* run_agentic_coding_eval: see AgenticCoding.
Issues ==
    /\ At("issues")
    /\ IF plan.issues
       THEN \E score \in IF server = "up" THEN {0, 100} ELSE {0} : res' = [res EXCEPT !.issues = score]
       ELSE UNCHANGED res
    /\ Go("score")
    /\ UNCHANGED <<trial, todo, plan, won, server, vramKilled>>

\* A dataset, a mock service or a work tree that is not to be had.
EvaluationRaises ==
    /\ \/ At("coding") /\ plan.coding
       \/ At("tier") /\ todo # <<>>
       \/ At("issues") /\ plan.issues
    /\ \E outcome \in {"INFRA_ERROR", "CODE_ERROR"} : Raised(outcome)
    /\ UNCHANGED <<trial, todo, plan, won, server, vramKilled>>

\* The rate is that of the coding run, else of the bench; without either nothing is rejected.
Rate == IF plan.coding /\ res.codingTps > 0 THEN res.codingTps ELSE IF Opt.skipBench THEN 0 ELSE res.bench
Measured == (plan.coding /\ res.codingTps > 0) \/ ~Opt.skipBench

\* The agentic score goes before the coding score, and that before the rate.
Quality ==
    IF res.tier # "" THEN res.agentic
    ELSE IF plan.coding THEN res.coding
    ELSE IF Opt.perplexity THEN Rate
    ELSE 0

\* Mutant: a Trial below the floor is rejected with its score.
ScoreKept ==
    /\ At("score")
    /\ res' = [res EXCEPT !.tps = Rate, !.score = Quality,
                          !.outcome = IF Measured /\ Rate < Floor THEN "MODEL_REJECTED" ELSE @]
    /\ Go("leave")
    /\ UNCHANGED <<trial, todo, plan, won, server, vramKilled>>

Score ==
    /\ At("score")
    /\ IF Measured /\ Rate < Floor
       THEN res' = [res EXCEPT !.tps = Rate, !.score = 0, !.outcome = "MODEL_REJECTED"]
       ELSE res' = [res EXCEPT !.tps = Rate, !.score = Quality]
    /\ Go("leave")
    /\ UNCHANGED <<trial, todo, plan, won, server, vramKilled>>

\* The clean-up in __exit__ may raise, in the place of what the evaluation had found.
Exited == IF server = "none" THEN {res}
          ELSE {res} \cup {[res EXCEPT !.outcome = o, !.score = 0] : o \in {"INFRA_ERROR", "CODE_ERROR"}}
Killed(r) == [r EXCEPT !.outcome = "WATCHDOG_KILL", !.score = 0]

\* Mutant: a kill counts only when nothing else went wrong.
FinishWhenOk ==
    /\ At("leave")
    /\ server' = "none"
    /\ \E r \in Exited : res' = IF vramKilled /\ r.outcome = "OK" THEN Killed(r) ELSE r
    /\ Go("done")
    /\ UNCHANGED <<trial, todo, plan, won, vramKilled>>

\* __exit__ and the finally clause.  SGLang's runner has no such flag.
Finish ==
    /\ At("leave")
    /\ server' = "none"
    /\ \E r \in Exited : res' = IF vramKilled THEN Killed(r) ELSE r
    /\ Go("done")
    /\ UNCHANGED <<trial, todo, plan, won, vramKilled>>

(***************************************************************************)
(* The sampler starts before the RAM preflight and is stopped on leaving;  *)
(* one of its branches sets the flag and spares the server.                *)
(***************************************************************************)
Serving == pc \in {"start", "entry", "coding", "tier", "issues", "score", "leave"}

SamplerKills ==
    /\ Serving /\ ~Sglang
    /\ ~vramKilled
    /\ vramKilled' = TRUE
    /\ server' \in IF server = "up" THEN {"up", "dead"} ELSE {server}
    /\ UNCHANGED <<trial, pc, todo, plan, won, res>>

\* A crash, or the RAM circuit breaker.
ServerDies ==
    /\ server = "up"
    /\ server' = "dead"
    /\ UNCHANGED <<trial, pc, todo, plan, won, vramKilled, res>>

Next ==
    \/ Configure \/ PreflightVram \/ PreflightHost \/ Plan
    \/ Bench \/ BenchFails \/ Perplexity \/ Engine
    \/ StartFails \/ Start \/ Entry \/ Dataset \/ CodingDone \/ TierTask \/ TiersDone \/ Issues
    \/ EvaluationRaises \/ Score \/ Finish
    \/ SamplerKills \/ ServerDies

Spec == Init /\ [][Next]_vars

(***************************************************************************)
(* Properties                                                              *)
(***************************************************************************)
Outcomes == {"OK", "INVALID_CONFIG", "MODEL_REJECTED", "WATCHDOG_KILL", "INFRA_ERROR", "CODE_ERROR"}

\* Types, and: a score is a percentage or a rate, never negative.
TypeOK ==
    /\ pc \in {"config", "vram", "host", "plan", "bench", "perplexity", "engine", "start", "entry",
               "coding", "tier", "issues", "score", "leave", "done"}
    /\ plan \in [DOMAIN NoPlan -> BOOLEAN]
    /\ server \in {"none", "up", "dead"}
    /\ vramKilled \in BOOLEAN
    /\ won \in 0..Most(TierTasks["quick"], TierTasks["full"])
    /\ res.outcome \in Outcomes
    /\ res.score \in Nat /\ res.coding \in 0..100 /\ res.agentic \in 0..100
    /\ res.bench \in Rates \cup {0} /\ res.tps \in Rates \cup {0}

\* A server only ever holds a model whose estimate is within the ceiling at which the run-time
\* monitor of that very server would kill it, and that the host has the memory for.  Only a
\* configuration that keeps less of the GPU out of use than the monitor does is excepted: the
\* preflight reads that setting and the monitor does not.
MonitorCeilingMB == KillCeil(ResolveLimit(ResolveLimit(trial.host.vramLimit, trial.host), trial.host),
                             trial.host.totalVram, MonitorKeepout(trial.host))
AcceptedFits ==
    server # "none" =>
        /\ \/ EstimateVramMB(trial.intent) <= MonitorCeilingMB
           \/ ClampKeepout(trial.host) < MonitorKeepout(trial.host)
        /\ HostFits(trial.intent, trial.host)
        /\ Sglang \/ RamFits(trial.intent, trial.host)

\* A positive score belongs to a clean outcome at a rate that is not below the floor; only a Trial
\* that measured no rate is excused.
ScoreIsEarned ==
    res.score > 0 /\ At("done") =>
        /\ res.outcome = "OK"
        /\ res.tps >= Floor \/ (Opt.skipBench /\ res.codingTps = 0)

\* Once the sampler has raised its flag, the Trial is a kill and scores nothing, whatever it had
\* measured and whatever else went wrong.
KillWins == At("done") /\ vramKilled => res.outcome = "WATCHDOG_KILL" /\ res.score = 0

\* The Trial keeps to the life of a server that its runner promises: the same one that the threads of
\* ServerRunner implement.
Phase == IF At("done") THEN "over" ELSE IF At("leave") THEN "leaving"
         ELSE IF pc \in {"coding", "tier", "issues", "score"} THEN "serving" ELSE "starting"
Live == IF server = "up" THEN {"server"} ELSE {}
Flagged == IF vramKilled THEN {"vram"} ELSE {}
Verdict == CASE ~At("done") -> "none"
             [] At("done") /\ res.outcome = "OK" -> "ok"
             [] At("done") /\ res.outcome = "WATCHDOG_KILL" -> "watchdog"
             [] OTHER -> "error"
Life == INSTANCE ServerLife WITH
    Servers <- {"server"}, phase <- Phase, live <- Live, flags <- Flagged, verdict <- Verdict
ImplementsLife == Life!Spec

\* A clean Trial measured everything that was asked of it: no axis is missing because a stage was
\* passed over, and with both tiers it is the full one that is kept.
OkIsComplete ==
    At("done") /\ res.outcome = "OK" =>
        /\ Opt.skipBench \/ res.bench >= Floor
        /\ Opt.perplexity => res.perplexity
        /\ plan.coding => res.coding > 0
        /\ plan.full => res.tier = "full" /\ res.count = TierTasks["full"]
        /\ plan.quick /\ ~plan.full => res.tier = "quick"
        /\ plan.issues => res.issues # Unset
        /\ Opt.full /\ ~Opt.validation => plan.full
=============================================================================
