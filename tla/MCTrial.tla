------------------------------ MODULE MCTrial ------------------------------
(***************************************************************************)
(* Instances of Trial: every combination of models, settings and hosts     *)
(* under one set of options, and every set of options for a model that     *)
(* fits.                                                                   *)
(***************************************************************************)
EXTENDS Trial

MCFloor == 20
MCRates == {15, 25}
Tasks == [quick |-> 1, full |-> 2]
NoFullTier == [quick |-> 1, full |-> 0]

Dense == [dir |-> FALSE, size |-> 4000, readable |-> TRUE, moe |-> FALSE, blocks |-> 32,
          attn |-> TRUE, experts |-> 0, mtp |-> FALSE, full |-> 64, swa |-> 0, window |-> 0]
Mtp == [Dense EXCEPT !.mtp = TRUE, !.swa = 32, !.window = 1024]
Moe == [Dense EXCEPT !.size = 12000, !.moe = TRUE, !.blocks = 40, !.experts = 10000]
Headless == [Moe EXCEPT !.blocks = 0]
NoHeads == [Mtp EXCEPT !.attn = FALSE]
Broken == [Moe EXCEPT !.size = 4000, !.readable = FALSE]
Directory == [Broken EXCEPT !.dir = TRUE, !.size = 0, !.moe = FALSE]

Intent(m) == [model |-> m, ctx |-> 8192, kvK |-> "q8", kvV |-> "q8", draft |-> 0, spec |-> "unset",
              nDraft |-> 0, offload |-> Unset]
Intents ==
    {[Intent(m) EXCEPT !.ctx = ctx, !.kvV = v, !.draft = d, !.spec = s, !.nDraft = d \div 300, !.offload = n] :
        m \in {Dense, Mtp, Moe, Headless, NoHeads, Broken, Directory}, ctx \in {8192, 131072},
        v \in {"f16", "turbo2"}, d \in {0, 600}, s \in {"unset", "ngram"}, n \in {Unset, 0, 12, 40}}

Discrete == [totalVram |-> 8192, freeVram |-> 4000, envKeepout |-> Unset, configKeepout |-> Unset,
             vramLimit |-> 7900, vramHeadroom |-> 512, freeClamp |-> FALSE, ram |-> 32768,
             freeRam |-> 20000, unified |-> FALSE, hostHeadroom |-> Unset]
Hosts ==
    {Discrete,
     [Discrete EXCEPT !.freeClamp = TRUE],
     [Discrete EXCEPT !.envKeepout = 4096],
     [Discrete EXCEPT !.totalVram = 8400, !.configKeepout = 0, !.vramLimit = 8400],
     [Discrete EXCEPT !.configKeepout = 1024],
     [Discrete EXCEPT !.freeRam = 4000],
     [Discrete EXCEPT !.ram = 0, !.freeRam = Unset],
     [Discrete EXCEPT !.totalVram = 0, !.freeVram = 0, !.unified = TRUE],
     [Discrete EXCEPT !.totalVram = 0, !.freeVram = 0, !.unified = TRUE, !.ram = 0]}

Options ==
    {o \in [valid : {TRUE}, tenTasks : BOOLEAN, skipBench : BOOLEAN, perplexity : BOOLEAN,
            coding : BOOLEAN, quick : BOOLEAN, full : BOOLEAN, issues : BOOLEAN, validation : BOOLEAN] :
        o.coding \/ o.tenTasks}
Smoke == [valid |-> TRUE, tenTasks |-> TRUE, skipBench |-> TRUE, perplexity |-> FALSE, coding |-> FALSE,
          quick |-> FALSE, full |-> FALSE, issues |-> TRUE, validation |-> FALSE]

MCTrials ==
    {[intent |-> i, host |-> h, opt |-> Smoke, tasks |-> Tasks] : i \in Intents, h \in Hosts}
    \cup {[intent |-> Intent(m), host |-> Discrete, opt |-> o, tasks |-> t] :
              m \in {Dense, Directory}, o \in Options, t \in {Tasks, NoFullTier}}
    \cup {[intent |-> Intent(Dense), host |-> Discrete, tasks |-> Tasks,
           opt |-> [Smoke EXCEPT !.valid = FALSE]]}
=============================================================================
