------------------------------ MODULE AutoLoop ------------------------------
(***************************************************************************)
(* The Search process (autoloop.py): it screens the knobs of a model, runs *)
(* a Trial of the Baseline, tries its Neighbors one after the other, moves *)
(* the Baseline to the first that improves, and restarts at random from a  *)
(* local maximum.                                                          *)
(*                                                                         *)
(* It is one process, but one that dies: a Trial can freeze or reboot the  *)
(* host (Crash, at any step), and it is started again over what it left on *)
(* disk: the visited memory, the crash journal, the Baseline, the rows of  *)
(* the store, the model's alias and its Fingerprint file.  Every step here *)
(* writes at most one of these files.  The store itself is ResultsStore;   *)
(* here a row is what the Search reads of it.                              *)
(***************************************************************************)
EXTENDS Search

CONSTANTS
    SelectedModels, \* the models to optimize, in order
    Space,          \* SEARCH_SPACE, as filtered for the mode
    Fits,           \* configurations whose estimate is within the VRAM budget
    HostTight,      \* host memory may be too low for one that fits
    Measures,       \* the results a Trial of each configuration can have
    TpsMode,        \* --mode tps
    MeasurePpl,     \* --mode tps or --perplexity-val
    Screening,      \* not (--no-screen or --mode quality)
    Rescreen,       \* --rescreen
    ScreenPoints,   \* the number of points of a Morris screen
    PinChoices,     \* the pins a screen can end with
    MaxRounds,      \* --max-rounds, 0 for no bound
    RestartTries,   \* how many restart candidates are checked: 50
    InitBaseline,   \* the Baseline found in config.py
    MayReset,       \* --reset-visited is used
    MayCrash,       \* the process may be killed
    MaxStarts       \* bound on how often the process is started

Pins == UNION {[K -> Values] : K \in SUBSET Knobs}
NoPins == [k \in {} |-> k]

ASSUME AutoLoopAssumption ==
    /\ SelectedModels \in Seq(Models)
    /\ Space \in Spaces
    /\ NoConfig \notin Config
    /\ Fits \subseteq Config
    /\ Measures \in [Config -> (SUBSET Result) \ {{}}]
    /\ PinChoices \subseteq Pins
    /\ InitBaseline \in Config
    /\ TpsMode => MeasurePpl
    /\ {ScreenPoints, MaxRounds, RestartTries, MaxStarts} \subseteq Nat

VARIABLES
    visited,    \* disk: .autoresearch_state.json, visited configurations
    morris,     \* disk: .autoresearch_state.json, the pins of each model
    journal,    \* disk: .autoresearch_crash.journal, the Trial in flight
    baseline,   \* disk: the Baseline in config.py
    rows,       \* disk: the rows of the store
    alias,      \* disk: the configuration of the model's alias
    bus,        \* disk: the configuration in the Fingerprint file
    pc,         \* where the process is; "off" when there is none
    mem,        \* visited configurations in memory
    known,      \* vectors of this model's Set
    space,      \* the search space with the model's pins
    at,         \* the model being optimized, an index of SelectedModels
    round,      \* the round, counted only when --max-rounds bounds it
    cand,       \* the configuration of the Trial being run
    base,       \* the result of the round's Baseline
    result,     \* the result of the Trial just run
    count,      \* points of the screen, or restart candidates, to go
    stop,       \* SIGINT or SIGTERM received
    starts,     \* history: number of times the process was started
    ran,        \* history: configurations run since the memory was cleared
    finished,   \* history: configurations whose Trial ran to its end
    late        \* history: Trials started since the stop

disk == <<visited, morris, journal, baseline, rows, alias, bus>>
memory == <<mem, known, space, at, round, cand, base, result, count>>
history == <<starts, ran, finished, late>>
vars == <<visited, morris, journal, baseline, rows, alias, bus, pc, mem, known, space, at,
          round, cand, base, result, count, stop, starts, ran, finished, late>>

NoResult == [outcome |-> "OK", vector |-> [x \in Axes |-> NotMeasured],
             score |-> 0, tps |-> 0, vram |-> 0, ppl |-> 0]

RowOutcomes == TrialOutcome \cup {"CRASH"}
RowOf(c, r) == [config |-> c, outcome |-> r.outcome, vector |-> r.vector]
CrashRow(c) == [config |-> c, outcome |-> "CRASH", vector |-> NoResult.vector]

Stops(r) == r.outcome \in {"INFRA_ERROR", "CODE_ERROR"}

\* The memory of a process that does not run.
Forget ==
    /\ mem' = {}
    /\ known' = {}
    /\ space' = Space
    /\ at' = 1
    /\ round' = 0
    /\ cand' = NoConfig
    /\ base' = NoResult
    /\ result' = NoResult
    /\ count' = 0

Init ==
    /\ visited = {}
    /\ morris = [m \in Models |-> NoPins]
    /\ journal = NoConfig
    /\ baseline = InitBaseline
    /\ rows = {}
    /\ alias = NoConfig
    /\ bus = NoConfig
    /\ pc = "off"
    /\ mem = {} /\ known = {} /\ space = Space /\ at = 1 /\ round = 0
    /\ cand = NoConfig /\ base = NoResult /\ result = NoResult /\ count = 0
    /\ stop = FALSE
    /\ starts = 0 /\ ran = {} /\ finished = {} /\ late = 0

Goto(label) == pc' = label

\* SearchState.mark_visited: the whole memory goes to disk.
MarkVisited(c) ==
    /\ mem' = mem \cup {c}
    /\ visited' = mem'

\* preflight_vram_ok: the estimate, and the host memory there is just now.
PreflightPasses(c) == c \in Fits
PreflightFails(c) == c \notin Fits \/ HostTight

-----------------------------------------------------------------------------
(* Start: the crash journal and --reset-visited.                           *)

Start ==
    /\ pc = "off"
    /\ starts < MaxStarts
    /\ starts' = starts + 1
    /\ mem' = visited
    /\ stop' = FALSE
    /\ late' = 0
    /\ Goto("consume")
    /\ UNCHANGED <<disk, known, space, at, round, cand, base, result, count, ran, finished>>

\* Nothing was in flight.
ConsumeNothing ==
    /\ pc = "consume"
    /\ journal = NoConfig
    /\ Goto("reset")
    /\ UNCHANGED <<disk, memory, stop, history>>

\* --retry-crashed
ConsumeRetry ==
    /\ pc = "consume"
    /\ journal # NoConfig
    /\ journal' = NoConfig
    /\ Goto("reset")
    /\ UNCHANGED <<visited, morris, baseline, rows, alias, bus, memory, stop, history>>

\* Mutant: no row is written.
ConsumeMarkOnly ==
    /\ pc = "consume"
    /\ journal # NoConfig
    /\ Goto("consume_mark")
    /\ UNCHANGED <<disk, memory, stop, history>>

\* The Trial in flight is logged, ...
ConsumeRow ==
    /\ pc = "consume"
    /\ journal # NoConfig
    /\ rows' = rows \cup {CrashRow(journal)}
    /\ Goto("consume_mark")
    /\ UNCHANGED <<visited, morris, journal, baseline, alias, bus, memory, stop, history>>

\* ... its configuration is never to be tried again, ...
ConsumeMark ==
    /\ pc = "consume_mark"
    /\ MarkVisited(journal)
    /\ Goto("consume_clear")
    /\ UNCHANGED <<morris, journal, baseline, rows, alias, bus, known, space, at, round, cand,
                   base, result, count, stop, history>>

\* ... and the journal is dropped.
ConsumeClear ==
    /\ pc = "consume_clear"
    /\ journal' = NoConfig
    /\ Goto("reset")
    /\ UNCHANGED <<visited, morris, baseline, rows, alias, bus, memory, stop, history>>

\* --reset-visited, or not.
Reset ==
    /\ pc = "reset"
    /\ MayReset
    /\ mem' = {}
    /\ visited' = {}
    /\ morris' = [m \in Models |-> NoPins]
    /\ ran' = {}
    /\ Goto("model")
    /\ UNCHANGED <<journal, baseline, rows, alias, bus, known, space, at, round, cand, base,
                   result, count, stop, starts, finished, late>>

NoReset ==
    /\ pc = "reset"
    /\ Goto("model")
    /\ UNCHANGED <<disk, memory, stop, history>>

-----------------------------------------------------------------------------
(* The next model: Morris screen, and the Set known from the store.        *)

model_name == SelectedModels[at]

Finish ==
    /\ pc = "model"
    /\ stop \/ at > Len(SelectedModels)
    /\ Forget
    /\ Goto("off")
    /\ UNCHANGED <<disk, stop, history>>

BeginModel ==
    /\ pc = "model"
    /\ ~ stop
    /\ at <= Len(SelectedModels)
    /\ IF Screening /\ (Rescreen \/ morris[model_name] = NoPins)
         THEN /\ count' = ScreenPoints
              /\ Goto("screen")
              /\ UNCHANGED space
         ELSE /\ space' = apply_pins(Space, morris[model_name])
              /\ Goto("seed")
              /\ UNCHANGED count
    /\ UNCHANGED <<disk, mem, known, at, round, cand, base, result, stop, history>>

\* A point is measured and logged as a row that never competes.
ScreenPoint ==
    /\ pc = "screen"
    /\ count > 0
    /\ count' = count - 1
    /\ UNCHANGED <<disk, pc, mem, known, space, at, round, cand, base, result, stop, history>>

\* set_morris writes the visited memory too.
ScreenDone ==
    /\ pc = "screen"
    /\ count = 0
    /\ \E pins \in PinChoices :
          /\ morris' = [morris EXCEPT ![model_name] = pins]
          /\ space' = apply_pins(Space, pins)
    /\ visited' = mem
    /\ Goto("seed")
    /\ UNCHANGED <<journal, baseline, rows, alias, bus, mem, known, at, round, cand, base,
                   result, count, stop, history>>

\* _seed_known_vectors: the one point of the basename, if it is complete.
SeedKnown(m) ==
    {Merge({r.vector : r \in {q \in rows : q.outcome = "OK" /\ q.config.model = m}})}
        \cap {v \in Vectors : Complete(v)}

\* Mutant: every process starts from an empty Set.
SeedEmpty ==
    /\ pc = "seed"
    /\ known' = {}
    /\ baseline' = [baseline EXCEPT !.model = model_name]
    /\ round' = 0
    /\ Goto("round")
    /\ UNCHANGED <<visited, morris, journal, rows, alias, bus, mem, space, at, cand, base,
                   result, count, stop, history>>

Seed ==
    /\ pc = "seed"
    /\ known' = SeedKnown(model_name)
    /\ baseline' = [baseline EXCEPT !.model = model_name]
    /\ round' = 0
    /\ Goto("round")
    /\ UNCHANGED <<visited, morris, journal, rows, alias, bus, mem, space, at, cand, base,
                   result, count, stop, history>>

-----------------------------------------------------------------------------
(* A round: the Baseline's Trial.                                          *)

LeaveModel ==
    /\ at' = at + 1
    /\ Goto("model")

EndRounds ==
    /\ pc = "round"
    /\ stop \/ (MaxRounds > 0 /\ round >= MaxRounds)
    /\ LeaveModel
    /\ UNCHANGED <<disk, mem, known, space, round, cand, base, result, count, stop, history>>

\* Mutant: the Baseline is not marked as visited.
BaselineUnmarked ==
    /\ pc = "round"
    /\ ~ stop
    /\ MaxRounds = 0 \/ round < MaxRounds
    /\ round' = IF MaxRounds > 0 THEN round + 1 ELSE 0
    /\ cand' = baseline
    /\ Goto("journal")
    /\ UNCHANGED <<disk, mem, known, space, at, base, result, count, stop, history>>

BeginRound ==
    /\ pc = "round"
    /\ ~ stop
    /\ MaxRounds = 0 \/ round < MaxRounds
    /\ round' = IF MaxRounds > 0 THEN round + 1 ELSE 0
    /\ IF baseline \in mem THEN UNCHANGED <<mem, visited>> ELSE MarkVisited(baseline)
    /\ cand' = baseline
    /\ Goto("journal")
    /\ UNCHANGED <<morris, journal, baseline, rows, alias, bus, known, space, at, base, result,
                   count, stop, history>>

\* _journaled_run_trial: the journal is written, the Trial runs, and the
\* journal is cleared however it ends.
WriteJournal ==
    /\ pc = "journal"
    /\ journal' = cand
    /\ ran' = ran \cup {cand}
    /\ late' = IF stop THEN late + 1 ELSE late
    /\ Goto("run")
    /\ UNCHANGED <<visited, morris, baseline, rows, alias, bus, memory, stop, starts, finished>>

RunTrial ==
    /\ pc = "run"
    /\ result' \in Measures[cand]
    /\ finished' = finished \cup {cand}
    /\ Goto("clear")
    /\ UNCHANGED <<disk, mem, known, space, at, round, cand, base, count, stop, starts, ran, late>>

ClearJournal ==
    /\ pc = "clear"
    /\ journal' = NoConfig
    /\ Goto("log")
    /\ UNCHANGED <<visited, morris, baseline, rows, alias, bus, memory, stop, history>>

\* Mutant: it is recorded in the Set only.
RecordedOnly ==
    /\ known' = known \cup {result.vector}
    /\ rows' = rows

\* The Trial is recorded in the Set and logged in the store (_write_trial).
LogTrial ==
    /\ known' = known \cup {result.vector}
    /\ rows' = rows \cup {RowOf(cand, result)}

\* An infrastructure or harness error ends the Search.
LogAndRaise ==
    /\ pc = "log"
    /\ rows' = rows \cup {RowOf(cand, result)}
    /\ Stops(result)
    /\ Forget
    /\ Goto("off")
    /\ UNCHANGED <<visited, morris, journal, baseline, alias, bus, stop, history>>

LogBaseline ==
    /\ pc = "log"
    /\ cand = baseline
    /\ ~ Stops(result)
    /\ LogTrial
    /\ base' = result
    /\ result' = NoResult
    /\ cand' = NoConfig
    /\ Goto(IF result.outcome = "OK" THEN "neighbors" ELSE "rejected")
    /\ UNCHANGED <<visited, morris, journal, baseline, alias, bus, mem, space, at, round, count,
                   stop, history>>

-----------------------------------------------------------------------------
(* Its Neighbors.                                                          *)

Untried == get_neighbors(space, baseline) \ mem

StopAtNeighbor ==
    /\ pc = "neighbors"
    /\ stop
    /\ LeaveModel
    /\ UNCHANGED <<disk, mem, known, space, round, cand, base, result, count, stop, history>>

\* Mutant: the flag is looked at between rounds only.
TryAfterStop ==
    /\ pc = "neighbors"
    /\ \E n \in Untried : MarkVisited(n) /\ cand' = n
    /\ Goto("preflight")
    /\ UNCHANGED <<morris, journal, baseline, rows, alias, bus, known, space, at, round, base,
                   result, count, stop, history>>

\* Neighbors are shuffled; one that was visited is passed over.
TryNeighbor ==
    /\ pc = "neighbors"
    /\ ~ stop
    /\ \E n \in Untried : MarkVisited(n) /\ cand' = n
    /\ Goto("preflight")
    /\ UNCHANGED <<morris, journal, baseline, rows, alias, bus, known, space, at, round, base,
                   result, count, stop, history>>

\* Mutant: no preflight.
PassAny ==
    /\ pc = "preflight"
    /\ Goto("journal")
    /\ UNCHANGED <<disk, memory, stop, history>>

PassNeighbor ==
    /\ pc = "preflight"
    /\ PreflightPasses(cand)
    /\ Goto("journal")
    /\ UNCHANGED <<disk, memory, stop, history>>

SkipNeighbor ==
    /\ pc = "preflight"
    /\ PreflightFails(cand)
    /\ cand' = NoConfig
    /\ Goto("neighbors")
    /\ UNCHANGED <<disk, mem, known, space, at, round, base, result, count, stop, history>>

\* The result is judged against a Set that already holds it.
Improves ==
    /\ IF Complete(result.vector) THEN improves_set(known \cup {result.vector}, result.vector)
                                  ELSE is_improvement(base, result)
    /\ MeasurePpl => ~ PplDegraded(base, result)

LogDiscard ==
    /\ pc = "log"
    /\ cand # baseline
    /\ ~ Stops(result)
    /\ ~ Improves
    /\ LogTrial
    /\ result' = NoResult
    /\ cand' = NoConfig
    /\ Goto("neighbors")
    /\ UNCHANGED <<visited, morris, journal, baseline, alias, bus, mem, space, at, round, base,
                   count, stop, history>>

LogImprovement ==
    /\ pc = "log"
    /\ cand # baseline
    /\ ~ Stops(result)
    /\ Improves
    /\ LogTrial
    /\ Goto("adopt")
    /\ UNCHANGED <<visited, morris, journal, baseline, alias, bus, mem, space, at, round, cand,
                   base, result, count, stop, history>>

Adopt ==
    /\ pc = "adopt"
    /\ baseline' = cand
    /\ Goto("alias")
    /\ UNCHANGED <<visited, morris, journal, rows, alias, bus, memory, stop, history>>

\* update_model_alias; a failure is only a warning.
UpdateAlias ==
    /\ pc = "alias"
    /\ alias' \in {cand, alias}
    /\ Goto("publish")
    /\ UNCHANGED <<visited, morris, journal, baseline, rows, bus, memory, stop, history>>

\* write_climb_fingerprint; a failure is only a warning.
Publish ==
    /\ pc = "publish"
    /\ bus' \in IF TpsMode /\ result.outcome = "OK" THEN {cand, bus} ELSE {bus}
    /\ cand' = NoConfig
    /\ result' = NoResult
    /\ base' = NoResult
    /\ Goto("round")
    /\ UNCHANGED <<visited, morris, journal, baseline, rows, alias, mem, known, space, at, round,
                   count, stop, history>>

-----------------------------------------------------------------------------
(* Random Restarts.                                                        *)

\* All Neighbors are visited and none was kept.
LocalMaximum ==
    /\ pc = "neighbors"
    /\ ~ stop
    /\ Untried = {}
    /\ count' = RestartTries
    /\ Goto("restart")
    /\ UNCHANGED <<disk, mem, known, space, at, round, cand, base, result, stop, history>>

Restarts == random_restart(space, mem, baseline)

\* Mutant: the candidate is taken unseen.
RestartUnchecked ==
    /\ pc = "rejected" \/ (pc = "restart" /\ count > 0)
    /\ baseline' \in Restarts
    /\ count' = 0
    /\ base' = NoResult
    /\ Goto("round")
    /\ UNCHANGED <<visited, morris, journal, rows, alias, bus, mem, known, space, at, round,
                   cand, result, stop, history>>

\* A rejected Baseline gets one candidate, a local maximum a number of them.
Restart ==
    /\ pc = "rejected" \/ (pc = "restart" /\ count > 0)
    /\ \E c \in Restarts \ {NoConfig} : PreflightPasses(c) /\ baseline' = c
    /\ count' = 0
    /\ base' = NoResult
    /\ Goto("round")
    /\ UNCHANGED <<visited, morris, journal, rows, alias, bus, mem, known, space, at, round,
                   cand, result, stop, history>>

\* A candidate that does not fit is marked in memory only.
RestartSkip ==
    /\ pc = "restart"
    /\ count > 0
    /\ \E c \in Restarts \ {NoConfig} : PreflightFails(c) /\ mem' = mem \cup {c}
    /\ count' = count - 1
    /\ UNCHANGED <<disk, pc, known, space, at, round, cand, base, result, stop, history>>

GiveUp ==
    /\ \/ pc = "rejected" /\ \E c \in Restarts : c = NoConfig \/ PreflightFails(c)
       \/ pc = "restart" /\ (count = 0 \/ NoConfig \in Restarts)
    /\ count' = 0
    /\ base' = NoResult
    /\ LeaveModel
    /\ UNCHANGED <<disk, mem, known, space, round, cand, result, stop, history>>

-----------------------------------------------------------------------------
\* The signal handler only sets a flag.
Signal ==
    /\ pc # "off"
    /\ ~ stop
    /\ stop' = TRUE
    /\ UNCHANGED <<disk, pc, memory, history>>

\* The process is killed, or the host goes down.
Crash ==
    /\ MayCrash
    /\ pc # "off"
    /\ Forget
    /\ Goto("off")
    /\ UNCHANGED <<disk, stop, history>>

Opening ==
    \/ ConsumeNothing \/ ConsumeRetry \/ ConsumeRow \/ ConsumeMark \/ ConsumeClear
    \/ Reset \/ NoReset
    \/ Finish \/ BeginModel \/ ScreenPoint \/ ScreenDone \/ Seed

Trial == WriteJournal \/ RunTrial \/ ClearJournal \/ LogAndRaise

Climb ==
    \/ EndRounds \/ BeginRound \/ LogBaseline
    \/ StopAtNeighbor \/ TryNeighbor \/ PassNeighbor \/ SkipNeighbor
    \/ LogDiscard \/ LogImprovement \/ Adopt \/ UpdateAlias \/ Publish
    \/ LocalMaximum \/ Restart \/ RestartSkip \/ GiveUp

Step == Opening \/ Trial \/ Climb

Next == Start \/ Step \/ Signal \/ Crash

Spec == Init /\ [][Next]_vars

\* The process goes on by itself; in particular every Trial returns.
FairSpec == Spec /\ WF_vars(Step)

-----------------------------------------------------------------------------
PCs == {"off", "consume", "consume_mark", "consume_clear", "reset", "model", "screen", "seed",
        "round", "journal", "run", "clear", "log", "neighbors", "preflight", "adopt", "alias",
        "publish", "rejected", "restart"}

TypeOK ==
    /\ visited \subseteq Config /\ mem \subseteq Config
    /\ morris \in [Models -> Pins]
    /\ {journal, alias, bus, cand} \subseteq Config \cup {NoConfig}
    /\ baseline \in Config
    /\ rows \subseteq [config : Config, outcome : RowOutcomes, vector : Vectors]
    /\ pc \in PCs
    /\ known \subseteq Vectors
    /\ space \in Spaces
    /\ at \in 1..(Len(SelectedModels) + 1)
    /\ round \in 0..MaxRounds
    /\ base \in Result /\ result \in Result
    /\ count \in Nat
    /\ stop \in BOOLEAN
    /\ starts \in 0..MaxStarts
    /\ ran \subseteq Config /\ finished \subseteq Config
    /\ late \in Nat

\* The configuration of a Trial in flight is in the visited memory on disk
\* before the Trial starts: whatever a Trial does to the host, it is not
\* tried as a Neighbor again (autoloop.main, _journaled_run_trial).
InFlightIsVisited == journal # NoConfig => journal \in visited

\* The Search never chooses a configuration that was run before, by this
\* process or by one that died, as a Neighbor or as a restart
\* (autoloop.main, search.random_restart over SearchState.visited).
NeverRunAgain ==
    [][/\ TryNeighbor => cand' \notin ran
       /\ Restart => baseline' \notin ran]_vars

\* The journal of a Trial that did not return is only dropped once the Trial
\* has its CRASH row and its configuration is visited on disk, however often
\* the process dies while it does so (autoloop.consume_crash_journal).
CrashRecorded ==
    [][journal # NoConfig /\ journal' = NoConfig
        => \/ pc = "clear"
           \/ ConsumeRetry
           \/ CrashRow(journal) \in rows /\ journal \in visited]_vars

\* The knobs of the Baseline only ever move to a configuration whose VRAM
\* estimate fits and whose batch sizes are consistent (autoloop.main checks
\* Neighbors and restarts in three places).
BaselineFits ==
    [][baseline'.knob # baseline.knob
        => baseline' \in Fits /\ is_batch_consistent(baseline')]_vars

\* A Neighbor with a complete vector is only adopted when no complete Trial
\* of its model in the store dominates it, logged by this process or by an
\* earlier one (autoloop._seed_known_vectors, search.improves_set).
AdoptedIsNotBeaten ==
    [][Adopt /\ Complete(result.vector) =>
        ~ \E r \in rows : /\ r.outcome = "OK"
                          /\ r.config.model = cand.model
                          /\ Dominates(r.vector, result.vector)]_vars

\* What is published in a Fingerprint file was measured by a Trial that
\* ended well and is logged (write_climb_fingerprint: "a failed climb never
\* overwrites a good file").
PublishedIsLogged ==
    bus # NoConfig => \E r \in rows : r.config = bus /\ r.outcome = "OK"

\* After a stop was requested at most the Trial that was about to start does.
StopsSoon == late <= 1

\* A Trial that ran to its end stays in the hands of the process, in the
\* journal or in the store, through every step but a kill and a start with
\* --retry-crashed (autoloop._write_trial: "no Trial disappears").
Kept(c) ==
    \/ \E r \in rows : r.config = c
    \/ cand = c /\ pc \in {"clear", "log"}
    \/ journal = c

NoTrialForgotten ==
    [][~ Crash /\ ~ ConsumeRetry => \A c \in finished' : Kept(c)' \/ (c \in finished /\ ~ Kept(c))]_vars

\* The Search comes to an end by itself: it never goes round the same
\* configurations for ever (autoloop.main, "Exhausted random search space").
SearchEnds == pc # "off" ~> pc = "off"

-----------------------------------------------------------------------------
(* What documents of the repository say and the code does not do.          *)

\* A rejected Trial never wins over the Baseline (autoloop._seed_known_vectors:
\* "rejected rows never compete").
RejectedNeverWins == [][Adopt => result.outcome = "OK"]_vars

\* A configuration that was logged as a crash is skipped on resume (ADR 0016:
\* "A config that reboots the host is skipped on resume").
CrashedIsSkipped == [][WriteJournal => CrashRow(cand) \notin rows]_vars

\* A Trial that ran to its end is logged, by the process that ran it or, as a
\* crash, by the next one (autoloop._write_trial: "no Trial disappears").
NoTrialDisappears == \A c \in finished : Kept(c)

-----------------------------------------------------------------------------
(* The inductive invariant, for distinct models (AutoLoopProofs).          *)

\* What the disk remembers, the process does.
VisitedIsRemembered == pc # "off" => visited \subseteq mem

RanIsVisited == ran \subseteq visited

\* The Trial being prepared, run or logged has a configuration that is
\* visited on disk; the journal holds it just while it runs.
TrialPCs == {"preflight", "journal", "run", "clear", "log"}

TrialIsVisited ==
    /\ pc \in TrialPCs \cup {"adopt"} => /\ cand \in Config /\ cand \in visited
                                       /\ cand.model = model_name
    /\ pc \in {"run", "clear"} => journal = cand
    /\ pc \in {"consume_mark", "consume_clear"} => journal # NoConfig
    /\ pc \in PCs \ {"off", "consume", "consume_mark", "consume_clear", "run", "clear"}
            => journal = NoConfig

\* What is visited in memory only belongs to a model that was already begun,
\* and is never the Baseline.
ModelPCs == TrialPCs \cup {"round", "neighbors", "adopt", "alias", "publish", "rejected", "restart"}

MemoryOnlyIsNotBaseline ==
    /\ pc \in ModelPCs => /\ at \in DOMAIN SelectedModels
                          /\ baseline.model = model_name
                          /\ baseline \in mem => baseline \in visited
    /\ pc \in ModelPCs \ {"round", "alias", "publish"} => baseline \in visited
    /\ pc \in {"screen", "seed"} => at \in DOMAIN SelectedModels
    /\ pc # "off" => \A c \in mem \ visited : \E i \in DOMAIN SelectedModels :
            /\ c.model = SelectedModels[i]
            /\ i < at \/ (i = at /\ pc \in ModelPCs)

\* A Neighbor that is run, or adopted, has passed its preflight.
NeighborFits ==
    /\ pc = "preflight" => is_batch_consistent(cand)
    /\ pc \in {"journal", "run", "clear", "log"} /\ cand # baseline
            => cand \in Fits /\ is_batch_consistent(cand)
    /\ pc \in {"adopt", "alias", "publish"} => cand \in Fits /\ is_batch_consistent(cand)

\* What is about to be adopted or published is logged.
AdoptedIsLogged ==
    pc \in {"adopt", "alias", "publish"} => cand \in Config /\ RowOf(cand, result) \in rows

\* The steps of consume_crash_journal are in order.
ConsumedInOrder ==
    /\ pc \in {"consume_mark", "consume_clear"} => CrashRow(journal) \in rows
    /\ pc = "consume_clear" => journal \in visited

OneLateTrial ==
    /\ late \in {0, 1}
    /\ late = 1 => stop /\ pc \notin {"preflight", "journal"}

IInv ==
    /\ TypeOK
    /\ InFlightIsVisited /\ VisitedIsRemembered /\ RanIsVisited
    /\ TrialIsVisited /\ MemoryOnlyIsNotBaseline
    /\ NeighborFits /\ AdoptedIsLogged /\ PublishedIsLogged
    /\ ConsumedInOrder /\ OneLateTrial

=============================================================================
