# A model of the local-model autoresearch harness

The harness searches for the llama.cpp settings with which a local model runs best. A *Search* (`autoloop.py`)
runs *Trials* one after the other. A Trial starts a model server with one configuration, measures it on up to four axes
(context, speed, agentic score, coding score) and ends as a row of the *results store*. The Search climbs: it measures the
*Baseline*, tries its *Neighbors*, moves the Baseline to one that improves, and restarts at random from a local maximum.

What is hard about it: a Trial can freeze or reboot the host, so that every process has to find its way from the files an
earlier one left behind; several processes (Searches, single runs, maintenance scripts) write one store that is two files;
and each server is watched by threads that may kill it at any moment.

## Inventory

| component (source) | state | operations | hard behaviour | correct when | model |
|---|---|---|---|---|---|
| Pareto dominance (`core/pareto.py`) | none | `dominates`, `merge`, `pareto_set` | axes not measured, ties | a strict order; merging does not depend on the order | `Pareto` |
| Classification (`core/classify.py`, `core/recompute.py`, `scripts/recompute_status.py`) | a status per row | `plan_write`, `recompute_rows`, `relabel_watchdog_kills` | a late group demotes an earlier one; the planned status is of an older front | statuses are the Pareto Set of the merged points | `Classify`, `TrialLedger` |
| Results store (`core/results_db.py`, `runners/run.py`) | `results.db`, `results.tsv`, the lock | `write_row`, `recompute_statuses`, heal, seed, column migration | two files, several processes, failing writes, kills | no logged Trial is lost, statuses converge | `ResultsStore` |
| Store maintenance (`scripts/rebuild_results_db.py`) | the same files | seed, `--force`, `--rebuild-tsv` | takes no lock | as above | not modelled |
| Search strategy (`core/search.py`) | vectors known so far | `get_neighbors`, `random_restart`, `improves_set`, `is_improvement` | sampling that has to end, incomplete vectors | returns only unvisited, consistent points | `Search` |
| Search loop (`autoloop.py`, `core/state.py`, `core/crash_journal.py`) | visited memory, journal, Baseline, alias, Fingerprint file; per-process climb | start over a journal, screen, seed, round, Neighbor, restart, stop | killed between any two writes, started again | nothing is tried twice, no Trial disappears, the Baseline always fits, it ends | `AutoLoop` |
| Morris screen (`core/morris.py`) | the points measured | trajectories, effects, pins | ends with pins from few points | each point differs in one knob from the last | the result only |
| Trial pipeline (`runners/evaluation.py`) | one result, the plan of its evaluations | preflights, bench, perplexity, coding, agentic tiers, issues, score | early exits, a server that dies, a kill while a benchmark runs | a kill always wins, a score is earned, an OK result is complete | `Trial` |
| Estimates and budgets (`core/llama_runner.py`, `core/model_arch.py`, `core/hardware.py`) | none | `estimate_vram_mb`, `preflight_*`, `resolve_*` | settings read in one place and not in the other, unknown memory | what a preflight lets through the monitor does not kill | `VramBudget` |
| llama.cpp server (`core/llama_runner.py`) | the process, its log, the kill flags | start with fail-over, health deadline, sample, kill, clean up | main thread, sampler and watchdogs interleave between any two reads of the handle | one server at a time, no orphan, a kill is reported, the threads end | `ServerRunner` |
| RAM circuit breaker (`core/circuit_breaker.py`) | one thread per server | preflight, watch, kill the tree | kills before it reports | a shortage ends the server, and only it | `ServerRunner`, `VramBudget` |
| Process guard (`core/process_guard.py`), single-load gate (`core/single_load.py`) | guarded processes | spawn, attach, teardown, sweep, gate | check, then start; sweep, then start | at most one full server, and no server in use is swept | `ServerRunner`, `Launch` |
| SGLang server (`core/sglang_runner.py`) | the process, its port | start, stop | no deadline | as the gate | `Launch`, `Trial` |
| Launcher (`scripts/model_up.py`) | the state file | start, stop, status | the process is started before the file is written | a running alias can be stopped | `Launch` |
| Agentic coding loop (`benchmarks/agentic_coding/`) | the working copy, the detector's counters | a turn, a tool call, hidden tests | any sequence of calls, several in one answer | a pass is earned, a refusal is final, it ends | `AgenticCoding` |
| Fingerprint bus (`core/fingerprint.py`) | a JSON file per model | `dump`, `load`, `apply` | written by climbs that may fail | holds what was measured | as one file in `AutoLoop` |
| Benchmarks (`benchmarks/`) | none that is shared | datasets, tiers of tasks | any request fails | | their results, in `Trial` |
| llama client, ranking, dashboard, set-up scripts | none that is shared | | | | not modelled |

How they interact: `autoloop.main` and `run.handle_single_run` call `ExperimentRunner.run_trial`, which runs the preflights,
enters a server runner (gate, sweep, guard, watcher threads) and talks to it over HTTP. Its result goes to `write_row` and
then `recompute_statuses`. A Search reads the rows back when it begins a model (`_seed_known_vectors`). The Baseline is a
file that people edit too; aliases and Fingerprint files are read by the launcher and by later runs.

## The modules

    Pareto ── Classify ── TrialLedger          what the store promises (abstract)
      │           └────── ResultsStore         two files, a lock, processes ── implements TrialLedger
      └── Search ── AutoLoop                   the Search process and its files
    VramBudget ── Trial                        one Trial, from the configuration to the score
    ServerLife                                 what a runner promises a Trial (abstract) ── relied on by Trial
      └── ServerRunner                         one llama.cpp server runner and its threads ── implements ServerLife
    Launch                                     servers of Trials and aliases on one machine
    AgenticCoding                              the issue sessions of one evaluation
    ClassifyProofs, TrialLedgerProofs, ResultsStoreProofs, AutoLoopProofs,
    ServerRunnerProofs, LaunchProofs, TrialProofs, AgenticCodingProofs
    MCTrialLedger, MCResultsStore, MCAutoLoop, MCTrial, MCLaunch, MCAgenticCoding

The modules meet at narrow interfaces. `AutoLoop!Measures` is what `Trial` can end with; `Trial!Start` and
`Trial!SamplerKills` stand for a `ServerRunner`, and `ServerLife` is what both sides are held to; `ServerRunner!Refused` for
the gate of `Launch` and the RAM preflight of `Trial`, and `Trial!Issues` for an `AgenticCoding` evaluation.

**Pareto.** An objective vector is a function from `Axes` to `Scores` or `NotMeasured`. `Merge` takes the best value of every
axis; `ParetoSet` and `Dominates` are the code's, with incomplete vectors never competing.

**Classify.** A row is a Trial with the cells that change (status, outcome); what a Trial measured is the constant `Attr[t]`.
`plan_write` is the status planned before a row is written, `recompute_rows` the two passes over all groups, and
`relabel_watchdog_kills` the one-shot migration of old watchdog kills, which are told by a mark in the diagnostic (an outcome
of its own here) or in the status. Both the bucket of the limit and that of the measured peak are kept,
because planning and recomputation use different ones.

**TrialLedger** is the abstract store: one table, a Trial is added in one step, statuses are always those of a recomputation.
Its `Relabel` may pass over a kill that was marked in its status alone: a recomputation overwrites that mark.

**ResultsStore.** `db`, `tsv` and `header` are the files, `lock` the flock, `pc`, `task`, `trial`, `view` and `source` the
locals of the processes. `write_row` is `StartTrial` (its caller plans the status from rows read without the lock), the column
migration (`EnsureRead`, `EnsureTruncate`, `EnsureRewrite`: outside the lock), `LockForWrite`, `UpsertTrial`, `AppendTrial` or,
when the table failed, `AppendOnly` or `WriteRaises`. `recompute_statuses` is `LockForRefresh`, `RefreshNothing` or
`RefreshTable`, then `Heal`, `Mirror`, `Seed` as the code takes them. `Crash` kills a process at any step; the kernel frees its
lock. A migration holds a file handle (`handles`): when the mirror is replaced under it, its write goes to the old file.
It implements the ledger under `rows <- recompute_rows(db)`.

**Search.** Neighbors are the adjacent levels of one knob, or all levels when the value is none of them.
`random_restart` returns the set of what the sampling and the probe can return: any unvisited consistent point, and
`NoConfig` unless one lies within the first `ProbeLimit` points in the order of `itertools.product` (`Rank`).

**AutoLoop.** One process, whose every step writes at most one file. `Start` loads the visited memory; `ConsumeNothing`,
`ConsumeRetry`, `ConsumeRow`, `ConsumeMark`, `ConsumeClear` are `consume_crash_journal`; `Reset` is `--reset-visited`;
`BeginModel`, `ScreenPoint`, `ScreenDone`, `Seed` begin a model; `BeginRound` marks and chooses the Baseline;
`WriteJournal`, `RunTrial`, `ClearJournal` are `_journaled_run_trial`; then `LogBaseline`, or `LogDiscard`, or
`LogImprovement`, `Adopt`, `UpdateAlias`, `Publish`, or `LogAndRaise` when the outcome ends the Search; `TryNeighbor`,
`PassNeighbor`, `SkipNeighbor` are the loop over Neighbors; `LocalMaximum`, `Restart`, `RestartSkip`, `GiveUp` the restarts.
`Signal` sets the stop flag at any step and `Crash` kills the process at any step. A later `Start` is another process
that finds the files.

**VramBudget.** `estimate_vram_mb`, `estimate_host_memory_mb` and the budgets they are compared with, in MiB and thousandths.
A model is what its GGUF header says or that it cannot be read: a file that cannot be read is loaded as dense, and one whose
header lacks the blocks or the attention is charged a flat rate for its KV cache. A host is its memory and the settings from
the environment and the configuration. Unset settings and memory that cannot be detected are values of their own, because the
code treats them differently in every place.

**Trial.** `run_trial` as one process whose stage is `pc`; each action is one block of the code with all its returns. `todo`
is what is left of the datasets or of the tiers' tasks, `res` the fields of `TrialResult`, `vramKilled` the runner's flag. The
sampler may raise it at any moment from `start` to `leave`, with or without killing the server (one branch of the sampler
spares it). A server that died answers nothing, and the code goes on: every task it asks fails. Leaving the server may raise
(`Exited`), which turns a clean result into an error.

**ServerRunner.** Threads are the main one (`main`, in the order of `__enter__`, `__exit__` and the end of `run_trial`), the
VRAM sampler (`sampler`, `probe`) and one RAM watchdog for each spawned server (`dog`). They share `proc` and `log`
without a lock. `_cleanup_process` can run in all of them at once, so it is one action for each read of an attribute
(`CleanTest`, `CleanKill`, `CleanWait`, `CleanDrop`, `CleanLog`), and a read of `None` is the step `error`, whose exception goes
where the code sends it: out of `__enter__` or `__exit__`, into the sampler's handler, or nowhere in the watchdog. `Bound` is what
the operating system kills with its parent on each platform: on Windows the servers in the Job Object (`jobbed`), which `Attach`
may fail to put there.

**ServerLife** is the abstract server of one Trial: a phase, the servers that run, the flags the monitors have raised and the
verdict. A server is only loaded where there is none, may fall at any moment, and the verdict is a watchdog's exactly when the
VRAM flag is up (a Trial that ends before its server may have been killed in its bench). `ServerRunner` implements it with
`live <- {a : Alive(a)}` and the flags of its two monitors; `Trial` with one server, the VRAM flag and its outcome. The RAM
flag is not seen by a Trial, as in the code.

**Launch.** A launch is `Probe` (aliases), `Gate`, `Sweep` with `SweepKills` for each process it found, `Spawn`, `Record` (aliases),
and then one of `Answered`, `Ended`, `TimesOut`. The three kinds differ where their code does: SGLang's runner passes
over busy ports and has no deadline, the alias launcher neither sweeps nor fails over, and its server outlives it. Whoever
answers `/health` on the port is taken for the server. A launcher that is killed (`lost`), or gives an alias up (`warned`), before
its server has a port leaves one behind that nothing can see: `LeftLoading`.

**AgenticCoding.** A session is a working copy (`tree`), the detector and the turns. An answer is a sequence of at most
`MaxCalls` tool calls, each recorded and then run; `Refusal` is `record_tool`, `Stalled` is `note_turn_hash`. Any call that is
run may raise. A file is one of four texts: as given, a draft, one that solves the issue, one whose tests hang.

Definitions marked as mutants are not part of the model: they are faulty variants of the definition after them, kept to show
that each property fails when the code is broken in that way.

## What is checked

| run | question | result |
|---|---|---|
| `ledger` | statuses for every order of logging up to two Trials beside two old watchdog kills (one marked in its diagnostic, one in its status), over all measurements of two axes with two values or none, two buckets, three models | holds |
| `store_mirror_faults` | two processes, two new Trials, old watchdog kills marked in either way, a mirror to migrate, mirror writes that fail, one kill | no acknowledged Trial is lost; the store implements the ledger |
| `store_no_faults` | two processes, four new Trials (failed, screen, partial, complete), scripts, no failure, fairness | statuses are fresh when nobody owes a refresh, every refresh settles, statuses converge |
| `store_any_fault` | either write fails, the table is missing, the mirror old, one kill, fairness | one row per Trial, every call returns |
| `loop_speed` | engine-only Search of a model with its screen, three starts, kills, `--reset-visited`, `--retry-crashed`, a Baseline off the levels, a VRAM budget and short host memory, failing Trials, a probe that misses; fairness | nothing is run again as Neighbor or restart; crashes are recorded; the Baseline fits; what is published is logged; at most one Trial starts after a stop; only a kill or `--retry-crashed` forgets a Trial; it ends |
| `loop_set` | full Trials of two models with three knobs, watchdog kills, at most two rounds, kills and a second start | the Trial in flight is visited on disk; what is adopted is not dominated by a logged Trial of its model |
| `server_threads` | one runner over two ports on three platforms, with every interleaving of its threads, servers that die, a foreign server on one port, a Job Object that a server may fail to join, a harness that is killed; fairness | the runner implements `ServerLife`; a harness is outlived only as its guard allows (never on Linux); no clean verdict over a server the sampler killed, every thread of a runner that was cleaned up ends |
| `trial_pipeline` | every combination of 7 models, their settings and 9 hosts under one set of options, and every set of options for a model that fits | a loaded model fits the monitor's ceiling and the host; a positive score is earned; a kill wins; an OK result is complete |
| `launch_servers` | three launches of llama.cpp, SGLang and aliases, in a row (one may be `--allow-multi`, a port may be taken) or overlapping (one of each kind, where tools may be missing, or all of llama.cpp); servers die, launchers are killed or give up; fairness | one llama.cpp model where the gate can see it, no server is swept that it could have seen, a running alias can be stopped, launches come to an end |
| `coding_loop` | packs of up to two issues, ten kinds of calls in any order, two calls in one answer, tools that raise; fairness | a pass is earned, a refusal is final, the evaluation ends |

Two more runs show a bug: `PROJECT.json` quotes the sentence and the line of each.

* `store_unseeded`: the first row of a new table hides the legacy rows of the mirror, and the next refresh destroys them.
* `server_breaker`: on Linux the RAM circuit breaker kills the harness. `kill_process_tree` signals the process group of the
  server, and on Linux (not on macOS) the guard starts the server in the harness's own group. No row is logged; a Search
  finds its journal and records a crash of the host.

### Where the code and its documents disagree

Seen while modelling. The first three were found by TLC and can be checked again by giving the named definition of
`AutoLoop` as a property to `loop_set.cfg` or `loop_speed.cfg`.

* A Trial killed by the watchdog after it has measured all axes is adopted as Baseline (`RejectedNeverWins`; `autoloop.py:1146`
  against 582-583, "rejected rows never compete").
* A Baseline that takes the host down is run again by every new process (`CrashedIsSkipped`; `autoloop.py:1052` against
  `docs/adr/0016`, "skipped on resume").
* A kill between clearing the journal and writing the row loses the Trial (`NoTrialDisappears`; `autoloop.py:298` against 624-625;
  `NoTrialForgotten` is what is left of it and holds).
* A Trial whose table write failed is dropped by the next refresh (`run.py:496` against 815-816), and a refresh duplicates rows
  without `trial_id` (`run.py:491` against 476-477): `AckedStored` and `RefreshSettles` with `Faults = {"db"}` or unkeyed rows.
* An old watchdog kill that bears its mark in the status and not in the diagnostic competes like any Trial that was measured:
  only the status `rejected` is left out (`recompute.py:45-54`), although `relabel_watchdog_kills` says "Store status stays
  ``rejected``: still failed, still out of the Pareto front" (109-112). And the recompute overwrites the mark (88): when a
  refresh comes before the migration, the kill is never relabelled (`RelabelCommutes`).
* `candidate_ports` tries 18081 and 18082 after the default port, and neither is in `HARNESS_PORTS` (`process_guard.py:329`):
  a server that failed over to one of them is not seen by the gate or the sweep, and a second model is loaded beside it.
  `OneFullServer` excepts it; without the exception `launch_servers` fails.
* The gate stands before the sweep (`llama_runner.py:1192-1195`), and both look at the same processes: what the sweep could
  clear has made the gate refuse, so that a leftover of a killed Trial blocks the next one (against ADR 0010, decision 2:
  "Safely terminate any matching leftover processes before opening new candidate ports"). This is why `SiblingsSpared` holds:
  all that the sweep behind the gate ever finds is a server that got its port in between, whose launcher was gone before
  (`LeftLoading`).
* Neither the gate nor the sweep sees an SGLang server. `single_load.py:1-4` speaks of "a second full llama-server / SGLang server",
  and `process_guard.py:331-338` has "sglang" among its names; but the runner starts `python -m sglang.launch_server`, the names
  come from `ps -eo pid,comm` and `tasklist`, and the process is called as the interpreter is (`test_process_guard.py:459` takes
  `python3` for none of the harness's). So a model of llama.cpp is loaded beside one of SGLang. `OneFullServer` speaks of
  llama.cpp's servers (`Named`); without that `launch_servers` fails.
* Between its start and its port a server is seen by nobody. When its launcher is killed then, or warns after 180 s and leaves
  (`model_up.py:610-622`), the next launch passes the gate and loads a second model; the state file may forget the first, and a
  sweep that comes late may kill it. `OneFullServer`, `SiblingsSpared` and `AliasTracked` except it (`LeftLoading`).
* On Windows the assignment of a server to the Job Object may fail, and nobody looks at the result (`process_guard.py:152-157`,
  245-246: "the explicit teardown API still applies"). It does not apply to a harness that was killed, whose server then lives on.
  `NoOrphan` excepts it.
* `dedicated_vram_kill_ceil` says that preflight and monitor "all agree on the ceiling" (340-342), but only the preflight reads
  `PHYSICAL_VRAM_KEEPOUT_MB` from the configuration (399-401): with less keepout there a model is accepted that the monitor kills.
  `AcceptedFits` excepts it; without the exception `trial_pipeline` fails.
* `resolve_n_cpu_moe` says of an "existing but unreadable GGUF with None → ValueError" (`model_arch.py:404-405`), and of one
  with an explicit N that N is kept (412-415). Neither is so: `_gguf_arch_info` swallows every exception (121-123), so such a
  file counts as dense, N is dropped, and it goes on to the preflights with a flat estimate (`ResolveOffload`, `KvKnown`). The
  test of it (`test_llama_runner.py:1076`) puts an exception in the place of `_gguf_arch_info`. Only a readable header of a
  mixture without `block_count` is refused.
* A header without `block_count`, or without the heads or the width of its attention, is charged 80 KiB per token for its KV
  cache (`model_arch.py:328-332`, `llama_runner.py:728-736`), whatever the model needs: what `AcceptedFits` promises of such a
  model is that this estimate fits.
* A validation runs the quick tier when told `--no-agentic-quick` (`evaluation.py:608-612`, the comment says the opposite).
* `run_trial` reads `VRAM_HEADROOM_MB` from keys that were made lower-case (`evaluation.py:561`): the setting never arrives.
* A perplexity-only Trial with `skip_bench` is rejected for a rate of 0 below the floor (`evaluation.py:826-831`), which the comment
  at 965 excludes for the other path.
* The detector's "First failure sticks" (`detector.py:116`) is not so for a stall noted at the end of the same turn, which
  replaces it.
* The sampler asks nvidia-smi in every turn, also while NVML works (`llama_runner.py:1475`); where that tool is missing it
  ends, and the runner goes on unwatched.
* A tool of the issue session that raises ends the whole evaluation of the pack (`runner.py:181`, 189, 217-219): `grep` and
  `read_file` over a file that is no text raise a `UnicodeDecodeError`, which is no `OSError`, and a test run leaves such files.
* A kill by the RAM watchdog in the middle of an evaluation is not looked at afterwards: the tasks that are left fail, and
  the Trial can end OK with what it scored before.
* A runner can leave its server behind after a kill. The sampler or the watchdog raises its flag and cleans up; when it has
  waited for the old process, start-up may already have spawned the next port's, whose handle the monitor then drops without
  killing it (`_cleanup_process`, 1504-1508). The next use of `self._server_proc.pid` in `__enter__` raises, `__exit__` is not
  called, and the server stays loaded until the harness exits and its guard ends it. So a promise "no server is left when the
  verdict is read" is refuted by TLC; `ServerLife!Over` promises it only when no flag was raised or the Trial is OK.

The models show more behaviour that a reader may not expect, without a run of its own: the heal deletes Trials whose mirror
line is missing; the column migration writes outside the lock; a candidate visited "in memory only" reaches the disk with
the next write of the memory; an adopted configuration is measured again as the next round's Baseline and recorded twice; a
Morris screen goes on after a stop; `--retry-crashed` drops the journal but not the visited mark of a Neighbor, which
therefore is not tried again.

`PlanAgreesWithRecompute` states where it does not hold: when the peak rounds to another bucket than the limit, and when the
model has screen rows, planning and recomputation differ; `FreshUnlessOwed` covers what comes of it.

### Bounds, and why they are enough

* *Two axes with two values.* Dominance, ties and incomplete vectors need two axes and two values each; the theorems of
  `ClassifyProofs` and `TrialLedgerProofs` hold for any number.
* *Two processes.* Each takes a lock twice per Trial; what matters is one other process between two sections of one. The
  invariants are proved for any number.
* *`MaxCrashes` = 1.* One kill at every step of every process; a killed process starts again and meets the others.
* *`MaxCopies` = 3* bounds the duplicates of rows without `trial_id`, which otherwise grow for ever.
* *Two or three knobs with two levels* and a Baseline that is no level give slopes, local maxima, inconsistent pairs,
  configurations over the budget and exhausted spaces. `ProbeLimit` = 2 lets the probe miss points of a space of four.
* *`MaxStarts` = 2 or 3*: a start over what a killed process left, and one over what a start killed in the middle left.
* *`ScreenPoints`, `RestartTries` = 1, 2* where the code has 10 and more, and 50: their counters only bound a loop.
* *`MaxAttempts` = 2*: one fail-over, over a port on which something else answers (`Foreign` = {2}). *`ProbeFailLimit` = 1*
  where the code has 5: a counter that only delays the switch. Each thread is one thread whatever the bound; the theorems hold
  for all ports.
* *Three launches over three ports*: one that lives, one that is refused or fails over, and one that meets both. The three
  ports are the default, one the gate does not look at, and the last resort.
* *Trials*: models of every kind the estimates tell apart (dense, with MTP layers, experts, a header without blocks or without
  attention, one that cannot be read, a directory), hosts with unified, unknown and short memory and each setting of the
  keepout, rates on either side of the floor (a setting; 20 tokens per second); a tier has one or two tasks, or none.
* *`MaxCalls` = 2* calls in one answer: the second one meets what the first was refused for. Packs have an issue after which
  another one begins, and few turns.
* *Scores* are natural numbers; the units are chosen so that the tie width and the percentages of the keep rule are met from
  both sides.

### Fairness

`ResultsStore!Fairness`: a process inside a call goes on (weak fairness), and `flock` does not pass over a waiter for ever
(strong fairness of the two lock actions; Linux queues waiters). `AutoLoop!FairSpec`: the process takes its next step, which
assumes that every Trial returns: the HTTP requests and subprocesses of a Trial have time-outs. The start-up of an SGLang
server has none (see the hazards). Nothing is assumed of `Start`, `Signal` or `Crash`: a process may be killed as often as it
is started, and `SearchEnds` says that one that is running ends, also when it never is.

`ServerRunner!FairSpec`: the main thread, the watchdogs and every clean-up are scheduled; of the sampler only the steps in
which it looks at the event or comes back from a clean-up. A server need not get ready, and no probe need fail.
`Launch!FairSpec`: a launch under way goes on, and its deadline comes; nothing makes a server bind its port, get ready or end, and
nothing begins another launch. `AgenticCoding!FairSpec`: the session goes on; the client's requests and the hidden
tests have time-outs. `Trial` states no fairness and claims no liveness.

## What is proved

All by TLAPS, for every value of the constants that satisfies the modules' ASSUMEs.

* `ClassifyProofs`: dominance is a strict order on vectors; merging can be done in any order; a recomputation changes nothing
  when repeated; adding a row before or after a recomputation makes no difference. On a store of one row per Trial the
  migration of old kills and the recomputation commute exactly when no row that competes bears its mark in the status alone:
  both directions are proved, so that the exception is as small as can be.
* `TrialLedgerProofs`: type correctness; the front is the Pareto Set of the merged points; a dominated basename stays dominated
  when another is logged. The invariant is that rows are always *settled*, a fixed point of the recomputation.
  `PlanAgreesWithRecompute`: the plan compares with the old point of its own basename and the recomputation with the new
  one, and neither beats the merged point.
* `ResultsStoreProofs`, for any number of processes and kills, when every Trial has a `trial_id` (`AllKeyed`): type
  correctness and mutual exclusion. When moreover the table's writes do not fail and it holds the mirror's Trials from the
  start (`SeededStore`): acknowledged Trials are visible, the mirror adds nothing to the table, and the store implements the
  ledger. The run `store_unseeded` shows that the seed is needed. The other two hypotheses cannot be dropped either: in
  `store_mirror_faults` with `Faults = {"db"}` TLC refutes `AckedVisible` and the refinement, and with rows without `trial_id`
  the refinement. The invariant `IInv` says, beyond the properties, that the lock is held just in the critical sections, what
  a refresh has read is still the table, the mirror is only read for a refresh while the table is empty, and a row on its way
  to the table is new to it. `OneRowPerTrial` needs `AllKeyed` and initial files without duplicates only, whichever writes
  fail: its invariant `Unique` says that a Trial which is not yet written is in no file and in no view of one.
  `RefreshSettles` holds of a seeded store, and `FreshUnlessOwed` when its statuses are settled at the start (`FreshInv`: a
  stale table means that somebody owes a refresh).
* `AutoLoopProofs`, for any search space, budget, measurements, number of models, starts and kills, when no model is selected
  twice (`DistinctModels`; a second visit of a model would find what its first visited in memory only, so that a Trial's mark
  may not be on disk): type correctness, `InFlightIsVisited`, `PublishedIsLogged`, `StopsSoon`, and of every step
  `NeverRunAgain`, `CrashRecorded`, `BaselineFits`, `NoTrialForgotten`, `AdoptedIsNotBeaten`. The invariant is
  `AutoLoop!IInv`: memory remembers at least what the disk does, everything run is visited on disk, what is visited in memory
  only belongs to a model already begun and is never the Baseline, a configuration that is run as Neighbor or adopted has
  passed its preflight, and the steps over a journal are in order. `AdoptedIsNotBeaten` rests on a second one, `SetInv`: from
  the seed on, each complete row of the model is covered by a vector the process knows, and on `ParetoSetDecides`: what
  anything in a finite set dominates, its Pareto Set does.

* `ServerRunnerProofs`, for any number of ports, on any platform with anything on the ports and any assignment to the Job
  Object failing: type correctness, `NoOrphan`, `KillIsReported`, one server at a time (`OneServerAtATime`) and the refinement
  `ImplementsLife`. The invariant says who can be in a clean-up: the sampler and the watchdogs only after their flag is up, so
  that until then the handle is the main thread's alone (`HandlesKept`); only the last server can be alive (`LatestAlive`);
  and on the way to the next port the handle is not gone before the server is (`FailOver`). That is where an interleaving
  could leave a server behind: a thread that drops the handle has waited for the process first. The refinement adds what a
  runner leaves behind (`LeftInv`): while no flag is raised the main thread's handle stays where it was tested (`MainAlone`),
  and after an `__enter__` or `__exit__` that raised nothing no server is left (`NoneLeft`).
* `LaunchProofs`, for any number of launches, ports and foreign programs: type correctness, `OneFullServer`, `SiblingsSpared`,
  and `AliasTracked` when the first candidate is one of the harness's ports (the gate does not see an alias elsewhere). The
  invariant: launches in a row do not meet a server that is still to bind its port, unless its launcher left it so
  (`OneAtATime`), past the gate a launch is alone among what the gate can see (`AloneAfterGate`), and a sweep behind the gate
  finds none but servers left loading (`LeftDoomed`).
* `TrialProofs`, for any model, host, settings, rates and options: type correctness, `AcceptedFits`, `ScoreIsEarned`,
  `KillWins`. The first rests on arithmetic: the budget of the preflight lies below the monitor's ceiling, since the ceiling
  grows with the limit and shrinks with the keepout (`CeilMonotone`, `PreflightBelowMonitor`). The invariant keeps what each
  stage has checked until the end (`Checked`), the flag until the verdict (`FlagKept`), and ties the score to outcome and rate
  (`EarnedSoFar`). `OkIsComplete` rests on a second invariant, `Progress`: what is left of the queue of evaluations is a
  suffix of the plan, counted out per tier (`TiersLeft`), and each stage leaves behind the axis it was asked for
  (`ServerMeasured`). `TrialImplementsLife`: what a Trial takes for its server is no more than `ServerLife` allows, for which
  a kill inside the server's block needs the flag (`KillNamed`). Of the estimates alone: what fits also fits with a shorter
  context (`LessContextStillFits`), the GPU's share with more offloaded expert layers (`MoreOffloadStillFits`), the host's
  with fewer (`LessOffloadStillFitsHost`).
* `AgenticCodingProofs`, for any packs of issues, any calls and any number of calls in one answer: type correctness, `PassIsEarned`,
  and of every step `RefusedIsOver`. The invariant: counters stay below their limits while nobody was refused, the detector's
  reason is the session's (`ReasonKept`), and what is not on the allowlist is as it was given (`OutsideUntouched`).

Behind the liveness properties stand theorems about what is left to do. They show that each of the steps the property needs
lowers a well-founded measure that other processes do not raise; what the prover cannot do is conclude from fairness that the
steps are taken.

* `CallsRunOut` (`CallsReturn`), whichever writes fail and also for rows without `trial_id`: a process inside a call has at most 16
  steps left. With `FreshWhenSettled` (a stale table means that a refresh is owed) it is what `StatusesConverge` rests on.
* `SearchRunsOut` (`SearchEnds`), for finitely many configurations: the stages of the start and the models left, then the
  configurations of the space the process has not visited, then the place within a round (a round over a visited Baseline
  comes only after an improvement), then the points of the screen. A signal leaves it as it is.
* `ThreadsRunOut` (`ThreadsEnd`): once the guard is torn down, the sampler has at most 7 steps left and each watchdog 9.
* `LaunchesRunOut` (`LaunchesSettle`), for finitely many launches, overlapping or not: the stage of the launch, then the
  processes it still sweeps or the steps it has over the ports that are left; nobody else raises either.
* `StepsRunOut` (`EvaluationEnds`): issues, turns and calls left.

`IInv`, `LockHeld`, `MirrorAddsNothing`, `OneServer`, `TrialImplementsLife` and the stability of demotions are proved without
a run of their own.

Only model-checked: the properties under fairness (`CallsReturn`, `StatusesConverge`, `SearchEnds`, `ThreadsEnd`, `LaunchesSettle`,
`EvaluationEnds`), because liveness from fairness needs ENABLED, which is out of the prover's reach. Every invariant and
every action property of the runs is a theorem, those of the store under the hypotheses named above.

## What the models leave out

* Store: the order of rows, the copy `results.tsv.bak`, columns added to an old table when it is opened, wording of cells.
* Search: `--profile`, `--dry-run`, the choice of models by hand, the CPU preflight seed; SEARCH_SPACE is taken as it is after
  filtering for the mode. Points of a screen are not kept in `rows`: they never compete. One bucket. What a Trial measures is
  any member of `Measures[c]`, so a second Trial of a configuration can differ from the first.
  Host memory may be short at any preflight (`HostTight`) or never.
* A configuration skipped by its preflight stays visited for ever, also when only host memory was short: this is the code's
  behaviour and the model's. A kill between the CRASH row and the deletion of the journal gives a second CRASH row in the code;
  `rows` is a set and does not count them. The program's notes speak of a loop "until Ctrl+C" while the Search ends when the
  space is exhausted: `SearchEnds` is about the code.
* The alias YAML is written in place; its torn state after a kill is not modelled.
* Morris screen: trajectories, elementary effects and the choice of pins. `AutoLoop` takes any pins it may end with.
* Runner: finding the binaries, the command line, `ServerIntent`'s parsing of settings; SGLang's environment, the pump of its
  output and its bench. The sampler of a runner that was refused runs on, because nobody cleans that runner up: `ThreadsEnd`
  is about runners that were. The readers of free memory give any result at any time.
* Launch: alias files, the texts of `status`, and `serve-config.py`, which serves one configuration in the foreground. Launches that
  overlap do load two models, since nothing serialises them: the properties speak of launches in a row, and of overlapping
  ones only that they settle. SGLang's start-up has no deadline, and `LaunchesSettle` excepts it.
* Trial: prompts, graders and mock services; a stage is a result it can have. Whether two readings of free memory differ.
* Agentic coding: messages and the texts of tools; what the hidden tests run is one of four texts, so that a model's code
  can solve the issue, not solve it, or hang, and nothing else. Which call raises is left open: any may.
* Not modelled: the llama client (one request and the parsing of its stream), rankings and dashboard (readers of the store),
  set-up and smoke scripts (programs called in a row), `rebuild_results_db.py` (run by hand while nothing else runs; takes no lock).

## Plan

Done: the store and its ledger, the Search, the runner with its threads and the life it promises a Trial, launches, the Trial
pipeline over its budgets, the issue sessions, and their theorems. Left, in this order:

1. `Morris`: trajectories, effects and pins as functions, against their definitions; then `AutoLoop`'s screen over it.
2. The maintenance script as actions of `ResultsStore`, and the alias file with its torn state.
