---------------------------- MODULE ServerRunner ----------------------------
(***************************************************************************)
(* The runner of a Trial's llama-server (llama_runner.py) with the threads *)
(* it starts: the main thread enters and leaves the runner, one VRAM       *)
(* sampler and one RAM watchdog per server (circuit_breaker.py) can end    *)
(* the server under it, and all of them clean up through the same two      *)
(* unprotected attributes.  The ProcessGuard (process_guard.py) and what   *)
(* the operating system does with children of a dead parent decide what    *)
(* outlives the harness.                                                   *)
(*                                                                         *)
(* A server is known by the attempt that started it.  Reading a handle     *)
(* that another thread has set to None is an AttributeError, the step      *)
(* "error" of a clean-up.                                                  *)
(***************************************************************************)
EXTENDS Naturals, FiniteSets

CONSTANTS
    MaxAttempts,    \* the number of candidate ports
    ProbeFailLimit, \* consecutive misses that end the CUDA guard: 5
    Foreign,        \* attempts on whose port something else answers /health
    Platforms,      \* the platforms looked at
    MayCrash        \* the harness may be killed from outside

Attempts == 1..MaxAttempts
NoServer == 0

ASSUME ServerRunnerAssumption ==
    /\ MaxAttempts \in Nat \ {0}
    /\ ProbeFailLimit \in Nat \ {0}
    /\ Foreign \subseteq Attempts
    /\ Platforms \subseteq {"linux", "windows", "darwin"}
    /\ Platforms # {}
    /\ MayCrash \in BOOLEAN

\* The threads: the main one, the sampler, and a watchdog for each server.
Main == 0
Sampler == MaxAttempts + 1
Threads == 0..(MaxAttempts + 1)

VARIABLES
    platform,   \* IS_LINUX, IS_WINDOWS or neither
    harness,    \* "up", "killed" or "exited"
    main,       \* where the main thread is
    attempt,    \* the candidate port being tried
    server,     \* the process of each attempt
    cut,        \* history: those the VRAM sampler ended
    proc,       \* self._server_proc
    log,        \* self._server_log is not None
    guarded,    \* the children in self._guard
    jobbed,     \* those of them in its Job Object
    torn,       \* _cleanup_all has run to its end
    raised,     \* __enter__ or __exit__ raised
    vramKilled, \* self.vram_killed
    ramKilled,  \* self.ram_killed
    stop,       \* self._stop_event
    sampler,    \* where the sampler is
    probe,      \* its sources: nvml, cudaGuard and the streak of misses
    dog,        \* where the watchdog of each server is
    step,       \* where each thread is in _cleanup_process
    verdict     \* the Trial's: "ok", "error" or "watchdog"

flags == <<vramKilled, ramKilled, stop>>
children == <<server, cut>>
vars == <<platform, harness, main, attempt, server, cut, proc, log, guarded, jobbed, torn, raised,
          vramKilled, ramKilled, stop, sampler, probe, dog, step, verdict>>

CleanSteps == {"idle", "test", "kill", "wait", "drop", "log", "done", "error"}

Init ==
    /\ platform \in Platforms
    /\ harness = "up"
    /\ main = "new"
    /\ attempt = 0
    /\ server = [a \in Attempts |-> "none"]
    /\ cut = {}
    /\ proc = NoServer
    /\ log = FALSE
    /\ guarded = {} /\ jobbed = {}
    /\ torn = FALSE /\ raised = FALSE
    /\ vramKilled = FALSE /\ ramKilled = FALSE /\ stop = FALSE
    /\ sampler = "off"
    /\ probe \in [nvml : BOOLEAN, cudaGuard : BOOLEAN, misses : {0}]
    /\ dog = [a \in Attempts |-> "off"]
    /\ step = [t \in Threads |-> "idle"]
    /\ verdict = "none"

Alive(a) == server[a] \in {"loading", "ready"}

\* The servers of S that still run come to an end.
End(S, how) == server' = [a \in Attempts |-> IF a \in S /\ Alive(a) THEN how ELSE server[a]]

(***************************************************************************)
(* The end of the harness.  Children die with it on Linux (PDEATHSIG) and, *)
(* when they are in the Job Object, on Windows; nothing binds them on      *)
(* macOS.  A harness that exits tears the guard down first (atexit).       *)
(***************************************************************************)
Bound == CASE platform = "linux" -> Attempts
           [] platform = "windows" -> jobbed
           [] OTHER -> {}

HarnessKilled ==
    /\ harness' = "killed"
    /\ End(Bound, "gone")
    /\ UNCHANGED <<platform, main, attempt, cut, proc, log, guarded, jobbed, torn, raised, flags, sampler,
                   probe, dog, verdict>>

Crash ==
    /\ MayCrash
    /\ harness = "up"
    /\ HarnessKilled
    /\ UNCHANGED step

HarnessExit ==
    /\ harness = "up"
    /\ main = "done"
    /\ harness' = "exited"
    /\ End(Bound \cup guarded, "gone")
    /\ UNCHANGED <<platform, main, attempt, cut, proc, log, guarded, jobbed, torn, raised, flags, sampler,
                   probe, dog, step, verdict>>

(***************************************************************************)
(* _cleanup_process, statement by statement: any thread can be in it, and  *)
(* each statement reads the attributes again.                              *)
(***************************************************************************)
CleanTest(t) ==
    /\ step[t] = "test"
    /\ step' = [step EXCEPT ![t] = IF proc = NoServer THEN "log" ELSE "kill"]
    /\ UNCHANGED <<children, proc, log>>

CleanKill(t) ==
    /\ step[t] = "kill"
    /\ IF proc = NoServer
       THEN /\ step' = [step EXCEPT ![t] = "error"]
            /\ UNCHANGED children
       ELSE /\ step' = [step EXCEPT ![t] = "wait"]
            /\ End({proc}, "zombie")
            /\ cut' = IF t = Sampler /\ Alive(proc) THEN cut \cup {proc} ELSE cut
    /\ UNCHANGED <<proc, log>>

\* Waiting reaps the process.
CleanWait(t) ==
    /\ step[t] = "wait"
    /\ IF proc = NoServer
       THEN /\ step' = [step EXCEPT ![t] = "error"]
            /\ UNCHANGED server
       ELSE /\ ~Alive(proc)
            /\ step' = [step EXCEPT ![t] = "drop"]
            /\ server' = [server EXCEPT ![proc] = "gone"]
    /\ UNCHANGED <<cut, proc, log>>

CleanDrop(t) ==
    /\ step[t] = "drop"
    /\ proc' = NoServer
    /\ step' = [step EXCEPT ![t] = "log"]
    /\ UNCHANGED <<children, log>>

CleanLog(t) ==
    /\ step[t] = "log"
    /\ log' = FALSE
    /\ step' = [step EXCEPT ![t] = "done"]
    /\ UNCHANGED <<children, proc>>

Cleanup(t) ==
    /\ harness = "up"
    /\ CleanTest(t) \/ CleanKill(t) \/ CleanWait(t) \/ CleanDrop(t) \/ CleanLog(t)
    /\ UNCHANGED <<platform, harness, main, attempt, guarded, jobbed, torn, raised, flags, sampler, probe,
                   dog, verdict>>

(***************************************************************************)
(* The sampler (_start_vram_sampler).  NVML gives readings until it fails, *)
(* and nvidia-smi all the time.  With the CUDA guard on, only free CUDA    *)
(* memory below its floor kills; when probes keep missing, used memory     *)
(* above the ceiling does, and that branch sets the flag and no more.      *)
(***************************************************************************)
Sampling == harness = "up" /\ sampler = "sample" /\ step[Sampler] = "idle" /\ ~stop
SamplerFrame == UNCHANGED <<platform, harness, main, attempt, children, proc, log, guarded, jobbed, torn,
                            raised, ramKilled, dog, verdict>>

KillServer(t) == step' = [step EXCEPT ![t] = "test"]

ProbeMisses ==
    /\ Sampling
    /\ probe.nvml /\ probe.cudaGuard
    /\ LET missed == probe.misses + 1 IN
       probe' = [probe EXCEPT !.misses = missed, !.cudaGuard = missed < ProbeFailLimit]
    /\ UNCHANGED <<vramKilled, stop, sampler, step>>
    /\ SamplerFrame

ProbeWorks ==
    /\ Sampling
    /\ probe.nvml
    /\ probe' = [probe EXCEPT !.misses = 0]
    /\ UNCHANGED <<vramKilled, stop, sampler, step>>
    /\ SamplerFrame

NvmlFails ==
    /\ Sampling
    /\ probe.nvml
    /\ probe' = [probe EXCEPT !.nvml = FALSE]
    /\ UNCHANGED <<vramKilled, stop, sampler, step>>
    /\ SamplerFrame

\* nvidia-smi is asked in every turn, also while NVML works; without it the sampler ends.
SmiMissing ==
    /\ Sampling
    /\ sampler' = "ended"
    /\ UNCHANGED <<vramKilled, stop, probe, step>>
    /\ SamplerFrame

CudaFreeExhausted ==
    /\ Sampling
    /\ probe.cudaGuard
    /\ ~vramKilled
    /\ vramKilled' = TRUE
    /\ probe' = [probe EXCEPT !.misses = 0]
    /\ KillServer(Sampler)
    /\ UNCHANGED <<stop, sampler>>
    /\ SamplerFrame

UsedAboveCeiling ==
    /\ Sampling
    /\ ~probe.cudaGuard
    /\ ~vramKilled
    /\ vramKilled' = TRUE
    /\ UNCHANGED <<stop, sampler, probe, step>>
    /\ SamplerFrame

\* _maybe_kill_shared looks at the memory of the server there is.
SharedExceeded ==
    /\ Sampling
    /\ ~vramKilled
    /\ proc # NoServer
    /\ vramKilled' = TRUE
    /\ KillServer(Sampler)
    /\ UNCHANGED <<stop, sampler, probe>>
    /\ SamplerFrame

\* A clean-up that raises under NVML is taken for a failure of NVML; under nvidia-smi it ends the
\* thread.
SamplerKilled ==
    /\ harness = "up"
    /\ step[Sampler] \in {"done", "error"}
    /\ step' = [step EXCEPT ![Sampler] = "idle"]
    /\ IF step[Sampler] = "done"
       THEN stop' = TRUE /\ UNCHANGED <<probe, sampler>>
       ELSE /\ \/ probe.nvml /\ probe' = [probe EXCEPT !.nvml = FALSE] /\ UNCHANGED sampler
               \/ sampler' = "ended" /\ UNCHANGED probe
            /\ UNCHANGED stop
    /\ UNCHANGED vramKilled
    /\ SamplerFrame

SamplerStops ==
    /\ harness = "up"
    /\ sampler = "sample" /\ step[Sampler] = "idle" /\ stop
    /\ sampler' = "ended"
    /\ UNCHANGED <<vramKilled, stop, probe, step>>
    /\ SamplerFrame

SamplerStep ==
    \/ ProbeMisses \/ ProbeWorks \/ NvmlFails \/ SmiMissing \/ CudaFreeExhausted
    \/ UsedAboveCeiling \/ SharedExceeded \/ SamplerKilled \/ SamplerStops

(***************************************************************************)
(* The RAM watchdog of server a (start_ram_watchdog, _maybe_kill_ram).  It *)
(* kills the process tree first and reports after.                         *)
(***************************************************************************)
DogFrame == UNCHANGED <<platform, main, attempt, proc, log, guarded, jobbed, torn, raised, vramKilled,
                        sampler, probe, verdict>>

\* A child that was not waited for still has a pid on POSIX.
HasPid(a) == Alive(a) \/ (server[a] = "zombie" /\ platform # "windows")

DogLeaves(a) ==
    /\ harness = "up"
    /\ dog[a] = "poll"
    /\ ~HasPid(a)
    /\ dog' = [dog EXCEPT ![a] = "ended"]
    /\ UNCHANGED <<harness, children, ramKilled, stop, step>>
    /\ DogFrame

\* kill_process_tree kills the process group of the server; on Linux the server has no group
\* of its own (_os_spawn_kwargs) and the group is the harness's.
DogKills(a) ==
    /\ harness = "up"
    /\ dog[a] = "poll"
    /\ HasPid(a)
    /\ dog' = [dog EXCEPT ![a] = "report"]
    /\ IF platform = "linux"
       THEN harness' = "killed" /\ End(Attempts, "gone")
       ELSE End({a}, "zombie") /\ UNCHANGED harness
    /\ UNCHANGED <<cut, ramKilled, stop, step>>
    /\ DogFrame

DogReports(a) ==
    /\ harness = "up"
    /\ dog[a] = "report" /\ step[a] = "idle"
    /\ IF ramKilled
       THEN dog' = [dog EXCEPT ![a] = "ended"] /\ UNCHANGED <<ramKilled, step>>
       ELSE ramKilled' = TRUE /\ KillServer(a) /\ UNCHANGED dog
    /\ UNCHANGED <<harness, children, stop>>
    /\ DogFrame

\* Whatever the report raises is swallowed, and then the sampler is not stopped.
DogReported(a) ==
    /\ harness = "up"
    /\ step[a] \in {"done", "error"}
    /\ step' = [step EXCEPT ![a] = "idle"]
    /\ dog' = [dog EXCEPT ![a] = "ended"]
    /\ stop' = (stop \/ step[a] = "done")
    /\ UNCHANGED <<harness, children, ramKilled>>
    /\ DogFrame

DogStep(a) ==
    DogLeaves(a) \/ DogKills(a) \/ DogReports(a) \/ DogReported(a)

(***************************************************************************)
(* The main thread: __enter__, the Trial's requests, __exit__, and then    *)
(* the end of run_trial, which reads the flag of the VRAM sampler.         *)
(***************************************************************************)
AtMain(where) == harness = "up" /\ main = where /\ step[Main] = "idle"
MainFrame == UNCHANGED <<platform, harness, vramKilled, ramKilled, dog>>

StartSampler ==
    /\ AtMain("new")
    /\ sampler' \in {"off", "sample"}       \* off in CPU mode
    /\ main' = "gate"
    /\ UNCHANGED <<attempt, children, proc, log, guarded, jobbed, torn, raised, stop, probe, step, verdict>>
    /\ MainFrame

\* __enter__ raises, and __exit__ is not called.
Raise ==
    /\ raised' = TRUE
    /\ main' = "verdict"

\* The single-load gate, the orphan sweep and the RAM preflight: see Launch and Trial.
Refused ==
    /\ AtMain("gate")
    /\ Raise
    /\ UNCHANGED <<attempt, children, proc, log, guarded, jobbed, torn, stop, sampler, probe, step, verdict>>
    /\ MainFrame

OpenLog ==
    /\ AtMain("gate")
    /\ attempt' = attempt + 1
    /\ log' = TRUE
    /\ main' = "spawn"
    /\ UNCHANGED <<children, proc, guarded, jobbed, torn, raised, stop, sampler, probe, step, verdict>>
    /\ MainFrame

Spawn ==
    /\ AtMain("spawn")
    /\ server' = [server EXCEPT ![attempt] = "loading"]
    /\ main' = "attach"
    /\ UNCHANGED <<attempt, cut, proc, log, guarded, jobbed, torn, raised, stop, sampler, probe, step, verdict>>
    /\ MainFrame

SpawnFails ==
    /\ AtMain("spawn")
    /\ Raise
    /\ UNCHANGED <<attempt, children, proc, log, guarded, jobbed, torn, stop, sampler, probe, step, verdict>>
    /\ MainFrame

\* Mutant: the guard is not told of the new server.
AttachUnguarded ==
    /\ AtMain("attach")
    /\ proc' = attempt
    /\ main' = "watch"
    /\ UNCHANGED <<attempt, children, guarded, jobbed, log, torn, raised, stop, sampler, probe, step, verdict>>
    /\ MainFrame

\* The guard registers the new server and forgets those that ended.  On Windows the server is also
\* assigned to the Job Object, which may fail, and nobody looks at the result.
Attach ==
    /\ AtMain("attach")
    /\ guarded' = {a \in guarded : Alive(a)} \cup {attempt}
    /\ \E joins \in IF platform = "windows" THEN BOOLEAN ELSE {FALSE} :
         jobbed' = {a \in jobbed : Alive(a)} \cup IF joins THEN {attempt} ELSE {}
    /\ server' = [a \in Attempts |-> IF a \in guarded /\ server[a] = "zombie" THEN "gone" ELSE server[a]]
    /\ proc' = attempt
    /\ main' = "watch"
    /\ UNCHANGED <<attempt, cut, log, torn, raised, stop, sampler, probe, step, verdict>>
    /\ MainFrame

StartWatchdog ==
    /\ AtMain("watch")
    /\ IF proc = NoServer
       THEN Raise /\ UNCHANGED dog
       ELSE /\ dog' = [dog EXCEPT ![attempt] = "poll"]
            /\ main' = "wait"
            /\ UNCHANGED raised
    /\ UNCHANGED <<attempt, children, proc, log, guarded, jobbed, torn, stop, sampler, probe, step, verdict,
                   platform, harness, vramKilled, ramKilled>>

\* _wait_for_server: a handle that is None, or a dead server, ends the wait.
WaitTest ==
    /\ AtMain("wait")
    /\ main' = IF proc = NoServer THEN "judge" ELSE "poll"
    /\ UNCHANGED <<attempt, children, proc, log, guarded, jobbed, torn, raised, stop, sampler, probe, step, verdict>>
    /\ MainFrame

WaitPoll ==
    /\ AtMain("poll")
    /\ IF proc = NoServer
       THEN Raise /\ UNCHANGED server
       ELSE /\ main' = IF Alive(proc) THEN "health" ELSE "judge"
            /\ server' = [server EXCEPT ![proc] = IF @ = "zombie" THEN "gone" ELSE @]
            /\ UNCHANGED raised
    /\ UNCHANGED <<attempt, cut, proc, log, guarded, jobbed, torn, stop, sampler, probe, step, verdict>>
    /\ MainFrame

\* Any server that answers on the port will do; without an answer, it asks again until the
\* deadline.
WaitHealth ==
    /\ AtMain("health")
    /\ \/ main' = "serving" /\ (server[attempt] = "ready" \/ attempt \in Foreign)
       \/ main' = "wait" /\ server[attempt] # "ready"
       \/ main' = "judge" /\ server[attempt] # "ready"
    /\ UNCHANGED <<attempt, children, proc, log, guarded, jobbed, torn, raised, stop, sampler, probe, step, verdict>>
    /\ MainFrame

Judge ==
    /\ AtMain("judge")
    /\ IF vramKilled \/ ramKilled
       THEN main' = "leave" /\ raised' = TRUE
       ELSE main' = "flush" /\ UNCHANGED raised
    /\ UNCHANGED <<attempt, children, proc, log, guarded, jobbed, torn, stop, sampler, probe, step, verdict>>
    /\ MainFrame

\* Mutant: the next port is tried without ending the server on the last one.
ReadLogTailOnly ==
    /\ AtMain("flush")
    /\ IF log
       THEN main' = "next" /\ step' = [step EXCEPT ![Main] = "done"] /\ UNCHANGED raised
       ELSE Raise /\ UNCHANGED step
    /\ UNCHANGED <<attempt, children, proc, log, guarded, jobbed, torn, stop, sampler, probe, verdict>>
    /\ MainFrame

\* The tail of the log is read from an attribute that a clean-up sets to None.
ReadLogTail ==
    /\ AtMain("flush")
    /\ IF log
       THEN main' = "next" /\ KillServer(Main) /\ UNCHANGED raised
       ELSE Raise /\ UNCHANGED step
    /\ UNCHANGED <<attempt, children, proc, log, guarded, jobbed, torn, stop, sampler, probe, verdict>>
    /\ MainFrame

\* Mutant: one port more than there are.
NextPortBeyond ==
    /\ harness = "up" /\ main = "next" /\ step[Main] = "done"
    /\ step' = [step EXCEPT ![Main] = "idle"]
    /\ IF attempt <= MaxAttempts
       THEN attempt' = attempt + 1 /\ log' = TRUE /\ main' = "spawn" /\ UNCHANGED raised
       ELSE main' = "leave" /\ raised' = TRUE /\ UNCHANGED <<attempt, log>>
    /\ UNCHANGED <<children, proc, guarded, jobbed, torn, stop, sampler, probe, verdict>>
    /\ MainFrame

NextPort ==
    /\ harness = "up" /\ main = "next" /\ step[Main] = "done"
    /\ step' = [step EXCEPT ![Main] = "idle"]
    /\ IF attempt < MaxAttempts
       THEN attempt' = attempt + 1 /\ log' = TRUE /\ main' = "spawn" /\ UNCHANGED raised
       ELSE main' = "leave" /\ raised' = TRUE /\ UNCHANGED <<attempt, log>>
    /\ UNCHANGED <<children, proc, guarded, jobbed, torn, stop, sampler, probe, verdict>>
    /\ MainFrame

\* The benches and evaluations are over, or one of them raised.
LeaveWith ==
    /\ AtMain("serving")
    /\ main' = "leave"
    /\ raised' \in BOOLEAN
    /\ UNCHANGED <<attempt, children, proc, log, guarded, jobbed, torn, stop, sampler, probe, step, verdict>>
    /\ MainFrame

\* Mutant: the sampler is not told to stop.
CleanupAllRunning ==
    /\ AtMain("leave")
    /\ KillServer(Main)
    /\ main' = "teardown"
    /\ UNCHANGED <<attempt, children, proc, log, guarded, jobbed, torn, raised, stop, sampler, probe, verdict>>
    /\ MainFrame

\* _cleanup_all: stop the sampler, clean up, tear the guard down.
CleanupAll ==
    /\ AtMain("leave")
    /\ stop' = TRUE
    /\ KillServer(Main)
    /\ main' = "teardown"
    /\ UNCHANGED <<attempt, children, proc, log, guarded, jobbed, torn, raised, sampler, probe, verdict>>
    /\ MainFrame

Teardown ==
    /\ harness = "up" /\ main = "teardown" /\ step[Main] = "done"
    /\ step' = [step EXCEPT ![Main] = "idle"]
    /\ End(guarded \cup jobbed, "gone")
    /\ guarded' = {} /\ jobbed' = {}
    /\ torn' = TRUE
    /\ main' = "verdict"
    /\ UNCHANGED <<attempt, cut, proc, log, raised, stop, sampler, probe, verdict>>
    /\ MainFrame

\* The clean-up found None where it had seen a handle, and raises.
CleanupRaises ==
    /\ harness = "up" /\ step[Main] = "error"
    /\ step' = [step EXCEPT ![Main] = "idle"]
    /\ Raise
    /\ UNCHANGED <<attempt, children, proc, log, guarded, jobbed, torn, stop, sampler, probe, verdict>>
    /\ MainFrame

\* Mutant: an exception hides the kill.
VerdictOfError ==
    /\ AtMain("verdict")
    /\ verdict' = IF raised THEN "error" ELSE IF vramKilled THEN "watchdog" ELSE "ok"
    /\ main' = "done"
    /\ UNCHANGED <<attempt, children, proc, log, guarded, jobbed, torn, raised, stop, sampler, probe, step>>
    /\ MainFrame

\* run_trial: the flag of the VRAM sampler overrides whatever was found.
Verdict ==
    /\ AtMain("verdict")
    /\ verdict' = IF vramKilled THEN "watchdog" ELSE IF raised THEN "error" ELSE "ok"
    /\ main' = "done"
    /\ UNCHANGED <<attempt, children, proc, log, guarded, jobbed, torn, raised, stop, sampler, probe, step>>
    /\ MainFrame

MainStep ==
    \/ StartSampler \/ Refused \/ OpenLog \/ Spawn \/ SpawnFails \/ Attach \/ StartWatchdog
    \/ WaitTest \/ WaitPoll \/ WaitHealth \/ Judge \/ ReadLogTail \/ NextPort \/ LeaveWith
    \/ CleanupAll \/ Teardown \/ CleanupRaises \/ Verdict

(***************************************************************************)
(* The servers themselves.                                                 *)
(***************************************************************************)
ServerFrame == UNCHANGED <<platform, harness, main, attempt, proc, log, guarded, jobbed, torn, raised,
                           flags, sampler, probe, dog, step, verdict>>

ServerReady(a) ==
    /\ harness = "up"
    /\ server[a] = "loading"
    /\ server' = [server EXCEPT ![a] = "ready"]
    /\ UNCHANGED cut
    /\ ServerFrame

ServerDies(a) ==
    /\ Alive(a)
    /\ harness = "up"
    /\ End({a}, "zombie")
    /\ UNCHANGED cut
    /\ ServerFrame

ServerStep == \E a \in Attempts : ServerReady(a) \/ ServerDies(a)
DogSteps == \E a \in Attempts : DogStep(a)
CleanupStep == \E t \in Threads : Cleanup(t)

Next == MainStep \/ SamplerStep \/ DogSteps \/ CleanupStep \/ ServerStep \/ Crash \/ HarnessExit

Spec == Init /\ [][Next]_vars

(***************************************************************************)
(* Every thread of a running harness is scheduled, and the sampler looks   *)
(* at the event in every turn.  Nothing makes a server ready, and nothing  *)
(* makes a probe fail.                                                     *)
(***************************************************************************)
FairSpec ==
    /\ Spec
    /\ WF_vars(MainStep)
    /\ WF_vars(SamplerKilled \/ SamplerStops)
    /\ \A a \in Attempts : WF_vars(DogStep(a))
    /\ \A t \in Threads : WF_vars(Cleanup(t))

(***************************************************************************)
(* Properties                                                              *)
(***************************************************************************)
\* Types, and: a watchdog or a clean-up runs only where the code starts one.
TypeOK ==
    /\ platform \in Platforms
    /\ harness \in {"up", "killed", "exited"}
    /\ main \in {"new", "gate", "spawn", "attach", "watch", "wait", "poll", "health", "serving",
                 "judge", "flush", "next", "leave", "teardown", "verdict", "done"}
    /\ attempt \in 0..MaxAttempts
    /\ server \in [Attempts -> {"none", "loading", "ready", "zombie", "gone"}]
    /\ cut \subseteq Attempts
    /\ proc \in Attempts \cup {NoServer}
    /\ guarded \subseteq Attempts
    /\ jobbed \subseteq Attempts
    /\ {log, torn, raised, vramKilled, ramKilled, stop} \subseteq BOOLEAN
    /\ sampler \in {"off", "sample", "ended"}
    /\ probe \in [nvml : BOOLEAN, cudaGuard : BOOLEAN, misses : Nat]
    /\ dog \in [Attempts -> {"off", "poll", "report", "ended"}]
    /\ step \in [Threads -> CleanSteps]
    /\ verdict \in {"none", "ok", "error", "watchdog"}

\* At any time at most one server of the runner is alive, whatever the threads do to the handle
\* they share: a fail-over never loads the model twice.
OneServer == \A a, b \in Attempts : Alive(a) /\ Alive(b) => a = b

\* A live server is one that the guard will tear down, except in the moment between its start and
\* its registration.  When the harness is gone, it was killed, and the server it left was in that
\* moment, on Windows, or is one whose assignment to the Job Object had failed; or this is macOS,
\* where nothing binds a child to its parent.  On Linux none is ever left.
NoOrphan == \A a \in Attempts : Alive(a) =>
    \/ harness = "up" /\ (a \in guarded \/ (main = "attach" /\ attempt = a))
    \/ harness = "killed" /\ platform = "windows" /\ a \notin jobbed
    \/ harness = "killed" /\ platform = "darwin"

\* A Trial that counts as clean is one whose server the VRAM sampler did not kill: the flag is
\* raised before the kill and read after the last server is gone.
KillIsReported == verdict \in {"ok", "error"} => cut = {}

\* The promise to the Trial: a model is loaded only where none runs, a kill is in the verdict exactly
\* when the VRAM flag was up, and a server is left behind only by a Trial that failed after a
\* monitor had interfered.  Such a server is there: a monitor's clean-up of the last port drops
\* the handle of the next one, and __enter__ raises, so that __exit__ is not called.
Phase == CASE main = "serving" -> "serving"
           [] main \in {"leave", "teardown", "verdict"} -> "leaving"
           [] main = "done" -> "over"
           [] OTHER -> "starting"
Live == {a \in Attempts : Alive(a)}
Flagged == {m \in {"vram", "ram"} : IF m = "vram" THEN vramKilled ELSE ramKilled}
Life == INSTANCE ServerLife WITH Servers <- Attempts, phase <- Phase, live <- Live, flags <- Flagged
ImplementsLife == Life!Spec

\* When the runner was cleaned up, the sampler and all watchdogs come to an end.
AllEnded == sampler \in {"off", "ended"} /\ \A a \in Attempts : dog[a] \in {"off", "ended"}
ThreadsEnd == torn ~> (AllEnded \/ harness # "up")

\* The RAM circuit breaker kills the server, not the harness.
BreakerSparesHarness == harness # "killed"
=============================================================================
