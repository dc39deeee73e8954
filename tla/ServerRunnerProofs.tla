------------------------- MODULE ServerRunnerProofs -------------------------
(***************************************************************************)
(* One runner and its threads, for any number of ports, on any platform,   *)
(* with anything on the ports.                                             *)
(***************************************************************************)
EXTENDS ServerRunner, TLAPS

\* A thread is in _cleanup_process for a reason: after a flag was raised, or on the main thread's way.
Owners ==
    /\ step[Sampler] # "idle" => vramKilled
    /\ \A a \in Attempts : step[a] # "idle" => ramKilled
    /\ step[Main] # "idle" => main \in {"next", "teardown"}
    /\ step[Main] = "error" => proc = NoServer

\* The number of servers started.
AttemptAt ==
    /\ main \in {"new", "gate"} => attempt = 0
    /\ main \notin {"new", "gate", "verdict", "done"} => attempt \in Attempts

\* Only the last server started can be alive.
LatestAlive == \A a \in Attempts : Alive(a) => a = attempt /\ main \notin {"new", "gate", "spawn"}

\* While no flag is raised, nobody but the main thread touches the handles.
HandlesKept ==
    ~vramKilled /\ ~ramKilled =>
        /\ main \in {"spawn", "attach", "watch", "wait", "poll", "health", "serving", "judge"} => log
        /\ main \in {"watch", "wait", "poll", "health", "serving", "judge"} => proc = attempt

\* On the way to the next port the handle is that of the last server or gone, and it is not gone
\* before the server is.
FailOver ==
    main \in {"flush", "next"} =>
        /\ proc \in {attempt, NoServer}
        /\ proc = NoServer \/ (\E t \in Threads : step[t] = "drop") => ~Alive(attempt)
        /\ main = "flush" /\ (~log \/ \E t \in Threads : step[t] = "log") => proc = NoServer
        /\ main = "next" /\ step[Main] \in {"drop", "log", "done"} => ~Alive(attempt)

\* At the end nobody can reach a live server through the handle.
HandleAtEnd == main \in {"verdict", "done"} => proc = NoServer \/ ~Alive(proc)

\* What the sampler has cut is flagged, and a verdict without the flag stays true.
Reported ==
    /\ cut # {} => vramKilled
    /\ verdict # "none" => main = "done"

IInv ==
    /\ TypeOK /\ Owners /\ AttemptAt /\ LatestAlive /\ HandlesKept /\ FailOver /\ HandleAtEnd
    /\ NoOrphan /\ Reported /\ KillIsReported

-----------------------------------------------------------------------------
LEMMA ThreadFacts ==
    /\ Main \in Threads /\ Sampler \in Threads /\ Attempts \subseteq Threads
    /\ Main # Sampler /\ Main \notin Attempts /\ Sampler \notin Attempts
    /\ NoServer \notin Attempts
    /\ Attempts \subseteq Nat
    /\ Threads = Attempts \cup {Main, Sampler}
BY ServerRunnerAssumption DEF Main, Sampler, Threads, Attempts, NoServer

LEMMA InitInv == Init => IInv
<1> SUFFICES ASSUME Init
             PROVE  IInv
  OBVIOUS
<1>1. TypeOK
  <2>1. probe \in [nvml : BOOLEAN, cudaGuard : BOOLEAN, misses : Nat]
    BY DEF Init
  <2>2. attempt \in 0..MaxAttempts
    BY ServerRunnerAssumption DEF Init
  <2>3. /\ server \in [Attempts -> {"none", "loading", "ready", "zombie", "gone"}]
        /\ dog \in [Attempts -> {"off", "poll", "report", "ended"}]
        /\ step \in [Threads -> CleanSteps]
    BY DEF Init, CleanSteps
  <2>4. {log, torn, raised, vramKilled, ramKilled, stop} \subseteq BOOLEAN
    BY DEF Init
  <2> QED
    BY <2>1, <2>2, <2>3, <2>4 DEF Init, TypeOK
<1> QED
  BY <1>1, ThreadFacts DEF Init, IInv, Owners, AttemptAt, LatestAlive, HandlesKept, FailOver, HandleAtEnd,
     NoOrphan, Reported, KillIsReported, Alive

\* Ending servers makes no server alive.
LEMMA EndType ==
    ASSUME TypeOK, NEW S, NEW how \in {"zombie", "gone"}, End(S, how)
    PROVE  /\ server' \in [Attempts -> {"none", "loading", "ready", "zombie", "gone"}]
           /\ \A a \in Attempts : Alive(a)' <=> Alive(a) /\ a \notin S
BY DEF TypeOK, End, Alive

-----------------------------------------------------------------------------
(* The clean-up, by whatever thread.                                       *)

LEMMA CleanupType ==
    ASSUME TypeOK, NEW t \in Threads, Cleanup(t)
    PROVE  /\ TypeOK'
           /\ \A a \in Attempts : Alive(a)' => Alive(a)
           /\ proc' \in {proc, NoServer}
           /\ \A u \in Threads : u # t => step'[u] = step[u]
           /\ step[t] \notin {"idle", "done", "error"}
<1> USE ThreadFacts DEF Cleanup, TypeOK, CleanSteps, flags
<1>1. CASE CleanTest(t)
  BY <1>1 DEF CleanTest, children, Alive
<1>2. CASE CleanKill(t)
  <2>1. CASE proc = NoServer
    BY <1>2, <2>1 DEF CleanKill, children, Alive
  <2>2. CASE proc # NoServer
    <3>1. End({proc}, "zombie") /\ cut' \subseteq cut \cup {proc} /\ proc' = proc /\ log' = log
          /\ step' = [step EXCEPT ![t] = "wait"] /\ step[t] = "kill"
      BY <1>2, <2>2 DEF CleanKill
    <3> QED
      BY <2>2, <3>1, EndType
  <2> QED
    BY <2>1, <2>2
<1>3. CASE CleanWait(t)
  BY <1>3 DEF CleanWait, Alive
<1>4. CASE CleanDrop(t)
  BY <1>4 DEF CleanDrop, children, Alive
<1>5. CASE CleanLog(t)
  <2>1. log' \in BOOLEAN
    BY <1>5 DEF CleanLog
  <2> QED
    BY <1>5, <2>1 DEF CleanLog, children, Alive
<1> QED
  BY <1>1, <1>2, <1>3, <1>4, <1>5

\* What each of its statements does to the handles, and what it has seen.
LEMMA CleanCases ==
    ASSUME TypeOK, NEW t \in Threads, Cleanup(t)
    PROVE  \/ step[t] = "test" /\ step'[t] = "log" /\ proc = NoServer /\ UNCHANGED <<proc, log, cut>>
           \/ step[t] = "test" /\ step'[t] = "kill" /\ proc # NoServer /\ UNCHANGED <<proc, log, cut>>
           \/ step[t] \in {"kill", "wait"} /\ step'[t] = "error" /\ proc = NoServer
                /\ UNCHANGED <<proc, log, cut>>
           \/ step[t] = "kill" /\ step'[t] = "wait" /\ proc # NoServer /\ UNCHANGED <<proc, log>>
                /\ cut' = IF t = Sampler /\ Alive(proc) THEN cut \cup {proc} ELSE cut
           \/ step[t] = "wait" /\ step'[t] = "drop" /\ proc # NoServer /\ ~Alive(proc)
                /\ UNCHANGED <<proc, log, cut>>
           \/ step[t] = "drop" /\ step'[t] = "log" /\ proc' = NoServer /\ UNCHANGED <<log, cut>>
           \/ step[t] = "log" /\ step'[t] = "done" /\ ~log' /\ UNCHANGED <<proc, cut>>
<1> USE DEF TypeOK, children
<1>1. CASE CleanTest(t)
  BY <1>1 DEF CleanTest
<1>2. CASE CleanKill(t)
  BY <1>2 DEF CleanKill
<1>3. CASE CleanWait(t)
  BY <1>3 DEF CleanWait
<1>4. CASE CleanDrop(t)
  BY <1>4 DEF CleanDrop
<1>5. CASE CleanLog(t)
  BY <1>5 DEF CleanLog
<1> QED
  BY <1>1, <1>2, <1>3, <1>4, <1>5 DEF Cleanup

LEMMA CleanupStepInv ==
    ASSUME IInv, NEW t \in Threads, Cleanup(t)
    PROVE  IInv'
<1>1. UNCHANGED <<platform, harness, main, attempt, guarded, jobbed, torn, raised, vramKilled, ramKilled, stop,
                  sampler, probe, dog, verdict>>
  BY DEF Cleanup, flags
<1>2. /\ TypeOK /\ TypeOK'
      /\ \A a \in Attempts : Alive(a)' => Alive(a)
      /\ proc' \in {proc, NoServer}
      /\ \A u \in Threads : u # t => step'[u] = step[u]
      /\ step[t] \notin {"idle", "done", "error"}
  BY CleanupType DEF IInv
<1>4. step'[t] = "error" => proc = NoServer /\ proc' = NoServer
  BY <1>2, CleanCases
<1>5. Owners'
  BY <1>1, <1>2, <1>4, ThreadFacts DEF IInv, Owners
<1>6. (AttemptAt /\ LatestAlive /\ NoOrphan)'
  BY <1>1, <1>2, ThreadFacts DEF IInv, AttemptAt, LatestAlive, NoOrphan, Alive
<1>7. HandlesKept'
  <2> SUFFICES ASSUME ~vramKilled, ~ramKilled
               PROVE  HandlesKept'
    BY <1>1 DEF HandlesKept
  <2>1. t = Main /\ main \in {"next", "teardown"}
    BY <1>2, ThreadFacts DEF IInv, Owners
  <2> QED
    BY <1>1, <2>1 DEF HandlesKept
<1>8. FailOver'
  <2> SUFFICES ASSUME main \in {"flush", "next"}
               PROVE  FailOver'
    BY <1>1 DEF FailOver
  <2>1. attempt \in Attempts /\ proc \in {attempt, NoServer}
    BY DEF IInv, AttemptAt, FailOver
  <2>2. ASSUME step'[t] = "drop"
        PROVE  ~Alive(attempt)'
    BY <1>1, <1>2, <2>1, <2>2, CleanCases
  <2>3. ASSUME proc' = NoServer
        PROVE  ~Alive(attempt)'
    <3>1. proc = NoServer \/ step[t] = "drop"
      BY <1>2, <2>3, CleanCases
    <3>2. ~Alive(attempt)
      BY <3>1 DEF IInv, FailOver
    <3> QED
      BY <1>1, <1>2, <2>1, <3>2
  <2>4. ASSUME step'[t] \in {"log", "done"}
        PROVE  ~Alive(attempt)' \/ step[t] = "log"
    <3>1. proc = NoServer \/ step[t] \in {"drop", "log"}
      BY <1>2, <2>4, CleanCases
    <3>2. step[t] = "log" \/ ~Alive(attempt)
      BY <3>1 DEF IInv, FailOver
    <3> QED
      BY <1>1, <1>2, <2>1, <3>2
  <2>5. ASSUME ~log' \/ step'[t] = "log", main = "flush"
        PROVE  proc' = NoServer
    <3>1. proc' = NoServer \/ ~log \/ step[t] = "log"
      BY <1>2, <2>5, CleanCases
    <3>2. proc' = NoServer \/ proc = NoServer
      BY <2>5, <3>1 DEF IInv, FailOver
    <3> QED
      BY <1>2, <3>2
  <2>6. main = "next" /\ step'[Main] \in {"drop", "log", "done"} => ~Alive(attempt)'
    BY <1>1, <1>2, <2>1, <2>2, <2>4, ThreadFacts DEF IInv, FailOver
  <2>7. ASSUME NEW u \in Threads, step'[u] = "drop"
        PROVE  ~Alive(attempt)'
    BY <1>1, <1>2, <2>1, <2>2, <2>7 DEF IInv, FailOver
  <2>8. ASSUME NEW u \in Threads, step'[u] = "log", main = "flush"
        PROVE  proc' = NoServer
    BY <1>2, <2>1, <2>5, <2>8 DEF IInv, FailOver
  <2> QED
    BY <1>1, <1>2, <2>1, <2>3, <2>5, <2>6, <2>7, <2>8 DEF FailOver, Alive
<1>9. (HandleAtEnd /\ Reported /\ KillIsReported)'
  <2>1. HandleAtEnd'
    BY <1>1, <1>2 DEF IInv, HandleAtEnd, TypeOK
  <2>2. cut' = cut \/ (t = Sampler /\ proc # NoServer /\ Alive(proc))
    BY <1>2, CleanCases
  <2>3. t = Sampler => vramKilled
    BY <1>2 DEF IInv, Owners
  <2> QED
    BY <1>1, <2>1, <2>2, <2>3 DEF IInv, Reported, KillIsReported, HandleAtEnd
<1> QED
  BY <1>1, <1>2, <1>5, <1>6, <1>7, <1>8, <1>9 DEF IInv
-----------------------------------------------------------------------------
(* The watchers, the servers and the end of the harness.                   *)

Untouched == UNCHANGED <<platform, main, attempt, proc, log, guarded, jobbed, torn, raised, cut, verdict>>

\* Whoever leaves the handles alone, raises the flag before it cleans up and starts no server.
LEMMA WatcherStep ==
    ASSUME IInv, Untouched, TypeOK', NoOrphan',
           vramKilled => vramKilled', ramKilled => ramKilled',
           \A a \in Attempts : Alive(a)' => Alive(a),
           \A t \in Threads : \/ step'[t] = step[t]
                              \/ t # Main /\ step'[t] = "idle"
                              \/ step'[t] = "test" /\ t = Sampler /\ vramKilled'
                              \/ step'[t] = "test" /\ t \in Attempts /\ ramKilled'
    PROVE  IInv'
<1> USE DEF Untouched
<1>1. step'[Main] = step[Main]
  BY ThreadFacts
<1>2. Owners'
  BY <1>1, ThreadFacts DEF IInv, Owners
<1>3. (AttemptAt /\ LatestAlive)'
  BY DEF IInv, AttemptAt, LatestAlive
<1>4. HandlesKept'
  BY DEF IInv, HandlesKept
<1>5. FailOver'
  <2> SUFFICES ASSUME main \in {"flush", "next"}
               PROVE  FailOver'
    BY DEF FailOver
  <2>1. attempt \in Attempts
    BY DEF IInv, AttemptAt
  <2>2. ~Alive(attempt) => ~Alive(attempt)'
    BY <2>1
  <2>3. \A t \in Threads : step'[t] \in {"drop", "log"} => step[t] = step'[t]
    OBVIOUS
  <2> QED
    BY <1>1, <2>2, <2>3 DEF IInv, FailOver
<1>6. HandleAtEnd'
  <2>1. proc # NoServer => (~Alive(proc) => ~Alive(proc)')
    BY DEF IInv, TypeOK
  <2> QED
    BY <2>1 DEF IInv, HandleAtEnd
<1>7. (Reported /\ KillIsReported)'
  BY DEF IInv, Reported, KillIsReported
<1> QED
  BY <1>2, <1>3, <1>4, <1>5, <1>6, <1>7 DEF IInv

\* Without a change of the harness nobody loses a parent.
LEMMA NoOrphanKept ==
    ASSUME NoOrphan, UNCHANGED <<platform, harness, main, attempt, guarded, jobbed>>,
           \A a \in Attempts : Alive(a)' => Alive(a)
    PROVE  NoOrphan'
BY DEF NoOrphan

Probes == [nvml : BOOLEAN, cudaGuard : BOOLEAN, misses : Nat]

LEMMA ProbeUpdates ==
    ASSUME NEW p \in Probes
    PROVE  [p EXCEPT !.misses = 0] \in Probes /\ [p EXCEPT !.nvml = FALSE] \in Probes
<1>1. [p EXCEPT !.misses = 0] \in Probes
  BY DEF Probes
<1>2. [p EXCEPT !.nvml = FALSE] \in Probes
  BY DEF Probes
<1> QED
  BY <1>1, <1>2

LEMMA SamplerStepInv ==
    ASSUME IInv, SamplerStep
    PROVE  IInv'
<1> USE DEF SamplerFrame, Sampling, KillServer
<1>1. /\ UNCHANGED <<platform, harness, main, attempt, server, cut, proc, log, guarded, jobbed, torn, raised,
                     ramKilled, dog, verdict>>
      /\ step' \in {step, [step EXCEPT ![Sampler] = "idle"], [step EXCEPT ![Sampler] = "test"]}
  BY DEF SamplerStep, ProbeMisses, ProbeWorks, NvmlFails, SmiMissing, CudaFreeExhausted,
     UsedAboveCeiling, SharedExceeded, SamplerKilled, SamplerStops, children
<1>2. /\ vramKilled' \in BOOLEAN /\ stop' \in BOOLEAN /\ sampler' \in {sampler, "ended"}
      /\ vramKilled' \/ step' \in {step, [step EXCEPT ![Sampler] = "idle"]}
      /\ vramKilled => vramKilled'
  <2>1. CASE ProbeMisses \/ ProbeWorks \/ NvmlFails \/ SmiMissing
    BY <2>1 DEF ProbeMisses, ProbeWorks, NvmlFails, SmiMissing, IInv, TypeOK
  <2>2. CASE CudaFreeExhausted \/ UsedAboveCeiling \/ SharedExceeded
    BY <2>2 DEF CudaFreeExhausted, UsedAboveCeiling, SharedExceeded, IInv, TypeOK
  <2>3. CASE SamplerKilled
    BY <2>3 DEF SamplerKilled, IInv, TypeOK
  <2>4. CASE SamplerStops
    BY <2>4 DEF SamplerStops, IInv, TypeOK
  <2> QED
    BY <2>1, <2>2, <2>3, <2>4 DEF SamplerStep
<1>3. probe' \in Probes
  <2>1. probe \in Probes
    BY DEF IInv, TypeOK, Probes
  <2>2. CASE ProbeMisses
    <3>1. probe.misses + 1 \in Nat /\ (probe.misses + 1 < ProbeFailLimit) \in BOOLEAN
      BY <2>1 DEF Probes
    <3> QED
      BY <2>1, <2>2, <3>1 DEF ProbeMisses, Probes
  <2>3. CASE ~ProbeMisses
    <3>1. probe' = probe \/ probe' = [probe EXCEPT !.misses = 0] \/ probe' = [probe EXCEPT !.nvml = FALSE]
      BY <2>3 DEF SamplerStep, ProbeWorks, NvmlFails, SmiMissing, CudaFreeExhausted, UsedAboveCeiling,
         SharedExceeded, SamplerKilled, SamplerStops
    <3> QED
      BY <2>1, <3>1, ProbeUpdates
  <2> QED
    BY <2>2, <2>3
<1>4. TypeOK'
  <2>1. step' \in [Threads -> CleanSteps]
    BY <1>1 DEF IInv, TypeOK, CleanSteps
  <2>2. {log', torn', raised', vramKilled', ramKilled', stop'} \subseteq BOOLEAN
    BY <1>1, <1>2 DEF IInv, TypeOK
  <2> QED
    BY <1>1, <1>2, <1>3, <2>1, <2>2 DEF IInv, TypeOK, Probes
<1>5. \A a \in Attempts : Alive(a)' => Alive(a)
  BY <1>1 DEF Alive
<1>6. \A t \in Threads : \/ step'[t] = step[t]
                         \/ t # Main /\ step'[t] = "idle"
                         \/ step'[t] = "test" /\ t = Sampler /\ vramKilled'
  BY <1>1, <1>2, ThreadFacts DEF IInv, TypeOK
<1> QED
  BY <1>1, <1>2, <1>4, <1>5, <1>6, NoOrphanKept, WatcherStep DEF IInv, Untouched

LEMMA DogStepInv ==
    ASSUME IInv, NEW a \in Attempts, DogStep(a)
    PROVE  IInv'
<1> USE DEF DogFrame, KillServer, children
<1>1. /\ UNCHANGED <<platform, main, attempt, cut, proc, log, guarded, jobbed, torn, raised, vramKilled, sampler,
                     probe, verdict>>
      /\ step' \in {step, [step EXCEPT ![a] = "idle"], [step EXCEPT ![a] = "test"]}
      /\ ramKilled' \in {ramKilled, TRUE}
      /\ stop' \in BOOLEAN
      /\ dog' \in {dog, [dog EXCEPT ![a] = "ended"], [dog EXCEPT ![a] = "report"]}
      /\ ramKilled' \/ step' \in {step, [step EXCEPT ![a] = "idle"]}
      /\ ramKilled => ramKilled'
  <2>1. CASE DogLeaves(a)
    BY <2>1 DEF DogLeaves, IInv, TypeOK
  <2>2. CASE DogKills(a)
    BY <2>2 DEF DogKills, IInv, TypeOK
  <2>3. CASE DogReports(a)
    BY <2>3 DEF DogReports, IInv, TypeOK
  <2>4. CASE DogReported(a)
    BY <2>4 DEF DogReported, IInv, TypeOK
  <2> QED
    BY <2>1, <2>2, <2>3, <2>4 DEF DogStep
<1>2. \/ server' = server /\ harness' = harness
      \/ platform = "linux" /\ harness' = "killed" /\ End(Attempts, "gone")
      \/ harness' = harness /\ End({a}, "zombie")
  BY DEF DogStep, DogLeaves, DogKills, DogReports, DogReported
<1>3. /\ server' \in [Attempts -> {"none", "loading", "ready", "zombie", "gone"}]
      /\ \A b \in Attempts : Alive(b)' => Alive(b) /\ harness' = harness
      /\ harness' \in {harness, "killed"}
  <2>1. CASE server' = server /\ harness' = harness
    BY <2>1 DEF IInv, TypeOK, Alive
  <2>2. CASE platform = "linux" /\ harness' = "killed" /\ End(Attempts, "gone")
    BY <2>2, EndType DEF IInv
  <2>3. CASE harness' = harness /\ End({a}, "zombie")
    BY <2>3, EndType DEF IInv
  <2> QED
    BY <1>2, <2>1, <2>2, <2>3
<1>4. TypeOK'
  <2>1. step' \in [Threads -> CleanSteps] /\ dog' \in [Attempts -> {"off", "poll", "report", "ended"}]
    BY <1>1 DEF IInv, TypeOK, CleanSteps
  <2>2. {log', torn', raised', vramKilled', ramKilled', stop'} \subseteq BOOLEAN
    BY <1>1 DEF IInv, TypeOK
  <2> QED
    BY <1>1, <1>3, <2>1, <2>2 DEF IInv, TypeOK
<1>5. NoOrphan'
  BY <1>1, <1>3 DEF IInv, NoOrphan
<1>6. \A t \in Threads : \/ step'[t] = step[t]
                         \/ t # Main /\ step'[t] = "idle"
                         \/ step'[t] = "test" /\ t \in Attempts /\ ramKilled'
  BY <1>1, ThreadFacts DEF IInv, TypeOK
<1> QED
  BY <1>1, <1>3, <1>4, <1>5, <1>6, WatcherStep DEF Untouched

LEMMA ServerStepInv ==
    ASSUME IInv, ServerStep
    PROVE  IInv'
<1>1. UNCHANGED <<platform, harness, main, attempt, cut, proc, log, guarded, jobbed, torn, raised, vramKilled,
                  ramKilled, stop, sampler, probe, dog, step, verdict>>
  BY DEF ServerStep, ServerReady, ServerDies, ServerFrame, flags
<1>2. /\ server' \in [Attempts -> {"none", "loading", "ready", "zombie", "gone"}]
      /\ \A b \in Attempts : Alive(b)' => Alive(b)
  <2>1. ASSUME NEW a \in Attempts, ServerReady(a)
        PROVE  <1>2!:
    BY <2>1 DEF ServerReady, IInv, TypeOK, Alive
  <2>2. ASSUME NEW a \in Attempts, ServerDies(a)
        PROVE  <1>2!:
    BY <2>2, EndType DEF ServerDies, IInv
  <2> QED
    BY <2>1, <2>2 DEF ServerStep
<1>3. TypeOK'
  BY <1>1, <1>2 DEF IInv, TypeOK
<1> QED
  BY <1>1, <1>2, <1>3, NoOrphanKept, WatcherStep DEF IInv, Untouched

\* Whatever ends the harness, the servers that outlive it are those that nothing bound to it.
LEMMA HarnessEnds ==
    ASSUME IInv, Crash \/ HarnessExit
    PROVE  IInv'
<1>1. /\ harness = "up"
      /\ UNCHANGED <<platform, main, attempt, cut, proc, log, guarded, jobbed, torn, raised, vramKilled, ramKilled,
                     stop, sampler, probe, dog, step, verdict>>
  BY DEF Crash, HarnessKilled, HarnessExit, flags
<1>2. \/ harness' = "killed" /\ End(Bound, "gone")
      \/ harness' = "exited" /\ main = "done" /\ End(Bound \cup guarded, "gone")
  BY DEF Crash, HarnessKilled, HarnessExit
<1>3. /\ server' \in [Attempts -> {"none", "loading", "ready", "zombie", "gone"}]
      /\ \A a \in Attempts : Alive(a)' => Alive(a) /\ a \notin Bound /\ (harness' = "exited" => a \notin guarded)
  <2>1. CASE harness' = "killed" /\ End(Bound, "gone")
    BY <2>1, EndType DEF IInv
  <2>2. CASE harness' = "exited" /\ main = "done" /\ End(Bound \cup guarded, "gone")
    BY <2>2, EndType DEF IInv
  <2> QED
    BY <1>2, <2>1, <2>2
<1>4. TypeOK'
  BY <1>1, <1>2, <1>3 DEF IInv, TypeOK
<1>5. NoOrphan'
  <2> SUFFICES ASSUME NEW a \in Attempts, Alive(a)'
               PROVE  /\ harness' = "killed"
                      /\ platform' = "darwin" \/ (platform' = "windows" /\ a \notin jobbed')
    BY DEF NoOrphan
  <2>1. platform \in {"linux", "windows", "darwin"}
    BY ServerRunnerAssumption DEF IInv, TypeOK
  <2>2. a \in guarded \/ (main = "attach" /\ attempt = a)
    BY <1>1, <1>3 DEF IInv, NoOrphan
  <2>3. platform # "linux" /\ (platform = "windows" => a \notin jobbed)
    BY <1>3 DEF Bound
  <2>4. harness' = "killed"
    BY <1>2, <1>3, <2>2
  <2> QED
    BY <1>1, <2>1, <2>3, <2>4
<1> QED
  BY <1>1, <1>3, <1>4, <1>5, WatcherStep DEF Untouched
-----------------------------------------------------------------------------
(* The main thread.                                                        *)

MainFrames == UNCHANGED <<platform, harness, vramKilled, ramKilled>> /\ harness = "up"

LEMMA MainFacts ==
    ASSUME IInv, MainStep
    PROVE  /\ MainFrames
           /\ cut' = cut
           /\ step' \in {step, [step EXCEPT ![Main] = "idle"], [step EXCEPT ![Main] = "test"]}
           /\ verdict' = verdict \/ Verdict
BY DEF MainStep, MainFrames, MainFrame, AtMain, Raise, KillServer, children,
   StartSampler, Refused, OpenLog, Spawn, SpawnFails, Attach, StartWatchdog, WaitTest, WaitPoll, WaitHealth,
   Judge, ReadLogTail, NextPort, LeaveWith, CleanupAll, Teardown, CleanupRaises, Verdict

\* What is alive after a step of the main thread.
LEMMA MainServers ==
    ASSUME IInv, MainStep
    PROVE  /\ server' \in [Attempts -> {"none", "loading", "ready", "zombie", "gone"}]
           /\ \A a \in Attempts : Alive(a)' => Alive(a) \/ (Spawn /\ a = attempt)
           /\ Teardown => \A a \in Attempts : ~Alive(a)'
<1> USE DEF IInv, TypeOK, Alive
<1>1. CASE Spawn
  BY <1>1 DEF Spawn, AtMain, AttemptAt, Teardown
<1>2. CASE Attach
  BY <1>2 DEF Attach, AtMain, Teardown
<1>3. CASE WaitPoll
  BY <1>3 DEF WaitPoll, AtMain, Teardown
<1>4. CASE Teardown
  <2>1. \A a \in Attempts : Alive(a)' => Alive(a) /\ a \notin guarded
    BY <1>4, EndType DEF Teardown
  <2>2. server' \in [Attempts -> {"none", "loading", "ready", "zombie", "gone"}]
    BY <1>4, EndType DEF Teardown
  <2>3. \A a \in Attempts : Alive(a) => a \in guarded
    BY <1>4 DEF NoOrphan, Teardown
  <2> QED
    BY <2>1, <2>2, <2>3
<1>5. CASE ~(Spawn \/ Attach \/ WaitPoll \/ Teardown)
  <2>1. server' = server
    BY <1>5 DEF MainStep, children, StartSampler, Refused, OpenLog, SpawnFails, StartWatchdog, WaitTest,
       WaitHealth, Judge, ReadLogTail, NextPort, LeaveWith, CleanupAll, CleanupRaises, Verdict
  <2> QED
    BY <1>5, <2>1
<1> QED
  BY <1>1, <1>2, <1>3, <1>4, <1>5

LEMMA MainType ==
    ASSUME IInv, MainStep
    PROVE  TypeOK'
<1> USE DEF AtMain, Raise
<1>1. step' \in [Threads -> CleanSteps]
  BY MainFacts DEF IInv, TypeOK, CleanSteps
<1>2. /\ main' \in {"new", "gate", "spawn", "attach", "watch", "wait", "poll", "health", "serving",
                    "judge", "flush", "next", "leave", "teardown", "verdict", "done"}
      /\ verdict' \in {"none", "ok", "error", "watchdog"}
      /\ sampler' \in {"off", "sample", "ended"} /\ probe' = probe
  BY DEF IInv, TypeOK, MainStep, StartSampler, Refused, OpenLog, Spawn, SpawnFails, Attach, StartWatchdog,
     WaitTest, WaitPoll, WaitHealth, Judge, ReadLogTail, NextPort, LeaveWith, CleanupAll, Teardown,
     CleanupRaises, Verdict
<1>3. attempt' \in 0..MaxAttempts
  <2>1. CASE OpenLog
    BY <2>1, ServerRunnerAssumption DEF IInv, AttemptAt, OpenLog
  <2>2. CASE NextPort
    BY <2>2, ServerRunnerAssumption DEF IInv, TypeOK, NextPort
  <2>3. CASE ~(OpenLog \/ NextPort)
    <3>1. attempt' = attempt
      BY <2>3 DEF MainStep, StartSampler, Refused, Spawn, SpawnFails, Attach, StartWatchdog, WaitTest, WaitPoll,
         WaitHealth, Judge, ReadLogTail, LeaveWith, CleanupAll, Teardown, CleanupRaises, Verdict
    <3> QED
      BY <3>1 DEF IInv, TypeOK
  <2> QED
    BY <2>1, <2>2, <2>3
<1>4. proc' \in Attempts \cup {NoServer} /\ guarded' \subseteq Attempts /\ jobbed' \subseteq Attempts
  BY DEF IInv, TypeOK, AttemptAt, MainStep, StartSampler, Refused, OpenLog, Spawn,
     SpawnFails, Attach, StartWatchdog, WaitTest, WaitPoll, WaitHealth, Judge, ReadLogTail, NextPort,
     LeaveWith, CleanupAll, Teardown, CleanupRaises, Verdict
<1>5. dog' \in [Attempts -> {"off", "poll", "report", "ended"}]
  <2>1. dog' = dog \/ dog' = [dog EXCEPT ![attempt] = "poll"]
    BY DEF MainStep, MainFrame, StartSampler, Refused, OpenLog, Spawn, SpawnFails, Attach, StartWatchdog,
       WaitTest, WaitPoll, WaitHealth, Judge, ReadLogTail, NextPort, LeaveWith, CleanupAll, Teardown,
       CleanupRaises, Verdict
  <2> QED
    BY <2>1 DEF IInv, TypeOK
<1>6. log' \in BOOLEAN /\ torn' \in BOOLEAN /\ raised' \in BOOLEAN /\ stop' \in BOOLEAN
  <2>1. log \in BOOLEAN /\ torn \in BOOLEAN /\ raised \in BOOLEAN /\ stop \in BOOLEAN
    BY DEF IInv, TypeOK
  <2> QED
    BY <2>1 DEF MainStep, StartSampler, Refused, OpenLog, Spawn, SpawnFails, Attach, StartWatchdog,
       WaitTest, WaitPoll, WaitHealth, Judge, ReadLogTail, NextPort, LeaveWith, CleanupAll, Teardown,
       CleanupRaises, Verdict
<1>7. vramKilled' \in BOOLEAN /\ ramKilled' \in BOOLEAN
  BY MainFacts DEF IInv, TypeOK, MainFrames
<1>8. {log', torn', raised', vramKilled', ramKilled', stop'} \subseteq BOOLEAN
  BY <1>6, <1>7
<1> QED
  BY <1>1, <1>2, <1>3, <1>4, <1>5, <1>8, MainFacts, MainServers DEF IInv, TypeOK, MainFrames

LEMMA MainStepInv ==
    ASSUME IInv, MainStep
    PROVE  IInv'
<1> USE MainFacts, MainServers DEF AtMain, Raise, MainFrames
<1>1. Owners'
  <2>1. step[Main]' \in {"idle", "test"} /\ (step[Main]' = "test" => main' \in {"next", "teardown"})
    <3>1. step \in [Threads -> CleanSteps]
      BY DEF IInv, TypeOK
    <3>2. CASE ReadLogTail \/ CleanupAll
      BY <3>1, <3>2, ThreadFacts DEF ReadLogTail, CleanupAll, KillServer
    <3>3. CASE NextPort \/ Teardown \/ CleanupRaises
      BY <3>1, <3>3, ThreadFacts DEF NextPort, Teardown, CleanupRaises
    <3>4. CASE ~(ReadLogTail \/ CleanupAll \/ NextPort \/ Teardown \/ CleanupRaises)
      <4>1. step[Main] = "idle" /\ step' = step
        BY <3>4 DEF MainStep, StartSampler, Refused, OpenLog, Spawn, SpawnFails, Attach, StartWatchdog,
           WaitTest, WaitPoll, WaitHealth, Judge, LeaveWith, Verdict
      <4> QED
        BY <4>1
    <3> QED
      BY <3>2, <3>3, <3>4
  <2>2. step[Sampler]' = step[Sampler] /\ \A a \in Attempts : step[a]' = step[a]
    BY ThreadFacts DEF IInv, TypeOK
  <2> QED
    BY <2>1, <2>2 DEF IInv, Owners
<1>2. AttemptAt'
  <2>1. CASE OpenLog
    BY <2>1, ServerRunnerAssumption DEF IInv, AttemptAt, Attempts, OpenLog
  <2>2. CASE NextPort
    BY <2>2, ServerRunnerAssumption DEF IInv, AttemptAt, Attempts, NextPort
  <2>3. CASE ~(OpenLog \/ NextPort)
    <3>1. attempt' = attempt /\ (main' \in {"new", "gate"} => main = "new")
      BY <2>3 DEF MainStep, StartSampler, Refused, Spawn, SpawnFails, Attach, StartWatchdog, WaitTest, WaitPoll,
         WaitHealth, Judge, ReadLogTail, LeaveWith, CleanupAll, Teardown, CleanupRaises, Verdict
    <3>2. main \in {"new", "gate"} => main' \in {"new", "gate", "verdict", "done"}
      BY <2>3 DEF MainStep, StartSampler, Refused, Spawn, SpawnFails, Attach, StartWatchdog, WaitTest, WaitPoll,
         WaitHealth, Judge, ReadLogTail, LeaveWith, CleanupAll, Teardown, CleanupRaises, Verdict
    <3>3. main \in {"verdict", "done"} => main' \in {"verdict", "done"}
      BY <2>3 DEF MainStep, StartSampler, Refused, Spawn, SpawnFails, Attach, StartWatchdog, WaitTest, WaitPoll,
         WaitHealth, Judge, ReadLogTail, LeaveWith, CleanupAll, Teardown, CleanupRaises, Verdict
    <3> QED
      BY <3>1, <3>2, <3>3 DEF IInv, AttemptAt
  <2> QED
    BY <2>1, <2>2, <2>3
<1>3. LatestAlive'
  <2>1. CASE Spawn
    BY <2>1 DEF IInv, LatestAlive, Spawn
  <2>2. CASE OpenLog \/ StartSampler \/ Refused \/ SpawnFails
    BY <2>2 DEF IInv, LatestAlive, OpenLog, StartSampler, Refused, SpawnFails, Spawn
  <2>3. CASE NextPort
    BY <2>3 DEF IInv, LatestAlive, AttemptAt, FailOver, NextPort, Spawn
  <2>4. CASE ~(Spawn \/ OpenLog \/ StartSampler \/ Refused \/ SpawnFails \/ NextPort)
    BY <2>4 DEF IInv, LatestAlive, MainStep, Attach, StartWatchdog, WaitTest, WaitPoll, WaitHealth, Judge,
       ReadLogTail, LeaveWith, CleanupAll, Teardown, CleanupRaises, Verdict
  <2> QED
    BY <2>1, <2>2, <2>3, <2>4
<1>4. HandlesKept'
  BY DEF IInv, HandlesKept, MainStep, StartSampler, Refused, OpenLog,
     Spawn, SpawnFails, Attach, StartWatchdog, WaitTest, WaitPoll, WaitHealth, Judge, ReadLogTail, NextPort,
     LeaveWith, CleanupAll, Teardown, CleanupRaises, Verdict
<1>5. FailOver'
  <2>1. CASE Judge /\ main' = "flush"
    <3>1. ~vramKilled /\ ~ramKilled /\ proc = attempt /\ log /\ attempt \in Attempts
      BY <2>1 DEF IInv, HandlesKept, AttemptAt, Judge
    <3>2. \A t \in Threads : step[t] = "idle"
      BY <2>1, <3>1, ThreadFacts DEF IInv, Owners, Judge
    <3>3. UNCHANGED <<proc, log, attempt, step>>
      BY <2>1 DEF Judge
    <3> QED
      BY <2>1, <3>1, <3>2, <3>3, ThreadFacts DEF FailOver
  <2>2. CASE ReadLogTail /\ main' = "next"
    <3>1. UNCHANGED <<proc, attempt, server>> /\ step' = [step EXCEPT ![Main] = "test"] /\ main = "flush"
      BY <2>2 DEF ReadLogTail, KillServer, children
    <3> QED
      BY <2>2, <3>1, ThreadFacts DEF IInv, FailOver, TypeOK, Alive
  <2>3. CASE main' \notin {"flush", "next"}
    BY <2>3 DEF FailOver
  <2>4. main' = "flush" => Judge
    BY DEF MainStep, StartSampler, Refused, OpenLog, Spawn, SpawnFails, Attach, StartWatchdog,
       WaitTest, WaitPoll, WaitHealth, ReadLogTail, NextPort, LeaveWith, CleanupAll, Teardown, CleanupRaises,
       Verdict
  <2>5. main' = "next" => ReadLogTail
    BY DEF MainStep, StartSampler, Refused, OpenLog, Spawn, SpawnFails, Attach, StartWatchdog,
       WaitTest, WaitPoll, WaitHealth, Judge, NextPort, LeaveWith, CleanupAll, Teardown, CleanupRaises,
       Verdict
  <2> QED
    BY <2>1, <2>2, <2>3, <2>4, <2>5
<1>6. HandleAtEnd'
  <2>1. CASE Refused \/ SpawnFails
    BY <2>1 DEF IInv, LatestAlive, HandleAtEnd, TypeOK, Refused, SpawnFails, Spawn
  <2>2. CASE StartWatchdog \/ WaitPoll
    BY <2>2 DEF HandleAtEnd, StartWatchdog, WaitPoll
  <2>3. CASE ReadLogTail
    BY <2>3 DEF IInv, FailOver, HandleAtEnd, ReadLogTail
  <2>4. CASE CleanupRaises
    BY <2>4 DEF IInv, Owners, HandleAtEnd, CleanupRaises
  <2>5. CASE Teardown
    BY <2>5 DEF IInv, TypeOK, HandleAtEnd, Teardown
  <2>6. CASE Verdict
    <3>1. UNCHANGED <<proc, server>> /\ main = "verdict"
      BY <2>6 DEF Verdict, children
    <3> QED
      BY <3>1 DEF IInv, HandleAtEnd, Alive
  <2>7. CASE ~(Refused \/ SpawnFails \/ StartWatchdog \/ WaitPoll \/ ReadLogTail \/ CleanupRaises
               \/ Teardown \/ Verdict)
    <3>1. main' \notin {"verdict", "done"}
      BY <2>7 DEF MainStep, StartSampler, OpenLog, Spawn, Attach, WaitTest, WaitHealth, Judge, NextPort,
         LeaveWith, CleanupAll
    <3> QED
      BY <3>1 DEF HandleAtEnd
  <2> QED
    BY <2>1, <2>2, <2>3, <2>4, <2>5, <2>6, <2>7
<1>7. NoOrphan'
  <2>1. CASE Spawn
    BY <2>1 DEF IInv, NoOrphan, LatestAlive, Spawn
  <2>2. CASE Attach
    BY <2>2 DEF IInv, NoOrphan, LatestAlive, Attach, Spawn
  <2>3. CASE Teardown
    BY <2>3 DEF NoOrphan
  <2>4. CASE ~(Spawn \/ Attach \/ Teardown)
    <3>1. guarded' = guarded /\ main # "attach"
      BY <2>4 DEF MainStep, StartSampler, Refused, OpenLog, SpawnFails, StartWatchdog, WaitTest, WaitPoll,
         WaitHealth, Judge, ReadLogTail, NextPort, LeaveWith, CleanupAll, CleanupRaises, Verdict,
         IInv, Owners
    <3> QED
      BY <2>4, <3>1 DEF IInv, NoOrphan
  <2> QED
    BY <2>1, <2>2, <2>3, <2>4
<1>8. (Reported /\ KillIsReported)'
  <2>1. CASE Verdict
    BY <2>1 DEF IInv, Reported, KillIsReported, Verdict
  <2>2. CASE ~Verdict
    <3>1. main # "done"
      BY <2>2 DEF MainStep, StartSampler, Refused, OpenLog, Spawn, SpawnFails, Attach, StartWatchdog,
         WaitTest, WaitPoll, WaitHealth, Judge, ReadLogTail, NextPort, LeaveWith, CleanupAll, Teardown,
         CleanupRaises, IInv, Owners
    <3> QED
      BY <2>2, <3>1 DEF IInv, Reported, KillIsReported
  <2> QED
    BY <2>1, <2>2
<1> QED
  BY <1>1, <1>2, <1>3, <1>4, <1>5, <1>6, <1>7, <1>8, MainType DEF IInv

LEMMA Stutter == IInv /\ UNCHANGED vars => IInv'
BY DEF vars, IInv, TypeOK, Owners, AttemptAt, LatestAlive, HandlesKept, FailOver, HandleAtEnd, NoOrphan,
   Reported, KillIsReported, Alive

LEMMA InductiveInvariant == Spec => []IInv
<1>1. IInv /\ [Next]_vars => IInv'
  BY MainStepInv, SamplerStepInv, DogStepInv, CleanupStepInv, ServerStepInv, HarnessEnds, Stutter
     DEF Next, DogSteps, CleanupStep
<1> QED
  BY <1>1, InitInv, PTL DEF Spec

-----------------------------------------------------------------------------
(* What is left behind, and the life of a server that a Trial may rely on. *)

\* While no flag is raised, the main thread cleans up alone: the handle it has tested stays.
MainAlone ==
    ~vramKilled /\ ~ramKilled =>
        step[Main] # "error" /\ (step[Main] \in {"kill", "wait"} => proc # NoServer)

\* After an __enter__ or an __exit__ that raised nothing, and when no monitor interfered, no server
\* is left.
NoneLeft ==
    main \in {"verdict", "done"} /\ (~raised \/ (~vramKilled /\ ~ramKilled)) => \A a \in Attempts : ~Alive(a)

LeftInv == IInv /\ MainAlone /\ NoneLeft

LEMMA InitLeft == Init => LeftInv
BY InitInv, ThreadFacts DEF Init, LeftInv, MainAlone, NoneLeft

WatchSteps == SamplerStep \/ DogSteps \/ ServerStep \/ Crash \/ HarnessExit

\* The watchers, the servers and the end of the harness leave the main thread and its handle alone.
MainUntouched ==
    /\ UNCHANGED <<main, attempt, proc, raised, verdict>> /\ step'[Main] = step[Main]
    /\ vramKilled => vramKilled'
    /\ ramKilled => ramKilled'
    /\ UNCHANGED vramKilled \/ UNCHANGED ramKilled
    /\ \A a \in Attempts : Alive(a)' => Alive(a)

LEMMA WatchersFacts ==
    ASSUME IInv, WatchSteps
    PROVE  MainUntouched
<1>1. step \in [Threads -> CleanSteps] /\ vramKilled \in BOOLEAN /\ ramKilled \in BOOLEAN
  BY DEF IInv, TypeOK
<1>2. CASE SamplerStep
  <2>1. /\ UNCHANGED <<main, attempt, proc, raised, verdict, server, ramKilled>>
        /\ step' \in {step, [step EXCEPT ![Sampler] = "idle"], [step EXCEPT ![Sampler] = "test"]}
        /\ vramKilled => vramKilled'
    BY <1>2 DEF SamplerStep, ProbeMisses, ProbeWorks, NvmlFails, SmiMissing, CudaFreeExhausted,
       UsedAboveCeiling, SharedExceeded, SamplerKilled, SamplerStops, SamplerFrame, KillServer, children
  <2> QED
    BY <1>1, <2>1, ThreadFacts DEF Alive, MainUntouched
<1>3. ASSUME NEW b \in Attempts, DogStep(b)
      PROVE  MainUntouched
  <2>1. /\ UNCHANGED <<main, attempt, proc, raised, verdict, vramKilled>>
        /\ step' \in {step, [step EXCEPT ![b] = "idle"], [step EXCEPT ![b] = "test"]}
        /\ ramKilled => ramKilled'
    BY <1>3 DEF DogStep, DogLeaves, DogKills, DogReports, DogReported, DogFrame, KillServer
  <2>2. \/ UNCHANGED server
        \/ End(Attempts, "gone")
        \/ End({b}, "zombie")
    BY <1>3 DEF DogStep, DogLeaves, DogKills, DogReports, DogReported, children
  <2>3. \A a \in Attempts : Alive(a)' => Alive(a)
    BY <2>2, EndType DEF IInv, Alive
  <2> QED
    BY <1>1, <2>1, <2>3, ThreadFacts DEF MainUntouched
<1>4. CASE ServerStep
  <2>1. UNCHANGED <<main, attempt, proc, raised, verdict, vramKilled, ramKilled, step>>
    BY <1>4 DEF ServerStep, ServerReady, ServerDies, ServerFrame, flags
  <2>2. ASSUME NEW b \in Attempts, ServerReady(b)
        PROVE  \A a \in Attempts : Alive(a)' => Alive(a)
    BY <2>2 DEF ServerReady, IInv, TypeOK, Alive
  <2>3. ASSUME NEW b \in Attempts, ServerDies(b)
        PROVE  \A a \in Attempts : Alive(a)' => Alive(a)
    BY <2>3, EndType DEF ServerDies, IInv
  <2> QED
    BY <1>4, <2>1, <2>2, <2>3 DEF ServerStep, MainUntouched
<1>5. CASE Crash \/ HarnessExit
  <2>1. UNCHANGED <<main, attempt, proc, raised, verdict, vramKilled, ramKilled, step>>
    BY <1>5 DEF Crash, HarnessKilled, HarnessExit, flags
  <2>2. End(Bound, "gone") \/ End(Bound \cup guarded, "gone")
    BY <1>5 DEF Crash, HarnessKilled, HarnessExit
  <2>3. \A a \in Attempts : Alive(a)' => Alive(a)
    BY <2>2, EndType DEF IInv
  <2> QED
    BY <2>1, <2>3 DEF MainUntouched
<1> QED
  BY <1>2, <1>3, <1>4, <1>5 DEF WatchSteps, DogSteps

LEMMA WatchersLeft ==
    ASSUME LeftInv, WatchSteps
    PROVE  (MainAlone /\ NoneLeft)'
<1>1. IInv
  BY DEF LeftInv
<1>2. MainAlone'
  BY <1>1, WatchersFacts DEF LeftInv, MainAlone, MainUntouched
<1>3. NoneLeft'
  BY <1>1, WatchersFacts DEF LeftInv, NoneLeft, MainUntouched
<1> QED
  BY <1>2, <1>3

LEMMA CleanupLeft ==
    ASSUME LeftInv, NEW t \in Threads, Cleanup(t)
    PROVE  (MainAlone /\ NoneLeft)'
<1>1. IInv /\ TypeOK
  BY DEF LeftInv, IInv
<1>2. UNCHANGED <<main, raised, vramKilled, ramKilled, verdict>>
  BY DEF Cleanup, flags
<1>3. /\ \A a \in Attempts : Alive(a)' => Alive(a)
      /\ \A u \in Threads : u # t => step'[u] = step[u]
      /\ step[t] \notin {"idle", "done", "error"}
  BY <1>1, CleanupType
<1>4. MainAlone'
  <2> SUFFICES ASSUME ~vramKilled, ~ramKilled
               PROVE  step'[Main] # "error" /\ (step'[Main] \in {"kill", "wait"} => proc' # NoServer)
    BY <1>2 DEF MainAlone
  <2>1. t = Main
    BY <1>1, <1>3, ThreadFacts DEF IInv, Owners
  <2>2. step[Main] \in {"kill", "wait"} => proc # NoServer
    BY DEF LeftInv, MainAlone
  <2> QED
    BY <1>1, <2>1, <2>2, CleanCases
<1>5. NoneLeft'
  BY <1>2, <1>3 DEF LeftInv, NoneLeft
<1> QED
  BY <1>4, <1>5

\* The main thread only gets to the verdict past a server that is gone, or raises after a flag.
LEMMA MainLeft ==
    ASSUME LeftInv, MainStep
    PROVE  (MainAlone /\ NoneLeft)'
<1> USE DEF AtMain, Raise
<1>1. IInv /\ TypeOK /\ step \in [Threads -> CleanSteps]
  BY DEF LeftInv, IInv, TypeOK
<1>2. /\ UNCHANGED <<vramKilled, ramKilled>>
      /\ \A a \in Attempts : Alive(a)' => Alive(a) \/ (Spawn /\ a = attempt)
      /\ Teardown => \A a \in Attempts : ~Alive(a)'
      /\ step' \in {step, [step EXCEPT ![Main] = "idle"], [step EXCEPT ![Main] = "test"]}
  BY <1>1, MainFacts, MainServers DEF MainFrames
<1>3. MainAlone'
  <2>1. CASE step' = step
    <3>1. step[Main] = "idle"
      BY <1>1, <2>1, ThreadFacts DEF MainStep, StartSampler, Refused, OpenLog, Spawn, SpawnFails, Attach,
         StartWatchdog, WaitTest, WaitPoll, WaitHealth, Judge, ReadLogTail, NextPort, LeaveWith, CleanupAll,
         Teardown, CleanupRaises, Verdict, KillServer
    <3> QED
      BY <2>1, <3>1 DEF MainAlone
  <2>2. CASE step' # step
    <3>1. step'[Main] \in {"idle", "test"}
      BY <1>1, <1>2, <2>2, ThreadFacts
    <3> QED
      BY <3>1 DEF MainAlone
  <2> QED
    BY <2>1, <2>2
<1>4. NoneLeft'
  <2> SUFFICES ASSUME main' \in {"verdict", "done"}, ~raised' \/ (~vramKilled /\ ~ramKilled)
               PROVE  \A a \in Attempts : ~Alive(a)'
    BY <1>2 DEF NoneLeft
  <2>1. CASE Refused \/ SpawnFails
    BY <1>1, <1>2, <2>1 DEF IInv, LatestAlive, Refused, SpawnFails, Spawn
  <2>2. CASE StartWatchdog \/ WaitPoll
    <3>1. proc = NoServer /\ raised' /\ main \in {"watch", "poll"}
      BY <2>2 DEF StartWatchdog, WaitPoll
    <3>2. proc = attempt /\ attempt \in Attempts
      BY <1>1, <3>1 DEF IInv, HandlesKept, AttemptAt
    <3> QED
      BY <3>1, <3>2, ThreadFacts
  <2>3. CASE ReadLogTail
    <3>1. ~log /\ main = "flush"
      BY <2>3 DEF ReadLogTail
    <3>2. ~Alive(attempt)
      BY <1>1, <3>1 DEF IInv, FailOver
    <3> QED
      BY <1>1, <1>2, <3>1, <3>2 DEF IInv, LatestAlive, Spawn
  <2>4. CASE CleanupRaises
    BY <2>4 DEF CleanupRaises, LeftInv, MainAlone
  <2>5. CASE Teardown
    BY <1>2, <2>5
  <2>6. CASE Verdict
    <3>1. UNCHANGED <<raised, server>> /\ main = "verdict"
      BY <2>6 DEF Verdict, children
    <3> QED
      BY <1>2, <3>1 DEF LeftInv, NoneLeft, Alive
  <2> QED
    BY <2>1, <2>2, <2>3, <2>4, <2>5, <2>6 DEF MainStep, StartSampler, OpenLog, Spawn, Attach, WaitTest,
       WaitHealth, Judge, NextPort, LeaveWith, CleanupAll
<1> QED
  BY <1>3, <1>4

LEMMA LeftInvariant == Spec => []LeftInv
<1>1. LeftInv /\ UNCHANGED vars => (MainAlone /\ NoneLeft)'
  BY DEF vars, LeftInv, MainAlone, NoneLeft, Alive
<1>2. LeftInv /\ [Next]_vars => (MainAlone /\ NoneLeft)'
  BY <1>1, WatchersLeft, CleanupLeft, MainLeft DEF Next, WatchSteps, CleanupStep
<1>3. IInv /\ IInv' /\ LeftInv /\ [Next]_vars => LeftInv'
  BY <1>2 DEF LeftInv
<1> QED
  BY <1>3, InitLeft, InductiveInvariant, PTL DEF Spec

-----------------------------------------------------------------------------
\* The threads, their servers and handles are in the states the code has (llama_runner.py).
THEOREM TypeCorrect == Spec => []TypeOK
BY InductiveInvariant, PTL DEF IInv

\* A fail-over never loads the model beside a server that still runs (LlamaServerRunner.__enter__
\* against the clean-ups of the sampler and the watchdogs).
THEOREM OneServerAtATime == Spec => []OneServer
<1>1. IInv => OneServer
  BY ThreadFacts DEF IInv, LatestAlive, OneServer
<1> QED
  BY <1>1, InductiveInvariant, PTL

\* The guard knows every live server, but for the moment after its start, and the harness is outlived
\* on macOS, and on Windows by a server that is not in the Job Object, because it was not registered
\* yet or its assignment failed (process_guard.py, attach and _assign_to_job).
THEOREM NobodyOrphaned == Spec => []NoOrphan
BY InductiveInvariant, PTL DEF IInv

\* No clean verdict over a server that the sampler ended (run_trial and _start_vram_sampler).
THEOREM KillsAreReported == Spec => []KillIsReported
BY InductiveInvariant, PTL DEF IInv

LEMMA LifeInit == Init => Life!Init
BY DEF Init, Life!Init, Phase, Live, Flagged, Alive

LEMMA LiveShrinks ==
    ASSUME \A a \in Attempts : Alive(a)' => Alive(a)
    PROVE  Live' \subseteq Live
BY DEF Live

\* Where the phase stands still and nothing is started, a server may fall and a flag may be raised.
LEMMA WatchedStep ==
    ASSUME IInv, UNCHANGED <<Phase, verdict>>,
           vramKilled => vramKilled', ramKilled => ramKilled', UNCHANGED vramKilled \/ UNCHANGED ramKilled,
           {vramKilled', ramKilled'} \subseteq BOOLEAN,
           \A a \in Attempts : Alive(a)' => Alive(a)
    PROVE  Life!Next \/ UNCHANGED Life!vars
<1>1. Live' \subseteq Live
  BY LiveShrinks
<1>2. vramKilled \in BOOLEAN /\ ramKilled \in BOOLEAN
  BY DEF IInv, TypeOK
<1>3. CASE Flagged' = Flagged
  <2>1. CASE Live' = Live
    BY <1>3, <2>1 DEF Life!vars
  <2>2. CASE Live' # Live
    BY <1>1, <1>3, <2>2 DEF Life!Next, Life!Fall
  <2> QED
    BY <2>1, <2>2
<1>4. CASE vramKilled' # vramKilled /\ UNCHANGED ramKilled
  <2>1. ~vramKilled /\ vramKilled'
    BY <1>2, <1>4
  <2>2. "vram" \notin Flagged /\ Flagged' = Flagged \cup {"vram"}
    BY <1>4, <2>1 DEF Flagged
  <2> QED
    BY <1>1, <2>2 DEF Life!Next, Life!Flag, Life!Monitors
<1>5. CASE ramKilled' # ramKilled /\ UNCHANGED vramKilled
  <2>1. ~ramKilled /\ ramKilled'
    BY <1>2, <1>5
  <2>2. "ram" \notin Flagged /\ Flagged' = Flagged \cup {"ram"}
    BY <1>5, <2>1 DEF Flagged
  <2> QED
    BY <1>1, <2>2 DEF Life!Next, Life!Flag, Life!Monitors
<1>6. UNCHANGED <<vramKilled, ramKilled>> => Flagged' = Flagged
  BY DEF Flagged
<1> QED
  BY <1>3, <1>4, <1>5, <1>6

LEMMA WatchersLife ==
    ASSUME IInv, IInv', WatchSteps
    PROVE  Life!Next \/ UNCHANGED Life!vars
<1>1. {vramKilled', ramKilled'} \subseteq BOOLEAN
  BY DEF IInv, TypeOK
<1>2. UNCHANGED <<main, verdict>>
  BY WatchersFacts DEF MainUntouched
<1>3. UNCHANGED Phase
  BY <1>2 DEF Phase
<1> QED
  BY <1>1, <1>2, <1>3, WatchersFacts, WatchedStep DEF MainUntouched

LEMMA CleanupLife ==
    ASSUME IInv, IInv', NEW t \in Threads, Cleanup(t)
    PROVE  Life!Next \/ UNCHANGED Life!vars
<1>1. {vramKilled', ramKilled'} \subseteq BOOLEAN
  BY DEF IInv, TypeOK
<1>2. UNCHANGED <<main, verdict, vramKilled, ramKilled>>
  BY DEF Cleanup, flags
<1>3. UNCHANGED Phase
  BY <1>2 DEF Phase
<1>4. \A a \in Attempts : Alive(a)' => Alive(a)
  BY CleanupType DEF IInv
<1> QED
  BY <1>1, <1>2, <1>3, <1>4, WatchedStep

\* How the main thread moves between the phases.
LEMMA MainPhases ==
    ASSUME IInv, MainStep, ~Spawn, ~Verdict
    PROVE  \/ Phase' = Phase
           \/ Phase = "starting" /\ Phase' = "serving" /\ UNCHANGED server
           \/ Phase \in {"starting", "serving"} /\ Phase' = "leaving" /\ UNCHANGED server
<1> USE DEF Phase, AtMain, Raise, children
<1>1. CASE StartSampler \/ OpenLog \/ Attach \/ WaitTest \/ CleanupAll \/ Teardown
  BY <1>1 DEF StartSampler, OpenLog, Attach, WaitTest, CleanupAll, Teardown
<1>2. CASE Refused \/ SpawnFails \/ StartWatchdog
  BY <1>2 DEF Refused, SpawnFails, StartWatchdog
<1>3. CASE WaitPoll \/ WaitHealth
  BY <1>3 DEF WaitPoll, WaitHealth
<1>4. CASE Judge \/ ReadLogTail \/ NextPort \/ LeaveWith
  BY <1>4 DEF Judge, ReadLogTail, NextPort, LeaveWith
<1>5. CASE CleanupRaises
  <2>1. main \in {"next", "teardown"}
    BY <1>5 DEF CleanupRaises, IInv, Owners
  <2> QED
    BY <1>5, <2>1 DEF CleanupRaises
<1> QED
  BY <1>1, <1>2, <1>3, <1>4, <1>5 DEF MainStep

LEMMA MainLife ==
    ASSUME LeftInv, IInv', MainStep
    PROVE  Life!Next \/ UNCHANGED Life!vars
<1>1. IInv /\ UNCHANGED <<vramKilled, ramKilled>> /\ {vramKilled', ramKilled'} \subseteq BOOLEAN
  BY MainFacts DEF LeftInv, IInv, TypeOK, MainFrames
<1>2. Flagged' = Flagged
  BY <1>1 DEF Flagged
<1>3. CASE Spawn
  <2>1. main = "spawn" /\ main' = "attach" /\ server' = [server EXCEPT ![attempt] = "loading"]
        /\ attempt \in Attempts /\ UNCHANGED verdict
    BY <1>1, <1>3 DEF Spawn, AtMain, IInv, AttemptAt
  <2>2. Live = {}
    BY <1>1, <2>1 DEF IInv, LatestAlive, Live
  <2>3. Live' = {attempt}
    BY <1>1, <2>1, <2>2 DEF Live, Alive, IInv, TypeOK
  <2>4. Phase = "starting" /\ UNCHANGED Phase
    BY <2>1 DEF Phase
  <2> QED
    BY <1>2, <2>1, <2>2, <2>3, <2>4 DEF Life!Next, Life!Load
<1>4. CASE Verdict
  <2>1. /\ main = "verdict" /\ main' = "done" /\ UNCHANGED <<server, raised>>
        /\ verdict' = IF vramKilled THEN "watchdog" ELSE IF raised THEN "error" ELSE "ok"
    BY <1>4 DEF Verdict, AtMain, children
  <2>2. Phase = "leaving" /\ Phase' = "over"
    BY <2>1 DEF Phase
  <2>3. Live' = Live
    BY <2>1 DEF Live, Alive
  <2>4. "vram" \in Flagged <=> vramKilled
    BY DEF Flagged
  <2>5. ASSUME Flagged = {} \/ verdict' = "ok"
        PROVE  Live' = {}
    <3>1. ~raised \/ (~vramKilled /\ ~ramKilled)
      BY <2>1, <2>5 DEF Flagged
    <3> QED
      BY <2>1, <2>3, <3>1 DEF LeftInv, NoneLeft, Live
  <2>6. verdict' \in Life!Verdicts /\ (verdict' = "watchdog" <=> "vram" \in Flagged)
    BY <2>1, <2>4 DEF Life!Verdicts
  <2> QED
    BY <1>2, <2>2, <2>3, <2>5, <2>6 DEF Life!Next, Life!Over
<1>5. CASE ~Spawn /\ ~Verdict
  <2>1. UNCHANGED verdict /\ \A a \in Attempts : Alive(a)' => Alive(a)
    BY <1>1, <1>5, MainFacts, MainServers
  <2>2. UNCHANGED server => UNCHANGED Live
    BY DEF Live, Alive
  <2>3. CASE Phase' = Phase
    BY <1>1, <2>1, <2>3, WatchedStep
  <2>4. CASE Phase = "starting" /\ Phase' = "serving" /\ UNCHANGED server
    BY <1>2, <2>1, <2>2, <2>4 DEF Life!Next, Life!Serve
  <2>5. CASE Phase \in {"starting", "serving"} /\ Phase' = "leaving" /\ UNCHANGED server
    BY <1>2, <2>1, <2>2, <2>5 DEF Life!Next, Life!Leave
  <2> QED
    BY <1>1, <1>5, <2>3, <2>4, <2>5, MainPhases
<1> QED
  BY <1>3, <1>4, <1>5

\* A runner keeps the life of a server that a Trial relies on, under every interleaving of its
\* threads (LlamaServerRunner.__enter__, __exit__ and their clean-ups, read by run_trial).
THEOREM RunnerImplementsLife == Spec => ImplementsLife
<1>1. LeftInv /\ IInv' /\ [Next]_vars => [Life!Next]_(Life!vars)
  <2> SUFFICES ASSUME LeftInv, IInv', [Next]_vars
               PROVE  Life!Next \/ UNCHANGED Life!vars
    OBVIOUS
  <2>1. IInv
    BY DEF LeftInv
  <2>2. CASE UNCHANGED vars
    BY <2>2 DEF vars, Life!vars, Phase, Live, Flagged, Alive
  <2>3. CASE Next
    BY <2>1, <2>3, WatchersLife, CleanupLife, MainLife DEF Next, WatchSteps, CleanupStep
  <2> QED
    BY <2>2, <2>3
<1>2. LeftInv => IInv
  BY DEF LeftInv
<1> QED
  BY <1>1, <1>2, LifeInit, LeftInvariant, PTL DEF Spec, ImplementsLife, Life!Spec

-----------------------------------------------------------------------------
(* The threads of a runner that was cleaned up run out of steps.           *)

\* A thread cleans up where its own code has led it to, and a watchdog is only started for the last
\* server; who has torn the guard down has told the sampler to stop.
Busy ==
    /\ main = "new" => sampler = "off"
    /\ main = "teardown" => stop
    /\ torn => stop /\ main \in {"verdict", "done"}
    /\ step[Sampler] # "idle" => sampler = "sample"
    /\ \A a \in Attempts :
         /\ step[a] # "idle" => dog[a] = "report"
         /\ dog[a] # "off" => a < attempt \/ (a = attempt /\ main \notin {"spawn", "attach", "watch"})

\* What a thread has still to do: of its clean-up, and of its own.
StepLeft(t) ==
    CASE step[t] = "test" -> 7
      [] step[t] = "kill" -> 6
      [] step[t] = "wait" -> 5
      [] step[t] = "drop" -> 4
      [] step[t] = "log" -> 3
      [] step[t] \in {"done", "error"} -> 2
      [] OTHER -> 1
SamplerLeft == IF sampler = "sample" THEN StepLeft(Sampler) ELSE 0
DogLeft(a) ==
    CASE dog[a] = "poll" -> 9
      [] dog[a] = "report" /\ step[a] = "idle" -> 8
      [] dog[a] = "report" /\ step[a] # "idle" -> StepLeft(a)
      [] OTHER -> 0

LEMMA InitBusy == Init => Busy
BY ThreadFacts DEF Init, Busy

LEMMA SamplerFacts ==
    ASSUME IInv, Busy, SamplerStep
    PROVE  /\ UNCHANGED <<main, attempt, torn, dog>> /\ (stop => stop')
           /\ \A t \in Threads : t # Sampler => step'[t] = step[t]
           /\ sampler = "sample" /\ sampler' \in {"sample", "ended"}
           /\ step'[Sampler] # "idle" => sampler' = "sample"
           /\ stop => \/ step[Sampler] = "idle" /\ step'[Sampler] = "idle" /\ sampler' = "ended"
                      \/ step[Sampler] \in {"done", "error"} /\ step'[Sampler] = "idle"
<1>1. step \in [Threads -> CleanSteps] /\ stop \in BOOLEAN /\ Sampler \in Threads
  BY ThreadFacts DEF IInv, TypeOK
<1> USE <1>1 DEF SamplerFrame, Sampling, KillServer
<1>2. CASE ProbeMisses \/ ProbeWorks \/ NvmlFails \/ SmiMissing
  BY <1>2 DEF ProbeMisses, ProbeWorks, NvmlFails, SmiMissing
<1>3. CASE CudaFreeExhausted \/ UsedAboveCeiling \/ SharedExceeded
  BY <1>3 DEF CudaFreeExhausted, UsedAboveCeiling, SharedExceeded
<1>4. CASE SamplerKilled \/ SamplerStops
  BY <1>4 DEF SamplerKilled, SamplerStops, Busy
<1> QED
  BY <1>2, <1>3, <1>4 DEF SamplerStep

LEMMA DogFacts ==
    ASSUME IInv, NEW a \in Attempts, DogStep(a)
    PROVE  /\ UNCHANGED <<main, attempt, torn, sampler>> /\ (stop => stop')
           /\ \A t \in Threads : t # a => step'[t] = step[t]
           /\ \A b \in Attempts : b # a => dog'[b] = dog[b]
           /\ \/ dog[a] = "poll" /\ dog'[a] \in {"report", "ended"} /\ step'[a] = step[a]
              \/ dog[a] = "report" /\ step[a] = "idle" /\ dog'[a] = "report" /\ step'[a] = "test"
              \/ dog[a] = "report" /\ step[a] = "idle" /\ dog'[a] = "ended" /\ step'[a] = "idle"
              \/ step[a] \in {"done", "error"} /\ step'[a] = "idle" /\ dog'[a] = "ended"
<1>1. /\ step \in [Threads -> CleanSteps] /\ stop \in BOOLEAN /\ a \in Threads
      /\ dog \in [Attempts -> {"off", "poll", "report", "ended"}]
  BY ThreadFacts DEF IInv, TypeOK
<1>2. CASE DogLeaves(a) \/ DogKills(a)
  BY <1>1, <1>2 DEF DogLeaves, DogKills, DogFrame
<1>3. CASE DogReports(a) \/ DogReported(a)
  BY <1>1, <1>3 DEF DogReports, DogReported, DogFrame, KillServer
<1> QED
  BY <1>2, <1>3 DEF DogStep

LEMMA CleanupFacts ==
    ASSUME IInv, NEW t \in Threads, Cleanup(t)
    PROVE  /\ UNCHANGED <<main, attempt, torn, sampler, dog, stop>>
           /\ \A u \in Threads : u # t => step'[u] = step[u]
           /\ step[t] \notin {"idle", "done", "error"} /\ step'[t] # "idle"
           /\ StepLeft(t)' < StepLeft(t)
<1>1. UNCHANGED <<main, attempt, torn, sampler, dog, stop>>
  BY DEF Cleanup, flags
<1>2. \/ step[t] = "test" /\ step'[t] \in {"log", "kill"}
      \/ step[t] = "kill" /\ step'[t] \in {"error", "wait"}
      \/ step[t] = "wait" /\ step'[t] \in {"error", "drop"}
      \/ step[t] = "drop" /\ step'[t] = "log"
      \/ step[t] = "log" /\ step'[t] = "done"
  BY CleanCases DEF IInv
<1>3. \A u \in Threads : u # t => step'[u] = step[u]
  BY CleanupType DEF IInv
<1>4. StepLeft(t)' < StepLeft(t)
  BY <1>2 DEF StepLeft
<1> QED
  BY <1>1, <1>2, <1>3, <1>4

\* Neither the servers nor the end of the harness touch the threads.
LEMMA OutsideFacts ==
    ASSUME ServerStep \/ Crash \/ HarnessExit \/ UNCHANGED vars
    PROVE  UNCHANGED <<main, attempt, torn, sampler, dog, step, stop>>
BY DEF ServerStep, ServerReady, ServerDies, ServerFrame, Crash, HarnessKilled, HarnessExit, flags, vars

LEMMA MainBusy ==
    ASSUME IInv, Busy, MainStep
    PROVE  /\ Busy'
           /\ torn => UNCHANGED <<torn, sampler, dog, step>>
<1> USE DEF AtMain, Raise, MainFrame, KillServer
<1>1. /\ step \in [Threads -> CleanSteps] /\ dog \in [Attempts -> {"off", "poll", "report", "ended"}]
      /\ attempt \in Nat
  BY ServerRunnerAssumption DEF IInv, TypeOK
<1>2. step'[Sampler] = step[Sampler] /\ \A a \in Attempts : step'[a] = step[a]
  BY <1>1, MainFacts, ThreadFacts
<1>3. CASE StartSampler
  BY <1>2, <1>3 DEF StartSampler, Busy
<1>4. CASE OpenLog \/ NextPort
  <2>1. attempt' \in {attempt, attempt + 1} /\ (attempt' = attempt => main' \notin {"spawn", "attach", "watch"})
        /\ main' \in {"spawn", "leave"} /\ UNCHANGED <<torn, stop, sampler, dog>> /\ ~torn
    BY <1>1, <1>4 DEF OpenLog, NextPort, Busy
  <2>2. ASSUME NEW a \in Attempts, dog[a] # "off"
        PROVE  a < attempt' \/ (a = attempt' /\ main' \notin {"spawn", "attach", "watch"})
    BY <1>1, <2>1, <2>2, ThreadFacts DEF Busy
  <2> QED
    BY <1>2, <2>1, <2>2 DEF Busy
<1>5. CASE StartWatchdog
  <2>1. main = "watch" /\ UNCHANGED <<attempt, torn, stop, sampler>> /\ attempt \in Attempts
        /\ main' \in {"verdict", "wait"} /\ dog' \in {dog, [dog EXCEPT ![attempt] = "poll"]}
    BY <1>5 DEF StartWatchdog, IInv, AttemptAt
  <2>2. dog[attempt] = "off"
    BY <1>1, <2>1 DEF Busy
  <2>3. step[attempt] = "idle"
    BY <2>1, <2>2 DEF Busy
  <2>4. \A a \in Attempts : a # attempt => dog'[a] = dog[a]
    BY <1>1, <2>1
  <2>5. ASSUME NEW a \in Attempts
        PROVE  /\ step'[a] # "idle" => dog'[a] = "report"
               /\ dog'[a] # "off" => a < attempt' \/ (a = attempt' /\ main' \notin {"spawn", "attach", "watch"})
    BY <1>2, <2>1, <2>3, <2>4 DEF Busy
  <2> QED
    BY <1>2, <2>1, <2>5 DEF Busy
<1>6. CASE Refused \/ Spawn \/ SpawnFails \/ Attach \/ WaitTest \/ WaitPoll \/ WaitHealth \/ Judge
            \/ ReadLogTail \/ LeaveWith
  <2>1. /\ UNCHANGED <<attempt, torn, stop, sampler, dog>> /\ ~torn /\ main # "new"
        /\ main' \notin {"new", "teardown"}
        /\ main' \in {"spawn", "attach", "watch"} => main \in {"spawn", "attach", "watch"}
    BY <1>6 DEF Refused, Spawn, SpawnFails, Attach, WaitTest, WaitPoll, WaitHealth, Judge, ReadLogTail,
       LeaveWith, Busy
  <2>2. ASSUME NEW a \in Attempts
        PROVE  /\ step'[a] # "idle" => dog'[a] = "report"
               /\ dog'[a] # "off" => a < attempt' \/ (a = attempt' /\ main' \notin {"spawn", "attach", "watch"})
    BY <1>2, <2>1 DEF Busy
  <2> QED
    BY <1>2, <2>1, <2>2 DEF Busy
<1>7. CASE CleanupAll \/ Teardown \/ CleanupRaises \/ Verdict
  <2>1. UNCHANGED <<attempt, sampler, dog>> /\ main' \in {"teardown", "verdict", "done"} /\ main # "new"
        /\ (main' = "teardown" => stop') /\ (stop => stop') /\ (torn' => torn \/ (stop' /\ main' = "verdict"))
        /\ (torn => main' \in {"verdict", "done"})
    BY <1>7, ThreadFacts DEF CleanupAll, Teardown, CleanupRaises, Verdict, Busy, IInv, Owners
  <2>2. torn => UNCHANGED <<torn, sampler, dog, step>>
    BY <1>7 DEF CleanupAll, Teardown, CleanupRaises, Verdict, Busy, IInv, Owners
  <2> QED
    BY <1>2, <2>1, <2>2 DEF Busy
<1> QED
  BY <1>3, <1>4, <1>5, <1>6, <1>7 DEF MainStep, Busy

Watching == SamplerStep \/ DogSteps \/ CleanupStep \/ ServerStep \/ Crash \/ HarnessExit \/ UNCHANGED vars

LEMMA WatchingBusy ==
    ASSUME IInv, Busy, Watching
    PROVE  Busy' /\ UNCHANGED <<torn, main>>
<1>1. CASE SamplerStep
  BY <1>1, SamplerFacts, ThreadFacts DEF Busy
<1>2. ASSUME NEW a \in Attempts, DogStep(a)
      PROVE  Busy' /\ UNCHANGED <<torn, main>>
  <2>1. /\ step'[Sampler] = step[Sampler] /\ \A b \in Attempts : b # a => step'[b] = step[b]
        /\ step'[a] # "idle" => dog'[a] = "report"
        /\ dog'[a] # "off" => dog[a] # "off"
    BY <1>2, DogFacts, ThreadFacts DEF Busy
  <2> QED
    BY <1>2, <2>1, DogFacts DEF Busy
<1>3. ASSUME NEW t \in Threads, Cleanup(t)
      PROVE  Busy' /\ UNCHANGED <<torn, main>>
  BY <1>3, CleanupFacts, ThreadFacts DEF Busy
<1>4. CASE ServerStep \/ Crash \/ HarnessExit \/ UNCHANGED vars
  BY <1>4, OutsideFacts DEF Busy
<1> QED
  BY <1>1, <1>2, <1>3, <1>4 DEF Watching, DogSteps, CleanupStep

\* Nothing sets a thread back once the guard is torn down.
LEMMA ThreadsLower ==
    ASSUME IInv, Busy, torn, [Next]_vars
    PROVE  /\ torn'
           /\ SamplerLeft' <= SamplerLeft /\ \A a \in Attempts : DogLeft(a)' <= DogLeft(a)
           /\ SamplerStep \/ Cleanup(Sampler) => SamplerLeft' < SamplerLeft
           /\ \A a \in Attempts : DogStep(a) \/ Cleanup(a) => DogLeft(a)' < DogLeft(a)
<1>1. stop /\ main \in {"verdict", "done"}
  BY DEF Busy
<1>2. \A t : StepLeft(t) \in 1..7
  BY DEF StepLeft
<1>3. SamplerLeft \in 0..7 /\ \A a \in Attempts : DogLeft(a) \in 0..9
  BY <1>2 DEF SamplerLeft, DogLeft
<1>4. torn'
  BY MainBusy, WatchingBusy DEF Next, Watching
<1>5. \A t : step'[t] = step[t] => StepLeft(t)' = StepLeft(t)
  BY DEF StepLeft
<1>6. ASSUME UNCHANGED <<sampler>>, step'[Sampler] = step[Sampler]
      PROVE  SamplerLeft' = SamplerLeft
  BY <1>5, <1>6 DEF SamplerLeft
<1>7. ASSUME NEW a \in Attempts, dog'[a] = dog[a], step'[a] = step[a]
      PROVE  DogLeft(a)' = DogLeft(a)
  BY <1>5, <1>7 DEF DogLeft
<1>8. SamplerStep => SamplerLeft' < SamplerLeft
  BY <1>1, SamplerFacts DEF SamplerLeft, StepLeft
<1>9. Cleanup(Sampler) => SamplerLeft' < SamplerLeft
  BY CleanupFacts, ThreadFacts DEF SamplerLeft, Busy
<1>10. ASSUME NEW a \in Attempts, DogStep(a)
       PROVE  DogLeft(a)' < DogLeft(a)
  <2>1. step[a] # "idle" => dog[a] = "report"
    BY DEF Busy
  <2>2. \/ dog[a] = "poll" /\ dog'[a] = "ended"
        \/ dog[a] = "poll" /\ dog'[a] = "report" /\ step'[a] = "idle"
        \/ dog[a] = "report" /\ step[a] = "idle" /\ dog'[a] = "report" /\ step'[a] = "test"
        \/ dog[a] = "report" /\ dog'[a] = "ended"
    BY <1>10, <2>1, DogFacts
  <2>3. StepLeft(a) > 0 /\ (step'[a] = "test" => StepLeft(a)' = 7)
    BY <1>2 DEF StepLeft
  <2> QED
    BY <2>2, <2>3 DEF DogLeft
<1>11. ASSUME NEW a \in Attempts, Cleanup(a)
       PROVE  DogLeft(a)' < DogLeft(a)
  <2>1. dog[a] = "report" /\ UNCHANGED dog /\ step[a] # "idle" /\ step'[a] # "idle"
        /\ StepLeft(a)' < StepLeft(a)
    BY <1>11, CleanupFacts, ThreadFacts DEF Busy
  <2> QED
    BY <2>1 DEF DogLeft
<1>12. ASSUME NEW a \in Attempts, ~DogStep(a), ~Cleanup(a)
       PROVE  dog'[a] = dog[a] /\ step'[a] = step[a]
  <2>1. CASE MainStep
    BY <2>1, MainBusy
  <2>2. CASE SamplerStep
    BY <2>2, SamplerFacts, ThreadFacts
  <2>3. ASSUME NEW b \in Attempts, DogStep(b)
        PROVE  dog'[a] = dog[a] /\ step'[a] = step[a]
    BY <1>12, <2>3, DogFacts, ThreadFacts
  <2>4. ASSUME NEW t \in Threads, Cleanup(t)
        PROVE  dog'[a] = dog[a] /\ step'[a] = step[a]
    BY <1>12, <2>4, CleanupFacts, ThreadFacts
  <2>5. CASE ServerStep \/ Crash \/ HarnessExit \/ UNCHANGED vars
    BY <2>5, OutsideFacts
  <2> QED
    BY <2>1, <2>2, <2>3, <2>4, <2>5 DEF Next, DogSteps, CleanupStep
<1>13. ASSUME ~SamplerStep, ~Cleanup(Sampler)
       PROVE  sampler' = sampler /\ step'[Sampler] = step[Sampler]
  <2>1. CASE MainStep
    BY <2>1, MainBusy
  <2>2. ASSUME NEW b \in Attempts, DogStep(b)
        PROVE  sampler' = sampler /\ step'[Sampler] = step[Sampler]
    BY <2>2, DogFacts, ThreadFacts
  <2>3. ASSUME NEW t \in Threads, Cleanup(t)
        PROVE  sampler' = sampler /\ step'[Sampler] = step[Sampler]
    BY <1>13, <2>3, CleanupFacts, ThreadFacts
  <2>4. CASE ServerStep \/ Crash \/ HarnessExit \/ UNCHANGED vars
    BY <2>4, OutsideFacts
  <2> QED
    BY <1>13, <2>1, <2>2, <2>3, <2>4 DEF Next, DogSteps, CleanupStep
<1>14. SamplerLeft' <= SamplerLeft
  <2>1. SamplerLeft' = SamplerLeft \/ SamplerLeft' < SamplerLeft
    BY <1>6, <1>8, <1>9, <1>13
  <2>2. SamplerLeft' \in Nat
    BY DEF SamplerLeft, StepLeft
  <2> QED
    BY <1>3, <2>1, <2>2
<1>15. ASSUME NEW a \in Attempts
       PROVE  DogLeft(a)' <= DogLeft(a)
  <2>1. DogLeft(a)' = DogLeft(a) \/ DogLeft(a)' < DogLeft(a)
    BY <1>7, <1>10, <1>11, <1>12
  <2>2. DogLeft(a)' \in Nat
    BY DEF DogLeft, StepLeft
  <2> QED
    BY <1>3, <2>1, <2>2
<1> QED
  BY <1>4, <1>8, <1>9, <1>10, <1>11, <1>14, <1>15

\* After the guard is torn down no thread can go on for ever: each has at most a number of own steps
\* left that every one of them lowers and that no other step raises, and a thread without any has
\* ended (the stop event, the exits of _maybe_kill_ram and of the sampler's loop).
THEOREM ThreadsRunOut ==
    /\ Spec => [](/\ SamplerLeft \in 0..7 /\ (SamplerLeft = 0 => sampler \in {"off", "ended"})
                  /\ \A a \in Attempts : DogLeft(a) \in 0..9 /\ (DogLeft(a) = 0 => dog[a] \in {"off", "ended"}))
    /\ Spec => [][torn =>
                    /\ torn'
                    /\ SamplerLeft' <= SamplerLeft /\ \A a \in Attempts : DogLeft(a)' <= DogLeft(a)
                    /\ SamplerStep \/ Cleanup(Sampler) => SamplerLeft' < SamplerLeft
                    /\ \A a \in Attempts : DogStep(a) \/ Cleanup(a) => DogLeft(a)' < DogLeft(a)]_vars
<1>1. IInv => /\ SamplerLeft \in 0..7 /\ (SamplerLeft = 0 => sampler \in {"off", "ended"})
              /\ \A a \in Attempts : DogLeft(a) \in 0..9 /\ (DogLeft(a) = 0 => dog[a] \in {"off", "ended"})
  <2> SUFFICES ASSUME IInv
               PROVE  /\ SamplerLeft \in 0..7 /\ (SamplerLeft = 0 => sampler \in {"off", "ended"})
                      /\ \A a \in Attempts : DogLeft(a) \in 0..9 /\ (DogLeft(a) = 0 => dog[a] \in {"off", "ended"})
    OBVIOUS
  <2>1. \A t : StepLeft(t) \in 1..7
    BY DEF StepLeft
  <2>2. SamplerLeft \in 0..7 /\ (SamplerLeft = 0 => sampler \in {"off", "ended"})
    BY <2>1 DEF SamplerLeft, IInv, TypeOK
  <2>3. ASSUME NEW a \in Attempts
        PROVE  DogLeft(a) \in 0..9 /\ (DogLeft(a) = 0 => dog[a] \in {"off", "ended"})
    <3>1. dog[a] \in {"off", "poll", "report", "ended"}
      BY DEF IInv, TypeOK
    <3> QED
      BY <2>1, <3>1 DEF DogLeft
  <2> QED
    BY <2>2, <2>3
<1>2. IInv /\ Busy /\ [Next]_vars => Busy'
  BY MainBusy, WatchingBusy DEF Next, Watching
<1>3. IInv /\ Busy /\ [Next]_vars =>
        [torn =>
           /\ torn'
           /\ SamplerLeft' <= SamplerLeft /\ \A a \in Attempts : DogLeft(a)' <= DogLeft(a)
           /\ SamplerStep \/ Cleanup(Sampler) => SamplerLeft' < SamplerLeft
           /\ \A a \in Attempts : DogStep(a) \/ Cleanup(a) => DogLeft(a)' < DogLeft(a)]_vars
  BY ThreadsLower
<1>4. Spec => []Busy
  BY <1>2, InitBusy, InductiveInvariant, PTL DEF Spec
<1> QED
  BY <1>1, <1>3, <1>4, InductiveInvariant, PTL DEF Spec
=============================================================================
