------------------------------- MODULE Launch -------------------------------
(***************************************************************************)
(* Starting servers on one machine: the runners of a Trial for llama.cpp   *)
(* and SGLang (llama_runner.py, sglang_runner.py) and the alias launcher   *)
(* (model_up.py).  A launch passes the single-load gate (single_load.py),  *)
(* sweeps leftovers off the harness ports (process_guard.py), starts its   *)
(* server and waits for it.  A Trial's server ends with the Trial; that of *)
(* an alias stays and is known by the state file alone.                    *)
(*                                                                         *)
(* A server is named by the launch that started it.  What goes on inside   *)
(* one llama.cpp runner is ServerRunner's.                                 *)
(***************************************************************************)
EXTENDS Naturals, Sequences, FiniteSets

CONSTANTS
    Launches,       \* the launches
    Plans,          \* what is launched, and how
    Candidates,     \* the ports a runner tries, in order
    HarnessPorts,   \* the ports the gate and the sweep look at
    Nobody          \* no process

ASSUME LaunchAssumption ==
    /\ Nobody \notin Launches
    /\ Candidates \in Seq(Nat) /\ Candidates # <<>>
    /\ \A p \in Plans :
         /\ p.kind \in [Launches -> {"llama", "sglang", "alias"}]
         /\ p.multi \in [Launches -> BOOLEAN]
         /\ {p.orderly, p.tools} \subseteq BOOLEAN

VARIABLES
    plan,       \* kind and allow-multi of each launch; orderly: one launch at a time;
                \* tools: lsof and ps, or netstat and tasklist, are there; foreign: ports that
                \* other programs hold
    pc,         \* the stage of each launch
    tried,      \* the place of its port among the candidates
    server,     \* its server: "none", "loading", "bound", "ready", "closing" or "gone"
    doomed,     \* what its sweep has found and not yet killed
    state       \* the pid in model_up's state file

vars == <<plan, pc, tried, server, doomed, state>>

Init ==
    /\ plan \in Plans
    /\ pc = [l \in Launches |-> "idle"]
    /\ tried = [l \in Launches |-> 1]
    /\ server = [l \in Launches |-> "none"]
    /\ doomed = [l \in Launches |-> {}]
    /\ state = Nobody

Is(l, kind) == plan.kind[l] = kind
Alive(s) == server[s] \in {"loading", "bound", "ready", "closing"}
Listens(s) == server[s] \in {"bound", "ready", "closing"}
PortOf(l) == Candidates[tried[l]]
PortUsed(p) == p \in plan.foreign \/ \E s \in Launches : Listens(s) /\ PortOf(s) = p
Healthy(p) == \E s \in Launches : server[s] = "ready" /\ PortOf(s) = p

\* Until its server answers, a launch is under way.  The launcher may be gone before the server it
\* started has a port ("lost" when killed, "warned" when out of patience), and then nothing shows
\* the next launch that there is one.
UnderWay(l) == pc[l] \in {"probe", "gate", "sweep", "spawn", "record", "wait"}
LeftLoading(l) == pc[l] \in {"lost", "warned"}
Settled == \A l \in Launches : ~UnderWay(l) /\ (server[l] = "loading" => LeftLoading(l))

Step(l, stage) == pc' = [pc EXCEPT ![l] = stage]

Begin(l) ==
    /\ pc[l] = "idle"
    /\ plan.orderly => Settled
    /\ Step(l, IF Is(l, "alias") THEN "probe" ELSE "gate")
    /\ UNCHANGED <<plan, tried, server, doomed, state>>

\* cmd_start: a healthy server on the port is taken for the alias, and a busy port is refused.
Probe(l) ==
    /\ pc[l] = "probe"
    /\ Step(l, IF Healthy(PortOf(l)) \/ PortUsed(PortOf(l)) THEN "done" ELSE "gate")
    /\ UNCHANGED <<plan, tried, server, doomed, state>>

(***************************************************************************)
(* The gate and the sweep see the processes that listen on a harness port  *)
(* and bear a server's name.  SGLang's server is started as a module of    *)
(* the Python interpreter, and its process bears the interpreter's name:   *)
(* neither sees it.  Tools that are not there find nothing, and the gate   *)
(* opens.                                                                  *)
(***************************************************************************)
Named(s) == ~Is(s, "sglang")
Live == IF plan.tools THEN {s \in Launches : Listens(s) /\ Named(s) /\ PortOf(s) \in HarnessPorts} ELSE {}

\* Mutant: the gate is for Trials only.
GateOfTrials(l) ==
    /\ pc[l] = "gate"
    /\ Step(l, IF ~plan.multi[l] /\ ~Is(l, "alias") /\ Live # {} THEN "refused"
               ELSE IF Is(l, "alias") \/ plan.multi[l] THEN "spawn"
               ELSE "sweep")
    /\ UNCHANGED <<plan, tried, server, doomed, state>>

\* Mutant: whoever is there is swept away.
GateOpen(l) ==
    /\ pc[l] = "gate"
    /\ Step(l, IF Is(l, "alias") \/ plan.multi[l] THEN "spawn" ELSE "sweep")
    /\ UNCHANGED <<plan, tried, server, doomed, state>>

\* enforce_single_load.  The alias launcher does not sweep, nor does anyone with allow-multi.
Gate(l) ==
    /\ pc[l] = "gate"
    /\ Step(l, IF ~plan.multi[l] /\ Live # {} THEN "refused"
               ELSE IF Is(l, "alias") \/ plan.multi[l] THEN "spawn"
               ELSE "sweep")
    /\ UNCHANGED <<plan, tried, server, doomed, state>>

\* cleanup_leftover_processes: who is there is found first, and killed after.
Sweep(l) ==
    /\ pc[l] = "sweep" /\ doomed[l] = {}
    /\ doomed' = [doomed EXCEPT ![l] = Live]
    /\ Step(l, IF Live = {} THEN "spawn" ELSE "sweep")
    /\ UNCHANGED <<plan, tried, server, state>>

SweepKills(l, s) ==
    /\ pc[l] = "sweep" /\ s \in doomed[l]
    /\ server' = [server EXCEPT ![s] = "gone"]
    /\ doomed' = [doomed EXCEPT ![l] = @ \ {s}]
    /\ Step(l, IF doomed[l] = {s} THEN "spawn" ELSE "sweep")
    /\ UNCHANGED <<plan, tried, state>>

(***************************************************************************)
(* The start.  SGLang's runner passes over a port that is in use; that of  *)
(* llama.cpp starts a server there, which ends when it cannot bind.        *)
(***************************************************************************)
\* Mutant: one candidate more than there are.
NextPortBeyond(l) ==
    IF tried[l] <= Len(Candidates)
    THEN tried' = [tried EXCEPT ![l] = @ + 1] /\ Step(l, "spawn")
    ELSE Step(l, "done") /\ UNCHANGED tried

\* Mutant: after the last candidate the first one again.
NextPortAround(l) ==
    /\ tried' = [tried EXCEPT ![l] = IF @ < Len(Candidates) THEN @ + 1 ELSE 1]
    /\ Step(l, "spawn")

\* The next candidate, or the failure of the launch.
NextPort(l) ==
    IF tried[l] < Len(Candidates)
    THEN tried' = [tried EXCEPT ![l] = @ + 1] /\ Step(l, "spawn")
    ELSE Step(l, "done") /\ UNCHANGED tried

PassOver(l) ==
    /\ pc[l] = "spawn"
    /\ Is(l, "sglang") /\ PortUsed(PortOf(l))
    /\ NextPort(l)
    /\ UNCHANGED <<plan, server, doomed, state>>

Spawn(l) ==
    /\ pc[l] = "spawn"
    /\ ~(Is(l, "sglang") /\ PortUsed(PortOf(l)))
    /\ server' = [server EXCEPT ![l] = "loading"]
    /\ Step(l, IF Is(l, "alias") THEN "record" ELSE "wait")
    /\ UNCHANGED <<plan, tried, doomed, state>>

\* _write_state, after the process is there.
Record(l) ==
    /\ pc[l] = "record"
    /\ state' = l
    /\ Step(l, "wait")
    /\ UNCHANGED <<plan, tried, server, doomed>>

\* Whoever answers on the port will do.
Answered(l) ==
    /\ pc[l] = "wait"
    /\ Healthy(PortOf(l))
    /\ Step(l, IF Is(l, "alias") THEN "done" ELSE "serving")
    /\ UNCHANGED <<plan, tried, server, doomed, state>>

\* llama.cpp's runner tries the next port after a server that ended; SGLang's and the alias
\* launcher give up.
Ended(l) ==
    /\ pc[l] = "wait" /\ ~Alive(l)
    /\ IF Is(l, "llama") THEN NextPort(l) ELSE Step(l, "done") /\ UNCHANGED tried
    /\ UNCHANGED <<plan, server, doomed, state>>

\* The runner gives up on a server that does not get ready and ends it; the alias launcher warns
\* and leaves it alone.  SGLang's runner has no deadline.
TimesOut(l) ==
    /\ pc[l] = "wait" /\ Alive(l) /\ ~Is(l, "sglang")
    /\ ~Healthy(PortOf(l))
    /\ IF Is(l, "llama")
       THEN NextPort(l) /\ server' = [server EXCEPT ![l] = "gone"]
       ELSE /\ Step(l, IF server[l] = "loading" THEN "warned" ELSE "done")
            /\ UNCHANGED <<tried, server>>
    /\ UNCHANGED <<plan, doomed, state>>

\* The Trial is over and its guard torn down.
Close(l) ==
    /\ pc[l] = "serving"
    /\ Step(l, "done")
    /\ server' = [server EXCEPT ![l] = IF Alive(l) THEN "gone" ELSE @]
    /\ UNCHANGED <<plan, tried, doomed, state>>

\* The launcher is killed.  An alias is detached and outlives it; the server of a Trial does where
\* the system does not bind it to its parent.
LauncherDies(l) ==
    /\ UnderWay(l) \/ pc[l] = "serving"
    /\ \/ Step(l, IF server[l] = "loading" THEN "lost" ELSE "killed") /\ UNCHANGED server
       \/ /\ ~Is(l, "alias") /\ Alive(l)
          /\ Step(l, "killed")
          /\ server' = [server EXCEPT ![l] = "gone"]
    /\ doomed' = [doomed EXCEPT ![l] = {}]
    /\ UNCHANGED <<plan, tried, state>>

(***************************************************************************)
(* model_up's other commands.  Stopping asks the process to end, which one *)
(* without a port does at once, and forgets it; status forgets a process   *)
(* that is gone.                                                           *)
(***************************************************************************)
Stop ==
    /\ state # Nobody
    /\ plan.orderly => Settled
    /\ server' = [server EXCEPT ![state] = IF Listens(state) THEN "closing" ELSE "gone"]
    /\ state' = Nobody
    /\ UNCHANGED <<plan, pc, tried, doomed>>

\* Mutant: an alias that does not answer yet is forgotten.
StatusOfUnready ==
    /\ state # Nobody /\ server[state] # "ready"
    /\ state' = Nobody
    /\ UNCHANGED <<plan, pc, tried, server, doomed>>

Status ==
    /\ state # Nobody /\ ~Alive(state)
    /\ state' = Nobody
    /\ UNCHANGED <<plan, pc, tried, server, doomed>>

(***************************************************************************)
(* The servers.                                                            *)
(***************************************************************************)
Binds(s) ==
    /\ server[s] = "loading"
    /\ server' = [server EXCEPT ![s] = IF PortUsed(PortOf(s)) THEN "gone" ELSE "bound"]
    /\ UNCHANGED <<plan, pc, tried, doomed, state>>

Loads(s) ==
    /\ server[s] = "bound"
    /\ server' = [server EXCEPT ![s] = "ready"]
    /\ UNCHANGED <<plan, pc, tried, doomed, state>>

Dies(s) ==
    /\ Alive(s)
    /\ server' = [server EXCEPT ![s] = "gone"]
    /\ UNCHANGED <<plan, pc, tried, doomed, state>>

LaunchStep(l) ==
    \/ Probe(l) \/ Gate(l) \/ Sweep(l) \/ (\E s \in Launches : SweepKills(l, s))
    \/ PassOver(l) \/ Spawn(l) \/ Record(l) \/ Answered(l) \/ Ended(l) \/ TimesOut(l)

Next ==
    \/ \E l \in Launches : Begin(l) \/ LaunchStep(l) \/ Close(l) \/ LauncherDies(l)
    \/ Stop \/ Status
    \/ \E s \in Launches : Binds(s) \/ Loads(s) \/ Dies(s)

Spec == Init /\ [][Next]_vars

\* A launch under way is scheduled, and its deadline comes.  Nothing makes a server load.
FairSpec == Spec /\ \A l \in Launches : WF_vars(LaunchStep(l))

(***************************************************************************)
(* Properties                                                              *)
(***************************************************************************)
\* Types, and: only the sweep of a launch has found victims.
TypeOK ==
    /\ plan \in Plans
    /\ pc \in [Launches -> {"idle", "probe", "gate", "refused", "sweep", "spawn", "record", "wait",
                            "serving", "done", "killed", "lost", "warned"}]
    /\ tried \in [Launches -> 1..Len(Candidates)]
    /\ server \in [Launches -> {"none", "loading", "bound", "ready", "closing", "gone"}]
    /\ doomed \in [Launches -> SUBSET Launches]
    /\ \A l \in Launches : doomed[l] # {} => pc[l] = "sweep"
    /\ state \in Launches \cup {Nobody}

\* Launches that come one after the other, none of them with allow-multi, never hold two models of
\* llama.cpp: while such a server lives, no other launch gets as far as starting one, also when its
\* launcher was killed or gave it up.  Excepted are the servers that the gate cannot see: those of
\* SGLang, whatever their port; one that failed over to a port it does not look at (two of the ports
\* a runner tries by default are such); and one whose launcher was gone before it had a port.
OneFullServer ==
    plan.orderly /\ plan.tools =>
        \A a, b \in Launches :
            /\ a # b
            /\ \A s \in {a, b} : Alive(s) /\ Named(s) /\ PortOf(s) \in HarnessPorts /\ ~LeftLoading(s)
            => plan.multi[a] \/ plan.multi[b]

\* The sweep is for leftovers: all that a launch in a row with others ever kills is a server whose
\* launcher was gone before it had a port, which the gate could not see; never one that a Trial or
\* an alias is using.
SiblingsSpared ==
    [][plan.orderly =>
        \A l, s \in Launches : s \in doomed[l] /\ s \notin doomed'[l] /\ UnderWay(l)' => LeftLoading(s)]_vars

\* A running alias can be stopped: the state file names it, except when its launcher was killed
\* before it had seen it ready, or when another alias was started after it, which takes
\* allow-multi, or a launcher that gave it up before it had a port.
AliasTracked ==
    plan.orderly /\ plan.tools =>
        \A s \in Launches :
            Is(s, "alias") /\ server[s] \in {"loading", "bound", "ready"} =>
                \/ state = s
                \/ pc[s] \in {"record", "killed", "lost"}
                \/ \E l \in Launches \ {s} :
                     Is(l, "alias") /\ server[l] # "none" /\ (plan.multi[l] \/ pc[s] = "warned")

\* A launch of llama.cpp comes to an end: it is refused, serves, or runs out of ports.
LaunchesSettle == \A l \in Launches : (UnderWay(l) /\ ~Is(l, "sglang")) ~> ~UnderWay(l)
=============================================================================
