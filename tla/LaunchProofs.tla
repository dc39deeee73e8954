---------------------------- MODULE LaunchProofs ----------------------------
(***************************************************************************)
(* Servers on one machine, for any number of launches of any kind, any     *)
(* ports, and other programs on them.                                      *)
(***************************************************************************)
EXTENDS Launch, FiniteSetTheorems, WellFoundedInduction, TLAPS

\* A server is started by its launch, once its last one has ended, and an alias has one port.
ServerOfLaunch ==
    \A l \in Launches :
        /\ pc[l] \in {"idle", "probe", "gate", "refused", "sweep", "spawn"} => ~Alive(l)
        /\ Is(l, "alias") => tried[l] = 1
        /\ pc[l] = "record" => Is(l, "alias") /\ server[l] # "none"

\* Orderly launches wait for each other, but not for a server whose launcher is gone.
OneAtATime ==
    plan.orderly =>
        \A l \in Launches : UnderWay(l) =>
            \A s \in Launches : s # l => ~UnderWay(s) /\ (server[s] = "loading" => LeftLoading(s))

\* A server that the next launch sees, or that is waited for until it has bound its port.
Visible(s) == Alive(s) /\ Named(s) /\ PortOf(s) \in HarnessPorts /\ ~LeftLoading(s)

\* Past the gate, a launch without allow-multi is alone.
AloneAfterGate ==
    plan.orderly /\ plan.tools =>
        \A l, s \in Launches :
            pc[l] \in {"sweep", "spawn", "record", "wait"} /\ ~plan.multi[l] /\ s # l => ~Visible(s)

\* What an orderly sweep finds are servers that had no port when the gate looked: it has refused
\* the launch for any other.
LeftDoomed ==
    plan.orderly => \A l \in Launches :
        /\ \A s \in doomed[l] : LeftLoading(s)
        /\ pc[l] = "sweep" => ~plan.multi[l]

IInv == TypeOK /\ ServerOfLaunch /\ OneAtATime /\ AloneAfterGate /\ LeftDoomed /\ OneFullServer

-----------------------------------------------------------------------------
LEMMA PlanType ==
    ASSUME TypeOK
    PROVE  /\ plan.kind \in [Launches -> {"llama", "sglang", "alias"}]
           /\ plan.multi \in [Launches -> BOOLEAN]
           /\ plan.orderly \in BOOLEAN /\ plan.tools \in BOOLEAN
BY LaunchAssumption DEF TypeOK

LEMMA InitInv == Init => IInv
<1> SUFFICES ASSUME Init
             PROVE  IInv
  OBVIOUS
<1>1. TypeOK
  BY LaunchAssumption DEF Init, TypeOK
<1> QED
  BY <1>1 DEF Init, IInv, ServerOfLaunch, OneAtATime, AloneAfterGate, LeftDoomed, OneFullServer,
     Alive, UnderWay, LeftLoading, Visible

LEMMA NextPortType ==
    ASSUME TypeOK, NEW l \in Launches, NextPort(l)
    PROVE  /\ tried' \in [Launches -> 1..Len(Candidates)]
           /\ pc' \in {[pc EXCEPT ![l] = "spawn"], [pc EXCEPT ![l] = "done"]}
<1>1. tried[l] \in 1..Len(Candidates) /\ Len(Candidates) \in Nat
  BY LaunchAssumption DEF TypeOK
<1>2. tried[l] < Len(Candidates) => tried[l] + 1 \in 1..Len(Candidates)
  BY <1>1
<1> QED
  BY <1>2 DEF TypeOK, NextPort, Step

LEMMA TypeStep ==
    ASSUME TypeOK, Next
    PROVE  TypeOK'
<1>1. ASSUME NEW l \in Launches, Begin(l) \/ LaunchStep(l) \/ Close(l) \/ LauncherDies(l)
      PROVE  TypeOK'
  <2>1. CASE Begin(l) \/ Probe(l) \/ Gate(l) \/ Record(l) \/ Answered(l)
    BY <2>1 DEF TypeOK, Begin, Probe, Gate, Record, Answered, Step
  <2>2. CASE Sweep(l) \/ \E s \in Launches : SweepKills(l, s)
    <3>1. CASE Sweep(l)
      BY <3>1 DEF TypeOK, Sweep, Step, Live
    <3>2. ASSUME NEW s \in Launches, SweepKills(l, s)
          PROVE  TypeOK'
      BY <3>2 DEF TypeOK, SweepKills, Step
    <3> QED
      BY <2>2, <3>1, <3>2
  <2>3. CASE PassOver(l) \/ Spawn(l) \/ Ended(l) \/ TimesOut(l)
    <3>1. CASE PassOver(l)
      BY <3>1, NextPortType DEF TypeOK, PassOver
    <3>2. CASE Spawn(l)
      BY <3>2 DEF TypeOK, Spawn, Step
    <3>3. CASE Ended(l)
      BY <3>3, NextPortType DEF TypeOK, Ended, Step
    <3>4. CASE TimesOut(l)
      BY <3>4, NextPortType DEF TypeOK, TimesOut, Step
    <3> QED
      BY <2>3, <3>1, <3>2, <3>3, <3>4
  <2>4. CASE Close(l) \/ LauncherDies(l)
    BY <2>4 DEF TypeOK, Close, LauncherDies, Step, UnderWay
  <2> QED
    BY <1>1, <2>1, <2>2, <2>3, <2>4 DEF LaunchStep
<1>2. CASE Stop \/ Status
  BY <1>2 DEF TypeOK, Stop, Status
<1>3. ASSUME NEW s \in Launches, Binds(s) \/ Loads(s) \/ Dies(s)
      PROVE  TypeOK'
  BY <1>3 DEF TypeOK, Binds, Loads, Dies
<1> QED
  BY <1>1, <1>2, <1>3 DEF Next

(***************************************************************************)
(* What a step can bring about: only a Spawn starts a server, and only a   *)
(* Begin puts a launch under way.                                          *)
(***************************************************************************)
Grows(s) ==
    /\ Visible(s)' => Visible(s) \/ Spawn(s)
    /\ Alive(s)' => Alive(s) \/ Spawn(s)
    /\ server'[s] = "loading" => server[s] = "loading" \/ Spawn(s)
    /\ UnderWay(s)' => UnderWay(s) \/ Begin(s)
    /\ LeftLoading(s) => LeftLoading(s)'

LEMMA LaunchGrows ==
    ASSUME TypeOK, ServerOfLaunch, NEW l \in Launches, NEW s \in Launches,
           Begin(l) \/ LaunchStep(l) \/ Close(l) \/ LauncherDies(l)
    PROVE  Grows(s)
<1> USE DEF Grows, Visible, Alive, Named, Is, PortOf, UnderWay, LeftLoading, Step, NextPort, TypeOK
<1>1. CASE Begin(l)
  BY <1>1 DEF Begin
<1>2. CASE Probe(l) \/ Gate(l) \/ Sweep(l) \/ Record(l) \/ Answered(l)
  BY <1>2 DEF Probe, Gate, Sweep, Record, Answered
<1>3. ASSUME NEW t \in Launches, SweepKills(l, t)
      PROVE  Grows(s)
  BY <1>3 DEF SweepKills
<1>4. CASE PassOver(l)
  BY <1>4 DEF PassOver, ServerOfLaunch
<1>5. CASE Spawn(l)
  BY <1>5 DEF Spawn
<1>6. CASE Ended(l)
  BY <1>6 DEF Ended
<1>7. CASE TimesOut(l)
  BY <1>7 DEF TimesOut
<1>8. CASE Close(l) \/ LauncherDies(l)
  BY <1>8 DEF Close, LauncherDies
<1> QED
  BY <1>1, <1>2, <1>3, <1>4, <1>5, <1>6, <1>7, <1>8 DEF LaunchStep

LEMMA OthersGrow ==
    ASSUME TypeOK, NEW s \in Launches,
           Stop \/ Status \/ (\E t \in Launches : Binds(t) \/ Loads(t) \/ Dies(t))
    PROVE  Grows(s) /\ UNCHANGED <<pc, tried, doomed>>
BY DEF Grows, Visible, Alive, Listens, Named, Is, PortOf, UnderWay, LeftLoading, TypeOK, Stop, Status, Binds,
   Loads, Dies

LEMMA StepGrows ==
    ASSUME TypeOK, ServerOfLaunch, Next, NEW s \in Launches
    PROVE  Grows(s) /\ plan' = plan
<1>1. Grows(s)
  BY LaunchGrows, OthersGrow DEF Next
<1>2. plan' = plan
  BY DEF Next, Begin, LaunchStep, Probe, Gate, Sweep, SweepKills, PassOver, Spawn, Record, Answered,
     Ended, TimesOut, Close, LauncherDies, Stop, Status, Binds, Loads, Dies
<1> QED
  BY <1>1, <1>2

\* A launch that moves is the one that its action is of.
LEMMA OnlyOneMoves ==
    ASSUME TypeOK, NEW l \in Launches, NEW s \in Launches, s # l,
           Begin(l) \/ LaunchStep(l) \/ Close(l) \/ LauncherDies(l)
    PROVE  pc'[s] = pc[s] /\ tried'[s] = tried[s] /\ doomed'[s] = doomed[s]
BY DEF TypeOK, Begin, LaunchStep, Probe, Gate, Sweep, SweepKills, PassOver, Spawn, Record, Answered,
   Ended, TimesOut, Close, LauncherDies, NextPort, Step

\* A server that was started remains one.
LEMMA NeverNone ==
    ASSUME TypeOK, Next, NEW s \in Launches, server[s] # "none"
    PROVE  server'[s] # "none"
<1>1. ASSUME NEW l \in Launches, Begin(l) \/ LaunchStep(l) \/ Close(l) \/ LauncherDies(l)
      PROVE  server'[s] # "none"
  BY <1>1 DEF TypeOK, Begin, LaunchStep, Probe, Gate, Sweep, SweepKills, PassOver, Spawn, Record, Answered,
     Ended, TimesOut, Close, LauncherDies
<1>2. CASE Stop \/ Status
  BY <1>2 DEF TypeOK, Stop, Status
<1>3. ASSUME NEW t \in Launches, Binds(t) \/ Loads(t) \/ Dies(t)
      PROVE  server'[s] # "none"
  BY <1>3 DEF TypeOK, Binds, Loads, Dies
<1> QED
  BY <1>1, <1>2, <1>3 DEF Next

LEMMA ServerOfLaunchStep ==
    ASSUME TypeOK, ServerOfLaunch, Next
    PROVE  ServerOfLaunch'
<1> SUFFICES ASSUME NEW l \in Launches
             PROVE  /\ pc'[l] \in {"idle", "probe", "gate", "refused", "sweep", "spawn"} => ~Alive(l)'
                    /\ Is(l, "alias")' => tried'[l] = 1
                    /\ pc'[l] = "record" => Is(l, "alias")' /\ server'[l] # "none"
  BY DEF ServerOfLaunch
<1>1. Alive(l)' => Alive(l) \/ Spawn(l)
  BY StepGrows DEF Grows
<1>2. CASE Begin(l) \/ LaunchStep(l) \/ Close(l) \/ LauncherDies(l)
  BY <1>1, <1>2 DEF TypeOK, ServerOfLaunch, Begin, LaunchStep, Probe, Gate, Sweep, SweepKills, PassOver,
     Spawn, Record, Answered, Ended, TimesOut, Close, LauncherDies, NextPort, Step, Is, Alive
<1>3. CASE pc'[l] = pc[l] /\ tried'[l] = tried[l]
  <2>1. ~Spawn(l) \/ pc'[l] \in {"record", "wait"}
    BY DEF Spawn, Step, TypeOK
  <2> QED
    BY <1>1, <1>3, <2>1, StepGrows, NeverNone DEF ServerOfLaunch, Is
<1>4. CASE ~(Begin(l) \/ LaunchStep(l) \/ Close(l) \/ LauncherDies(l))
  BY <1>3, <1>4, OnlyOneMoves, OthersGrow DEF Next
<1> QED
  BY <1>2, <1>4

LEMMA OneAtATimeStep ==
    ASSUME TypeOK, ServerOfLaunch, OneAtATime, Next
    PROVE  OneAtATime'
<1> SUFFICES ASSUME plan.orderly, NEW l \in Launches, UnderWay(l)', NEW s \in Launches, s # l
             PROVE  ~UnderWay(s)' /\ (server'[s] = "loading" => LeftLoading(s)')
  BY StepGrows DEF OneAtATime
<1>1. /\ UnderWay(l) \/ Begin(l)
      /\ UnderWay(s)' => UnderWay(s) \/ Begin(s)
      /\ server'[s] = "loading" => server[s] = "loading" \/ Spawn(s)
      /\ LeftLoading(s) => LeftLoading(s)'
  BY StepGrows DEF Grows
<1>2. Begin(s) => Settled
  BY DEF Begin
<1>3. CASE UnderWay(l)
  BY <1>1, <1>2, <1>3 DEF OneAtATime, Settled, Spawn, UnderWay
<1>4. CASE Begin(l)
  <2>1. ~UnderWay(s) /\ (server[s] = "loading" => LeftLoading(s)) /\ pc[l] = "idle"
    BY <1>4 DEF Begin, Settled
  <2>2. ~Begin(s)
    BY <1>4 DEF Begin, Step, TypeOK
  <2> QED
    BY <1>1, <2>1, <2>2 DEF Spawn, UnderWay
<1> QED
  BY <1>1, <1>3, <1>4

LEMMA LeftDoomedStep ==
    ASSUME TypeOK, ServerOfLaunch, OneAtATime, AloneAfterGate, LeftDoomed, Next
    PROVE  LeftDoomed'
<1> SUFFICES ASSUME plan.orderly, NEW l \in Launches
             PROVE  /\ \A s \in doomed'[l] : LeftLoading(s)
                    /\ pc'[l] = "sweep" => ~plan.multi[l]
  <2>1. \A l \in Launches : doomed'[l] \subseteq Launches
    BY TypeStep DEF TypeOK
  <2> QED
    BY <2>1, StepGrows DEF LeftDoomed, Grows
<1>1. CASE Sweep(l)
  <2>1. \A s \in Live : LeftLoading(s)
    <3>1. ~Listens(l)
      BY <1>1 DEF Sweep, ServerOfLaunch, Alive, Listens
    <3>2. plan.tools => \A s \in Launches : s # l => ~Visible(s)
      BY <1>1 DEF Sweep, AloneAfterGate, LeftDoomed
    <3> QED
      BY <3>1, <3>2 DEF Live, Visible, Alive, Listens
  <2> QED
    BY <1>1, <2>1 DEF Sweep, Step, LeftDoomed, TypeOK
<1>2. CASE (Begin(l) \/ LaunchStep(l) \/ Close(l) \/ LauncherDies(l)) /\ ~Sweep(l)
  BY <1>2 DEF TypeOK, LeftDoomed, Begin, LaunchStep, Probe, Gate, SweepKills, PassOver,
     Spawn, Record, Answered, Ended, TimesOut, Close, LauncherDies, NextPort, Step
<1>3. CASE ~(Begin(l) \/ LaunchStep(l) \/ Close(l) \/ LauncherDies(l))
  BY <1>3, OnlyOneMoves, OthersGrow DEF Next, LeftDoomed
<1> QED
  BY <1>1, <1>2, <1>3

LEMMA AloneAfterGateStep ==
    ASSUME TypeOK, ServerOfLaunch, OneAtATime, AloneAfterGate, Next
    PROVE  AloneAfterGate'
<1> DEFINE Past == {"sweep", "spawn", "record", "wait"}
<1> SUFFICES ASSUME plan.orderly, plan.tools, NEW l \in Launches, NEW s \in Launches, s # l,
                    pc'[l] \in Past, ~plan.multi[l]
             PROVE  ~Visible(s)'
  BY StepGrows DEF AloneAfterGate
<1>1. Visible(s)' => Visible(s) \/ Spawn(s)
  BY StepGrows DEF Grows
<1>2. CASE pc[l] \in Past
  <2>1. ~Visible(s) /\ ~UnderWay(s)
    BY <1>2 DEF AloneAfterGate, OneAtATime, UnderWay
  <2> QED
    BY <1>1, <2>1 DEF Spawn, UnderWay
<1>3. CASE pc[l] \notin Past
  <2>1. Begin(l) \/ LaunchStep(l) \/ Close(l) \/ LauncherDies(l)
    BY <1>3, OnlyOneMoves, OthersGrow DEF Next
  <2>2. Gate(l)
    BY <1>3, <2>1 DEF TypeOK, Begin, LaunchStep, Probe, Sweep, SweepKills, PassOver, Spawn, Record,
       Answered, Ended, TimesOut, Close, LauncherDies, NextPort, Step
  <2>3. Live = {}
    BY <2>2 DEF Gate, Step, TypeOK
  <2>4. ~UnderWay(s) /\ (server[s] = "loading" => LeftLoading(s))
    BY <2>2 DEF Gate, OneAtATime, UnderWay
  <2>5. ~Visible(s)
    BY <2>3, <2>4 DEF Live, Visible, Alive, Listens
  <2> QED
    BY <1>1, <2>4, <2>5 DEF Spawn, UnderWay
<1> QED
  BY <1>2, <1>3

LEMMA OneFullServerStep ==
    ASSUME TypeOK, ServerOfLaunch, OneAtATime, AloneAfterGate, OneFullServer, Next
    PROVE  OneFullServer'
<1> SUFFICES ASSUME plan.orderly, plan.tools, NEW a \in Launches, NEW b \in Launches, a # b,
                    Visible(a)', Visible(b)'
             PROVE  plan.multi[a] \/ plan.multi[b]
  BY StepGrows DEF OneFullServer, Visible
<1>1. (Visible(a) \/ Spawn(a)) /\ (Visible(b) \/ Spawn(b))
  BY StepGrows DEF Grows
<1>2. CASE Visible(a) /\ Visible(b)
  BY <1>2 DEF OneFullServer, Visible
<1>3. CASE Spawn(a) /\ Visible(b)
  BY <1>3 DEF Spawn, AloneAfterGate
<1>4. CASE Spawn(b) /\ Visible(a)
  BY <1>4 DEF Spawn, AloneAfterGate
<1>5. ~(Spawn(a) /\ Spawn(b))
  BY DEF Spawn, OneAtATime, UnderWay
<1> QED
  BY <1>1, <1>2, <1>3, <1>4, <1>5

LEMMA Stutter == IInv /\ UNCHANGED vars => IInv'
BY DEF vars, IInv, TypeOK, ServerOfLaunch, OneAtATime, AloneAfterGate, LeftDoomed, OneFullServer,
   Visible, Alive, Named, Is, PortOf, UnderWay, LeftLoading

LEMMA InductiveInvariant == Spec => []IInv
<1>1. IInv /\ [Next]_vars => IInv'
  BY TypeStep, ServerOfLaunchStep, OneAtATimeStep, LeftDoomedStep, AloneAfterGateStep,
     OneFullServerStep, Stutter DEF IInv
<1> QED
  BY <1>1, InitInv, PTL DEF Spec

-----------------------------------------------------------------------------
\* The state of the launches is what their code can make of it, and only a sweep has victims.
THEOREM TypeCorrect == Spec => []TypeOK
BY InductiveInvariant, PTL DEF IInv

\* Launches one after the other, without allow-multi, never hold two models of llama.cpp on the ports
\* that the gate looks at, unless a launcher was gone before its server had a port
\* (single_load.enforce_single_load before every start).  Of SGLang's servers it says nothing, since
\* the gate does not see them.
THEOREM OneModelAtATime == Spec => []OneFullServer
BY InductiveInvariant, PTL DEF IInv

\* Launches one after the other sweep only servers whose launcher was gone before they had a port
\* (process_guard.cleanup_leftover_processes behind the gate).
THEOREM SweepSparesSiblings == Spec => SiblingsSpared
<1>1. IInv /\ [Next]_vars
        => [plan.orderly =>
              \A l, s \in Launches :
                 s \in doomed[l] /\ s \notin doomed'[l] /\ UnderWay(l)' => LeftLoading(s)]_vars
  BY DEF IInv, LeftDoomed
<1> QED
  BY <1>1, InductiveInvariant, PTL DEF Spec, SiblingsSpared

Running(s) == server[s] \in {"loading", "bound", "ready"}

LEMMA RunningStep ==
    ASSUME TypeOK, Next, NEW s \in Launches, Running(s)', ~Running(s)
    PROVE  Spawn(s)
<1>1. ASSUME NEW l \in Launches, Begin(l) \/ LaunchStep(l) \/ Close(l) \/ LauncherDies(l)
      PROVE  Spawn(s)
  BY <1>1 DEF TypeOK, Running, Begin, LaunchStep, Probe, Gate, Sweep, SweepKills, PassOver, Spawn, Record,
     Answered, Ended, TimesOut, Close, LauncherDies
<1>2. CASE Stop \/ Status
  BY <1>2 DEF TypeOK, Running, Stop, Status
<1>3. ASSUME NEW t \in Launches, Binds(t) \/ Loads(t) \/ Dies(t)
      PROVE  Spawn(s)
  BY <1>3 DEF TypeOK, Running, Binds, Loads, Dies
<1> QED
  BY <1>1, <1>2, <1>3 DEF Next

\* A launcher that is gone does nothing more.
LEMMA StaysLeft ==
    ASSUME TypeOK, Next, NEW s \in Launches, pc[s] \in {"lost", "warned"}
    PROVE  pc'[s] = pc[s]
<1>1. ASSUME NEW l \in Launches, Begin(l) \/ LaunchStep(l) \/ Close(l) \/ LauncherDies(l)
      PROVE  pc'[s] = pc[s]
  <2>1. CASE l = s
    BY <1>1, <2>1 DEF Begin, LaunchStep, Probe, Gate, Sweep, SweepKills, PassOver, Spawn, Record, Answered,
       Ended, TimesOut, Close, LauncherDies, UnderWay
  <2> QED
    BY <1>1, <2>1, OnlyOneMoves
<1>2. CASE Stop \/ Status \/ \E t \in Launches : Binds(t) \/ Loads(t) \/ Dies(t)
  BY <1>2 DEF Stop, Status, Binds, Loads, Dies
<1> QED
  BY <1>1, <1>2 DEF Next

\* While the aliases' port is one the gate looks at, a running alias is the one in the state file
\* (model_up.cmd_start and _write_state).
THEOREM AliasCanBeStopped ==
    ASSUME Candidates[1] \in HarnessPorts
    PROVE  Spec => []AliasTracked
<1>1. Init => AliasTracked
  BY DEF Init, AliasTracked
<1>2. ASSUME IInv, AliasTracked, Next
      PROVE  AliasTracked'
  <2> DEFINE Forgotten(s) == pc[s] \in {"record", "killed", "lost"}
  <2> DEFINE Replaced(s) == \E l \in Launches \ {s} :
                  Is(l, "alias") /\ server[l] # "none" /\ (plan.multi[l] \/ pc[s] = "warned")
  <2> SUFFICES ASSUME plan.orderly, plan.tools, NEW s \in Launches, Is(s, "alias"), Running(s)',
                      ~Forgotten(s)', ~Replaced(s)'
               PROVE  state' = s
    BY <1>2, StepGrows DEF IInv, AliasTracked, Is, Running
  <2>1. Running(s)
    <3>1. Spawn(s) => pc'[s] = "record"
      BY <1>2 DEF IInv, TypeOK, Spawn, Step
    <3> QED
      BY <1>2, <3>1, RunningStep DEF IInv
  <2>2. pc[s] \in {"lost", "warned"} => pc'[s] = pc[s]
    BY <1>2, StaysLeft DEF IInv
  <2>3. ~Replaced(s)
    BY <1>2, <2>2, NeverNone, StepGrows DEF IInv, Is
  <2>4. state = s \/ Forgotten(s)
    BY <2>1, <2>3, <1>2 DEF AliasTracked, Running
  <2>5. ASSUME NEW l \in Launches, Begin(l) \/ LaunchStep(l) \/ Close(l) \/ LauncherDies(l)
        PROVE  state' = s
    <3>1. CASE Record(l)
      <4>1. l = s
        <5>1. SUFFICES ASSUME l # s
                       PROVE  FALSE
          OBVIOUS
        <5>2. Is(l, "alias") /\ server[l] # "none" /\ pc[l] = "record"
          BY <1>2, <3>1 DEF IInv, ServerOfLaunch, Record
        <5>3. ~plan.multi[l] /\ pc[s] # "warned"
          BY <2>3, <5>1, <5>2
        <5>4. ~Visible(s)
          BY <1>2, <5>1, <5>2, <5>3 DEF IInv, AloneAfterGate
        <5>5. pc[s] # "lost"
          BY <2>2
        <5> QED
          BY <1>2, <2>1, <5>3, <5>4, <5>5 DEF IInv, ServerOfLaunch, Visible, Alive, Running, Named, Is, PortOf,
             LeftLoading
      <4> QED
        BY <3>1, <4>1 DEF Record
    <3>2. CASE ~Record(l)
      <4>1. state' = state
        BY <2>5, <3>2 DEF Begin, LaunchStep, Probe, Gate, Sweep, SweepKills, PassOver, Spawn, Answered,
           Ended, TimesOut, Close, LauncherDies
      <4>2. pc[s] = pc'[s] \/ ~Forgotten(s)
        BY <1>2, <2>5, <3>2, OnlyOneMoves DEF IInv, TypeOK, Begin, LaunchStep, Probe, Gate, Sweep,
           SweepKills, PassOver, Spawn, Answered, Ended, TimesOut, Close, LauncherDies, NextPort, Step,
           UnderWay
      <4> QED
        BY <2>4, <4>1, <4>2
    <3> QED
      BY <3>1, <3>2
  <2>6. CASE Stop \/ Status
    <3>1. pc' = pc
      BY <2>6 DEF Stop, Status
    <3>2. state = s
      BY <2>4, <3>1
    <3> QED
      BY <1>2, <2>1, <2>6, <3>2 DEF IInv, TypeOK, Stop, Status, Running, Alive
  <2>7. CASE \E t \in Launches : Binds(t) \/ Loads(t) \/ Dies(t)
    BY <2>4, <2>7 DEF Binds, Loads, Dies
  <2> QED
    BY <1>2, <2>5, <2>6, <2>7 DEF Next
<1>3. AliasTracked /\ UNCHANGED vars => AliasTracked'
  BY DEF vars, AliasTracked, Is
<1> QED
  BY <1>1, <1>2, <1>3, InductiveInvariant, PTL DEF Spec

-----------------------------------------------------------------------------
(* A launch runs out of steps.                                             *)

\* How far the launch is from its first start of a server, and what is left to do until it gives up:
\* victims of the sweep, or ports.
Stage(l) ==
    CASE pc[l] = "probe" -> 5
      [] pc[l] = "gate" -> 4
      [] pc[l] = "sweep" /\ doomed[l] = {} -> 3
      [] pc[l] = "sweep" /\ doomed[l] # {} -> 2
      [] pc[l] \in {"spawn", "record", "wait"} -> 1
      [] OTHER -> 0
Pending(l) ==
    CASE pc[l] = "sweep" -> Cardinality(doomed[l])
      [] pc[l] = "spawn" -> 3 * (Len(Candidates) - tried[l]) + 2
      [] pc[l] = "record" -> 3 * (Len(Candidates) - tried[l]) + 1
      [] pc[l] = "wait" -> 3 * (Len(Candidates) - tried[l])
      [] OTHER -> 0
Left(l) == <<Stage(l), Pending(l)>>

Lowers(l) == Stage(l)' < Stage(l) \/ (Stage(l)' = Stage(l) /\ Pending(l)' < Pending(l))

Smaller == OpToRel(<, Nat)
Lower == LexPairOrdering(Smaller, Smaller, Nat, Nat)

LEMMA LeftType ==
    ASSUME TypeOK, IsFiniteSet(Launches), NEW l \in Launches
    PROVE  Stage(l) \in 0..5 /\ Pending(l) \in Nat /\ Left(l) \in Nat \X Nat
<1>1. Stage(l) \in 0..5
  BY DEF Stage
<1>2. Cardinality(doomed[l]) \in Nat
  BY FS_Subset, FS_CardinalityType DEF TypeOK
<1>3. tried[l] \in Nat /\ Len(Candidates) \in Nat /\ tried[l] <= Len(Candidates)
  BY LaunchAssumption DEF TypeOK
<1>4. Pending(l) \in Nat
  BY <1>2, <1>3 DEF Pending
<1> QED
  BY <1>1, <1>4 DEF Left

LEMMA LowerWhen ==
    ASSUME NEW a \in Nat, NEW b \in Nat, NEW c \in Nat, NEW d \in Nat, a < c \/ (a = c /\ b < d)
    PROVE  <<<<a, b>>, <<c, d>>>> \in Lower
BY DEF Lower, LexPairOrdering, Smaller, OpToRel

LEMMA NextPortLowers ==
    ASSUME TypeOK, NEW l \in Launches, pc[l] \in {"spawn", "record", "wait"}, NextPort(l)
    PROVE  Lowers(l)
<1>1. tried[l] \in Nat /\ Len(Candidates) \in Nat /\ tried[l] <= Len(Candidates)
  BY LaunchAssumption DEF TypeOK
<1>2. Stage(l) = 1 /\ Pending(l) >= 3 * (Len(Candidates) - tried[l])
  BY <1>1 DEF Stage, Pending
<1>3. CASE tried[l] < Len(Candidates)
  <2>1. tried'[l] = tried[l] + 1 /\ pc'[l] = "spawn"
    BY <1>3 DEF NextPort, Step, TypeOK
  <2>2. Stage(l)' = 1 /\ Pending(l)' = 3 * (Len(Candidates) - (tried[l] + 1)) + 2
    BY <2>1 DEF Stage, Pending
  <2>3. 3 * (Len(Candidates) - (tried[l] + 1)) + 2 < 3 * (Len(Candidates) - tried[l])
    BY <1>1
  <2>4. Pending(l) \in Int
    BY <1>1 DEF Pending
  <2>5. Pending(l)' < Pending(l)
    BY <1>1, <1>2, <2>2, <2>3, <2>4
  <2> QED
    BY <1>2, <2>2, <2>5 DEF Lowers
<1>4. CASE ~(tried[l] < Len(Candidates))
  <2>1. pc'[l] = "done"
    BY <1>4 DEF NextPort, Step, TypeOK
  <2> QED
    BY <1>2, <2>1 DEF Stage, Lowers
<1> QED
  BY <1>3, <1>4

LEMMA OwnStepLowers ==
    ASSUME TypeOK, TypeOK', IsFiniteSet(Launches), NEW l \in Launches, LaunchStep(l)
    PROVE  Lowers(l)
<1> USE DEF Step
<1>1. CASE Probe(l) \/ Gate(l)
  <2>1. /\ pc[l] \in {"probe", "gate"} /\ UNCHANGED doomed
        /\ pc[l] = "probe" => pc'[l] \in {"done", "gate"}
        /\ pc[l] = "gate" => pc'[l] \in {"refused", "spawn", "sweep"}
    BY <1>1 DEF Probe, Gate, TypeOK
  <2> QED
    BY <2>1 DEF Stage, Lowers
<1>2. CASE Sweep(l)
  <2>1. pc[l] = "sweep" /\ doomed[l] = {} /\ doomed'[l] = Live /\ pc'[l] = IF Live = {} THEN "spawn" ELSE "sweep"
    BY <1>2 DEF Sweep, TypeOK
  <2> QED
    BY <2>1 DEF Stage, Lowers
<1>3. ASSUME NEW s \in Launches, SweepKills(l, s)
      PROVE  Lowers(l)
  <2>1. /\ pc[l] = "sweep" /\ s \in doomed[l] /\ doomed'[l] = doomed[l] \ {s}
        /\ pc'[l] = IF doomed[l] = {s} THEN "spawn" ELSE "sweep"
    BY <1>3 DEF SweepKills, TypeOK
  <2>2. CASE doomed[l] = {s}
    BY <2>1, <2>2 DEF Stage, Lowers
  <2>3. CASE doomed[l] # {s}
    <3>1. IsFiniteSet(doomed[l])
      BY FS_Subset DEF TypeOK
    <3>2. Cardinality(doomed'[l]) = Cardinality(doomed[l]) - 1 /\ Cardinality(doomed[l]) \in Nat
      BY <2>1, <3>1, FS_RemoveElement, FS_CardinalityType
    <3>3. Stage(l) = 2 /\ Stage(l)' = 2
      BY <2>1, <2>3 DEF Stage, Lowers
    <3>4. Pending(l) = Cardinality(doomed[l]) /\ Pending(l)' = Cardinality(doomed'[l])
      BY <2>1, <2>3 DEF Pending
    <3> QED
      BY <3>2, <3>3, <3>4 DEF Lowers
  <2> QED
    BY <2>2, <2>3
<1>4. CASE Spawn(l) \/ Record(l)
  <2>1. /\ pc[l] \in {"spawn", "record"} /\ UNCHANGED tried
        /\ pc[l] = "spawn" => pc'[l] \in {"record", "wait"}
        /\ pc[l] = "record" => pc'[l] = "wait"
    BY <1>4 DEF Spawn, Record, TypeOK
  <2>2. Stage(l) = 1 /\ Stage(l)' = 1
    BY <2>1 DEF Stage
  <2>3. tried[l] \in Nat /\ Len(Candidates) \in Nat
    BY LaunchAssumption DEF TypeOK
  <2>4. Pending(l)' < Pending(l)
    BY <2>1, <2>3 DEF Pending
  <2> QED
    BY <2>2, <2>4 DEF Lowers
<1>5. CASE PassOver(l) \/ Ended(l) \/ TimesOut(l) \/ Answered(l)
  <2>1. pc[l] \in {"spawn", "wait"} /\ (NextPort(l) \/ pc'[l] \in {"done", "serving", "warned"})
    BY <1>5 DEF PassOver, Ended, TimesOut, Answered, TypeOK
  <2>2. CASE NextPort(l)
    BY <2>1, <2>2, NextPortLowers
  <2>3. CASE pc'[l] \in {"done", "serving", "warned"}
    BY <2>1, <2>3 DEF Stage, Lowers
  <2> QED
    BY <2>1, <2>2, <2>3
<1> QED
  BY <1>1, <1>2, <1>3, <1>4, <1>5 DEF LaunchStep

\* Nobody else sets a launch back that is under way.
LEMMA OthersSpare ==
    ASSUME TypeOK, Next, NEW l \in Launches, UnderWay(l), ~LaunchStep(l)
    PROVE  Left(l)' = Left(l) \/ Stage(l)' < Stage(l)
<1>1. CASE pc'[l] = pc[l] /\ tried'[l] = tried[l] /\ doomed'[l] = doomed[l]
  BY <1>1 DEF Left, Stage, Pending
<1>2. CASE LauncherDies(l)
  <2>1. pc'[l] \in {"killed", "lost"}
    BY <1>2 DEF LauncherDies, Step, TypeOK
  <2> QED
    BY <2>1 DEF Stage, UnderWay
<1>3. ASSUME NEW k \in Launches, Begin(k) \/ LaunchStep(k) \/ Close(k) \/ LauncherDies(k)
      PROVE  Left(l)' = Left(l) \/ Stage(l)' < Stage(l)
  <2>1. CASE k = l
    <3>1. LauncherDies(l)
      BY <1>3, <2>1 DEF Begin, Close, UnderWay
    <3> QED
      BY <1>2, <3>1
  <2>2. CASE k # l
    BY <1>1, <1>3, <2>2, OnlyOneMoves
  <2> QED
    BY <2>1, <2>2
<1>4. CASE Stop \/ Status \/ \E s \in Launches : Binds(s) \/ Loads(s) \/ Dies(s)
  BY <1>1, <1>4 DEF Stop, Status, Binds, Loads, Dies
<1> QED
  BY <1>3, <1>4 DEF Next

\* However many launches overlap, and whatever the servers and the other programs do, none of them
\* goes round for ever: each of its own steps lowers what is left of it, and nobody else raises it
\* (enforce_single_load, cleanup_leftover_processes and the loops over the candidate ports).
THEOREM LaunchesRunOut ==
    ASSUME IsFiniteSet(Launches)
    PROVE  /\ IsWellFoundedOn(Lower, Nat \X Nat)
           /\ Spec => [](\A l \in Launches : Left(l) \in Nat \X Nat)
           /\ Spec => [][\A l \in Launches :
                           /\ LaunchStep(l) => <<Left(l)', Left(l)>> \in Lower
                           /\ UnderWay(l) => Left(l)' = Left(l) \/ <<Left(l)', Left(l)>> \in Lower]_vars
<1>1. IsWellFoundedOn(Lower, Nat \X Nat)
  BY NatLessThanWellFounded, WFLexPairOrdering DEF Lower, Smaller
<1> DEFINE Typed == \A l \in Launches : Stage(l) \in Nat /\ Pending(l) \in Nat
<1>2. IInv => Typed
  BY LeftType DEF IInv
<1>3. Typed => \A l \in Launches : Left(l) \in Nat \X Nat
  BY DEF Left
<1>4. IInv /\ IInv' /\ Typed /\ Typed' /\ [Next]_vars
        => [\A l \in Launches :
              /\ LaunchStep(l) => <<Left(l)', Left(l)>> \in Lower
              /\ UnderWay(l) => Left(l)' = Left(l) \/ <<Left(l)', Left(l)>> \in Lower]_vars
  <2> SUFFICES ASSUME IInv, IInv', Typed, Typed', Next, NEW l \in Launches
               PROVE  /\ LaunchStep(l) => <<Left(l)', Left(l)>> \in Lower
                      /\ UnderWay(l) => Left(l)' = Left(l) \/ <<Left(l)', Left(l)>> \in Lower
    OBVIOUS
  <2>1. /\ Stage(l) \in Nat /\ Pending(l) \in Nat /\ Stage(l)' \in Nat /\ Pending(l)' \in Nat
        /\ TypeOK /\ TypeOK'
    BY DEF IInv
  <2>2. LaunchStep(l) => <<Left(l)', Left(l)>> \in Lower
    BY <2>1, OwnStepLowers, LowerWhen DEF Left, Lowers
  <2>3. UnderWay(l) /\ ~LaunchStep(l) => Left(l)' = Left(l) \/ <<Left(l)', Left(l)>> \in Lower
    BY <2>1, OthersSpare, LowerWhen DEF Left
  <2> QED
    BY <2>2, <2>3
<1> QED
  BY <1>1, <1>2, <1>3, <1>4, InductiveInvariant, PTL DEF Spec
=============================================================================
