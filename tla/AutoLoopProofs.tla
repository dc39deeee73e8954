--------------------------- MODULE AutoLoopProofs ---------------------------
(***************************************************************************)
(* The Search over its files, for any search space, budget, measurements,  *)
(* number of starts and kills, when no model is selected twice.            *)
(***************************************************************************)
EXTENDS AutoLoop, FiniteSetTheorems, WellFoundedInduction, TLAPS

DistinctModels ==
    \A i, j \in DOMAIN SelectedModels : SelectedModels[i] = SelectedModels[j] => i = j

-----------------------------------------------------------------------------
(* What the strategy returns.                                              *)

LEMMA NeighborsAreConfigs ==
    ASSUME NEW s \in Spaces, NEW c \in Config, NEW n \in get_neighbors(s, c)
    PROVE  n \in Config /\ n.model = c.model /\ is_batch_consistent(n)
<1>1. PICK k \in Knobs : \E v \in Adjacent(s[k], c.knob[k]) : n = [c EXCEPT !.knob[k] = v]
  BY DEF get_neighbors
<1>2. PICK v \in Adjacent(s[k], c.knob[k]) : n = [c EXCEPT !.knob[k] = v]
  BY <1>1
<1>3. s[k] \in Seq(Values)
  BY DEF Spaces
<1>4. v \in Values
  BY <1>3 DEF Adjacent, Range
<1> QED
  BY <1>2, <1>4 DEF Config, get_neighbors

LEMMA RestartsAreConfigs ==
    ASSUME NEW s \in Spaces, NEW V, NEW c \in Config,
           NEW n \in random_restart(s, V, c), n # NoConfig
    PROVE  n \in Config /\ n.model = c.model /\ is_batch_consistent(n) /\ n \notin V
<1>1. n \in SpacePoints(s, c) /\ is_batch_consistent(n) /\ n \notin V
  BY DEF random_restart
<1>2. PICK f \in [Knobs -> UNION {Range(s[k]) : k \in Knobs}] : n = [c EXCEPT !.knob = f]
  BY <1>1 DEF SpacePoints
<1>3. ASSUME NEW k \in Knobs
      PROVE  Range(s[k]) \subseteq Values
  BY DEF Spaces, Range
<1>4. f \in [Knobs -> Values]
  BY <1>3
<1> QED
  BY <1>1, <1>2, <1>4 DEF Config

LEMMA PinsKeepSpaces ==
    ASSUME NEW s \in Spaces, NEW pins \in Pins
    PROVE  apply_pins(s, pins) \in Spaces
<1>1. ASSUME NEW k \in Knobs, k \in DOMAIN pins
      PROVE  <<pins[k]>> \in Seq(Values)
  BY <1>1 DEF Pins
<1> QED
  BY <1>1 DEF apply_pins, Spaces

LEMMA NoResultType == NoResult \in Result
BY DEF NoResult, Result, Vectors, TrialOutcome

LEMMA ConstantFacts ==
    /\ SelectedModels \in Seq(Models)
    /\ Len(SelectedModels) \in Nat
    /\ DOMAIN SelectedModels = 1..Len(SelectedModels)
    /\ \A i \in DOMAIN SelectedModels : SelectedModels[i] \in Models
    /\ Space \in Spaces /\ InitBaseline \in Config
    /\ NoConfig \notin Config
    /\ \A c \in Config : Measures[c] \subseteq Result
    /\ PinChoices \subseteq Pins
    /\ NoPins \in Pins
    /\ ScreenPoints \in Nat /\ MaxRounds \in Nat /\ RestartTries \in Nat /\ MaxStarts \in Nat
<1>1. NoPins \in Pins
  BY DEF NoPins, Pins
<1> QED
  BY <1>1, AutoLoopAssumption

LEMMA RowTypes ==
    ASSUME NEW c \in Config, NEW r \in Result
    PROVE  {RowOf(c, r), CrashRow(c)}
              \subseteq [config : Config, outcome : RowOutcomes, vector : Vectors]
BY NoResultType DEF RowOf, CrashRow, Result, RowOutcomes

LEMMA SeedIsVectors == \A m : SeedKnown(m) \subseteq Vectors
BY DEF SeedKnown

LEMMA UntriedFacts ==
    ASSUME TypeOK, NEW n \in Untried
    PROVE  n \in Config /\ n.model = baseline.model /\ is_batch_consistent(n) /\ n \notin mem
BY NeighborsAreConfigs DEF Untried, TypeOK

LEMMA RestartFacts ==
    ASSUME TypeOK, NEW c \in Restarts, c # NoConfig
    PROVE  c \in Config /\ c.model = baseline.model /\ is_batch_consistent(c) /\ c \notin mem
BY RestartsAreConfigs DEF Restarts, TypeOK

-----------------------------------------------------------------------------
(* The inductive invariant.                                                *)

LEMMA InitInductive == Init => IInv
<1> SUFFICES ASSUME Init PROVE IInv
  OBVIOUS
<1>1. morris \in [Models -> Pins]
  BY ConstantFacts DEF Init
<1>2. TypeOK
  <2>1. at \in 1..(Len(SelectedModels) + 1) /\ round \in 0..MaxRounds /\ starts \in 0..MaxStarts
    BY ConstantFacts DEF Init
  <2>2. visited \subseteq Config /\ mem \subseteq Config /\ ran \subseteq Config
        /\ finished \subseteq Config /\ known \subseteq Vectors
    BY DEF Init
  <2>3. rows \subseteq [config : Config, outcome : RowOutcomes, vector : Vectors]
    BY DEF Init
  <2>4. {journal, alias, bus, cand} \subseteq Config \cup {NoConfig}
    BY DEF Init
  <2>5. baseline \in Config /\ space \in Spaces /\ base \in Result /\ result \in Result
    BY ConstantFacts, NoResultType DEF Init
  <2>6. count \in Nat /\ stop \in BOOLEAN /\ late \in Nat /\ pc \in PCs
    BY DEF Init, PCs
  <2> QED
    BY <1>1, <2>1, <2>2, <2>3, <2>4, <2>5, <2>6 DEF TypeOK
<1>3. InFlightIsVisited /\ VisitedIsRemembered /\ RanIsVisited /\ TrialIsVisited
  BY DEF Init, InFlightIsVisited, VisitedIsRemembered, RanIsVisited, TrialIsVisited, TrialPCs
<1>4. MemoryOnlyIsNotBaseline /\ NeighborFits /\ AdoptedIsLogged
  BY DEF Init, MemoryOnlyIsNotBaseline, NeighborFits, AdoptedIsLogged, TrialPCs, ModelPCs
<1>5. PublishedIsLogged /\ ConsumedInOrder /\ OneLateTrial
  BY DEF Init, PublishedIsLogged, ConsumedInOrder, OneLateTrial
<1> QED
  BY <1>2, <1>3, <1>4, <1>5 DEF IInv

LEMMA OpeningInductive ==
    ASSUME DistinctModels, IInv, Opening
    PROVE  IInv'
<1> USE ConstantFacts
    DEF TypeOK, InFlightIsVisited, VisitedIsRemembered, RanIsVisited, TrialIsVisited,
        MemoryOnlyIsNotBaseline, NeighborFits, AdoptedIsLogged, PublishedIsLogged,
        ConsumedInOrder, OneLateTrial, PCs, TrialPCs, ModelPCs, model_name,
        disk, memory, history, Goto, LeaveModel
<1>1. CASE ConsumeNothing
  BY <1>1 DEF IInv, ConsumeNothing
<1>2. CASE ConsumeRetry
  BY <1>2 DEF IInv, ConsumeRetry
<1>3. CASE ConsumeRow
  BY <1>3, RowTypes DEF IInv, ConsumeRow
<1>4. CASE ConsumeMark
  BY <1>4 DEF IInv, ConsumeMark, MarkVisited
<1>5. CASE ConsumeClear
  BY <1>5 DEF IInv, ConsumeClear
<1>6. CASE Reset
  BY <1>6 DEF IInv, Reset
<1>7. CASE NoReset
  BY <1>7 DEF IInv, NoReset
<1>8. CASE Finish
  BY <1>8, NoResultType DEF IInv, Finish, Forget
<1>9. CASE BeginModel
  BY <1>9, PinsKeepSpaces DEF IInv, BeginModel
<1>10. CASE ScreenPoint
  BY <1>10 DEF IInv, ScreenPoint
<1>11. CASE ScreenDone
  BY <1>11, PinsKeepSpaces DEF IInv, ScreenDone
<1>12. CASE Seed
  <2>1. model_name \in Models /\ baseline' \in Config
    BY <1>12 DEF IInv, Seed, Config
  <2>2. TypeOK'
    BY <1>12, <2>1, SeedIsVectors DEF IInv, Seed
  <2>3. baseline' \in mem => baseline' \in visited
    <3>1. baseline'.model = SelectedModels[at]
      BY <1>12 DEF IInv, Seed, Config
    <3>2. SUFFICES ASSUME baseline' \in mem \ visited PROVE FALSE
      OBVIOUS
    <3>3. PICK i \in DOMAIN SelectedModels :
             baseline'.model = SelectedModels[i] /\ (i < at \/ (i = at /\ pc \in ModelPCs))
      BY <1>12, <3>2 DEF IInv, Seed
    <3>4. i < at /\ i \in Nat /\ at \in Nat /\ at \in DOMAIN SelectedModels
      BY <1>12, <3>3 DEF IInv, Seed
    <3>5. SelectedModels[i] = SelectedModels[at]
      BY <3>1, <3>3
    <3>6. i = at
      BY <3>4, <3>5 DEF DistinctModels
    <3> QED
      BY <3>4, <3>6
  <2> QED
    BY <1>12, <2>1, <2>2, <2>3 DEF IInv, Seed, Config
<1> QED
  BY <1>1, <1>2, <1>3, <1>4, <1>5, <1>6, <1>7, <1>8, <1>9, <1>10, <1>11, <1>12 DEF Opening

LEMMA TrialInductive ==
    ASSUME DistinctModels, IInv, Trial
    PROVE  IInv'
<1> USE ConstantFacts
    DEF TypeOK, InFlightIsVisited, VisitedIsRemembered, RanIsVisited, TrialIsVisited,
        MemoryOnlyIsNotBaseline, NeighborFits, AdoptedIsLogged, PublishedIsLogged,
        ConsumedInOrder, OneLateTrial, PCs, TrialPCs, ModelPCs, model_name,
        disk, memory, history, Goto, LeaveModel
<1>1. CASE WriteJournal
  BY <1>1 DEF IInv, WriteJournal
<1>2. CASE RunTrial
  BY <1>2 DEF IInv, RunTrial
<1>3. CASE ClearJournal
  BY <1>3 DEF IInv, ClearJournal
<1>4. CASE LogAndRaise
  <2>1. rows' \subseteq [config : Config, outcome : RowOutcomes, vector : Vectors]
    BY <1>4, RowTypes DEF IInv, LogAndRaise
  <2>2. TypeOK'
    BY <1>4, <2>1, NoResultType DEF IInv, LogAndRaise, Forget
  <2>3. PublishedIsLogged'
    BY <1>4 DEF IInv, LogAndRaise
  <2>4. InFlightIsVisited' /\ VisitedIsRemembered' /\ RanIsVisited' /\ TrialIsVisited'
    BY <1>4 DEF IInv, LogAndRaise, Forget
  <2>5. MemoryOnlyIsNotBaseline' /\ NeighborFits' /\ AdoptedIsLogged'
    BY <1>4 DEF IInv, LogAndRaise, Forget
  <2>6. ConsumedInOrder' /\ OneLateTrial'
    BY <1>4 DEF IInv, LogAndRaise, Forget
  <2> QED
    BY <2>2, <2>3, <2>4, <2>5, <2>6 DEF IInv
<1> QED
  BY <1>1, <1>2, <1>3, <1>4 DEF Trial

LEMMA ClimbInductive ==
    ASSUME DistinctModels, IInv, Climb
    PROVE  IInv'
<1> USE ConstantFacts
    DEF TypeOK, InFlightIsVisited, VisitedIsRemembered, RanIsVisited, TrialIsVisited,
        MemoryOnlyIsNotBaseline, NeighborFits, AdoptedIsLogged, PublishedIsLogged,
        ConsumedInOrder, OneLateTrial, PCs, TrialPCs, ModelPCs, model_name,
        disk, memory, history, Goto, LeaveModel
<1>1. CASE EndRounds
  BY <1>1 DEF IInv, EndRounds
<1>2. CASE BeginRound
  BY <1>2 DEF IInv, BeginRound, MarkVisited
<1>3. CASE LogBaseline
  BY <1>3, RowTypes, NoResultType DEF IInv, LogBaseline, LogTrial, Result
<1>4. CASE StopAtNeighbor
  BY <1>4 DEF IInv, StopAtNeighbor
<1>5. CASE TryNeighbor
  BY <1>5, UntriedFacts DEF IInv, TryNeighbor, MarkVisited
<1>6. CASE PassNeighbor
  BY <1>6 DEF IInv, PassNeighbor, PreflightPasses
<1>7. CASE SkipNeighbor
  BY <1>7 DEF IInv, SkipNeighbor
<1>8. CASE LogDiscard
  BY <1>8, RowTypes, NoResultType DEF IInv, LogDiscard, LogTrial, Result
<1>9. CASE LogImprovement
  BY <1>9, RowTypes DEF IInv, LogImprovement, LogTrial, Result
<1>10. CASE Adopt
  BY <1>10 DEF IInv, Adopt
<1>11. CASE UpdateAlias
  BY <1>11 DEF IInv, UpdateAlias
<1>12. CASE Publish
  BY <1>12, NoResultType DEF IInv, Publish, RowOf
<1>13. CASE LocalMaximum
  BY <1>13 DEF IInv, LocalMaximum
<1>14. CASE Restart
  BY <1>14, RestartFacts, NoResultType DEF IInv, Restart, PreflightPasses
<1>15. CASE RestartSkip
  <2>1. PICK c \in Restarts \ {NoConfig} : PreflightFails(c) /\ mem' = mem \cup {c}
    BY <1>15 DEF RestartSkip
  <2>2. c \in Config /\ c.model = baseline.model /\ c \notin mem
    BY <2>1, RestartFacts DEF IInv
  <2>3. baseline \in mem => baseline \in visited
    BY <1>15 DEF IInv, RestartSkip
  <2>4. TypeOK'
    BY <1>15, <2>1, <2>2 DEF IInv, RestartSkip
  <2>5. VisitedIsRemembered'
    BY <1>15, <2>1 DEF IInv, RestartSkip
  <2>6. MemoryOnlyIsNotBaseline'
    <3>1. pc = "restart" /\ UNCHANGED <<pc, at, baseline, visited>>
      BY <1>15 DEF RestartSkip
    <3>2. at \in DOMAIN SelectedModels /\ baseline.model = SelectedModels[at]
      BY <3>1 DEF IInv
    <3>3. \A d \in mem' \ visited : \E i \in DOMAIN SelectedModels :
             d.model = SelectedModels[i] /\ (i < at \/ (i = at /\ pc \in ModelPCs))
      BY <2>1, <2>2, <3>1, <3>2 DEF IInv
    <3>4. baseline' \in visited
      BY <3>1 DEF IInv
    <3> QED
      BY <3>1, <3>2, <3>3, <3>4
  <2> QED
    BY <1>15, <2>4, <2>5, <2>6 DEF IInv, RestartSkip
<1>16. CASE GiveUp
  BY <1>16, NoResultType DEF IInv, GiveUp
<1> QED
  BY <1>1, <1>2, <1>3, <1>4, <1>5, <1>6, <1>7, <1>8, <1>9, <1>10, <1>11, <1>12, <1>13, <1>14, <1>15, <1>16 DEF Climb

LEMMA OthersInductive ==
    ASSUME DistinctModels, IInv, Start \/ Signal \/ Crash \/ UNCHANGED vars
    PROVE  IInv'
<1> USE ConstantFacts
    DEF TypeOK, InFlightIsVisited, VisitedIsRemembered, RanIsVisited, TrialIsVisited,
        MemoryOnlyIsNotBaseline, NeighborFits, AdoptedIsLogged, PublishedIsLogged,
        ConsumedInOrder, OneLateTrial, PCs, TrialPCs, ModelPCs, model_name,
        disk, memory, history, Goto, LeaveModel
<1>1. CASE Start
  <2>1. starts' \in 0..MaxStarts
    BY <1>1 DEF IInv, Start
  <2>2. TypeOK'
    BY <1>1, <2>1 DEF IInv, Start
  <2> QED
    BY <1>1, <2>2 DEF IInv, Start
<1>2. CASE Signal
  BY <1>2 DEF IInv, Signal
<1>3. CASE Crash
  BY <1>3, NoResultType DEF IInv, Crash, Forget
<1>4. CASE UNCHANGED vars
  BY <1>4 DEF IInv, vars
<1> QED
  BY <1>1, <1>2, <1>3, <1>4

LEMMA NextInductive ==
    ASSUME DistinctModels
    PROVE  IInv /\ [Next]_vars => IInv'
BY OpeningInductive, TrialInductive, ClimbInductive, OthersInductive DEF Next, Step

\* The invariant of the Search holds in every state (autoloop.main).
THEOREM InductiveInvariant ==
    ASSUME DistinctModels
    PROVE  Spec => []IInv
<1>1. Init => IInv
  BY InitInductive
<1>2. IInv /\ [Next]_vars => IInv'
  BY NextInductive
<1> QED
  BY <1>1, <1>2, PTL DEF Spec

-----------------------------------------------------------------------------
(* What a state of the Search satisfies.                                   *)

\* What the Search keeps on disk and in memory stays what it reads it for
\* (autoloop.main).
THEOREM TypeCorrect == ASSUME DistinctModels PROVE Spec => []TypeOK
<1>1. IInv => TypeOK
  BY DEF IInv
<1> QED
  BY <1>1, InductiveInvariant, PTL

\* A Trial in flight is visited on disk (autoloop._journaled_run_trial).
THEOREM InFlightAlwaysVisited == ASSUME DistinctModels PROVE Spec => []InFlightIsVisited
<1>1. IInv => InFlightIsVisited
  BY DEF IInv
<1> QED
  BY <1>1, InductiveInvariant, PTL

\* A Fingerprint file holds a logged, accepted Trial
\* (climb_fingerprint.write_climb_fingerprint).
THEOREM PublishedAlwaysLogged == ASSUME DistinctModels PROVE Spec => []PublishedIsLogged
<1>1. IInv => PublishedIsLogged
  BY DEF IInv
<1> QED
  BY <1>1, InductiveInvariant, PTL

\* At most one Trial starts after a stop was requested (autoloop.main).
THEOREM StopIsSoon == ASSUME DistinctModels PROVE Spec => []StopsSoon
<1>1. IInv => StopsSoon
  BY DEF IInv, OneLateTrial, StopsSoon
<1> QED
  BY <1>1, InductiveInvariant, PTL

-----------------------------------------------------------------------------
(* What a step of the Search may never do.                                 *)

\* No Neighbor and no restart candidate was run before
\* (autoloop.main, search.random_restart).
THEOREM RunsOnce == ASSUME DistinctModels PROVE Spec => NeverRunAgain
<1>1. ASSUME IInv, TryNeighbor
      PROVE  cand' \notin ran
  BY <1>1, UntriedFacts DEF IInv, TryNeighbor, VisitedIsRemembered, RanIsVisited
<1>2. ASSUME IInv, Restart
      PROVE  baseline' \notin ran
  BY <1>2, RestartFacts DEF IInv, Restart, VisitedIsRemembered, RanIsVisited
<1>3. IInv /\ [Next]_vars
        => [/\ TryNeighbor => cand' \notin ran
            /\ Restart => baseline' \notin ran]_vars
  BY <1>1, <1>2
<1> QED
  BY <1>3, InductiveInvariant, PTL DEF Spec, NeverRunAgain

\* The journal of a Trial that never returned is dropped after its CRASH row
\* and its visited mark are on disk (autoloop.consume_crash_journal).
THEOREM CrashIsRecorded == ASSUME DistinctModels PROVE Spec => CrashRecorded
<1> DEFINE Dropped ==
      journal # NoConfig /\ journal' = NoConfig
        => \/ pc = "clear"
           \/ ConsumeRetry
           \/ CrashRow(journal) \in rows /\ journal \in visited
<1>1. ASSUME IInv, Opening
      PROVE  Dropped
  BY <1>1 DEF IInv, ConsumedInOrder, Opening, ConsumeNothing, ConsumeRow, ConsumeMark,
       ConsumeClear, Reset, NoReset, Finish, BeginModel, ScreenPoint, ScreenDone, Seed, disk
<1>2. ASSUME IInv, Trial
      PROVE  Dropped
  <2>1. CASE WriteJournal
    BY <2>1, <1>2, ConstantFacts DEF IInv, TrialIsVisited, TrialPCs, WriteJournal
  <2> QED
    BY <1>2, <2>1 DEF Trial, RunTrial, ClearJournal, LogAndRaise, disk
<1>3. ASSUME IInv, Climb
      PROVE  Dropped
  BY <1>3 DEF Climb, EndRounds, BeginRound, LogBaseline, StopAtNeighbor, TryNeighbor,
       PassNeighbor, SkipNeighbor, LogDiscard, LogImprovement, Adopt, UpdateAlias, Publish,
       LocalMaximum, Restart, RestartSkip, GiveUp, disk
<1>4. ASSUME Start \/ Signal \/ Crash
      PROVE  Dropped
  BY <1>4 DEF Start, Signal, Crash, disk
<1>5. IInv /\ [Next]_vars => [Dropped]_vars
  BY <1>1, <1>2, <1>3, <1>4 DEF Next, Step
<1> QED
  BY <1>5, InductiveInvariant, PTL DEF Spec, CrashRecorded

\* The knobs of the Baseline only move to a configuration that fits and has
\* consistent batch sizes (autoloop.main, search.is_batch_consistent).
THEOREM BaselineAlwaysFits == ASSUME DistinctModels PROVE Spec => BaselineFits
<1> DEFINE Moved ==
      baseline'.knob # baseline.knob => baseline' \in Fits /\ is_batch_consistent(baseline')
<1>1. ASSUME IInv, Opening
      PROVE  Moved
  <2>1. CASE Seed
    BY <2>1, <1>1 DEF IInv, TypeOK, Seed, Config
  <2> QED
    BY <1>1, <2>1 DEF Opening, ConsumeNothing, ConsumeRetry, ConsumeRow, ConsumeMark,
       ConsumeClear, Reset, NoReset, Finish, BeginModel, ScreenPoint, ScreenDone, disk
<1>2. ASSUME Trial
      PROVE  Moved
  BY <1>2 DEF Trial, WriteJournal, RunTrial, ClearJournal, LogAndRaise, disk
<1>3. ASSUME IInv, Climb
      PROVE  Moved
  <2>1. CASE Adopt
    BY <2>1, <1>3 DEF IInv, NeighborFits, Adopt
  <2>2. CASE Restart
    BY <2>2, <1>3, RestartFacts DEF IInv, Restart, PreflightPasses
  <2> QED
    BY <1>3, <2>1, <2>2 DEF Climb, EndRounds, BeginRound, LogBaseline, StopAtNeighbor,
       TryNeighbor, PassNeighbor, SkipNeighbor, LogDiscard, LogImprovement, UpdateAlias,
       Publish, LocalMaximum, RestartSkip, GiveUp, disk
<1>4. ASSUME Start \/ Signal \/ Crash
      PROVE  Moved
  BY <1>4 DEF Start, Signal, Crash, disk
<1>5. IInv /\ [Next]_vars => [Moved]_vars
  BY <1>1, <1>2, <1>3, <1>4 DEF Next, Step
<1> QED
  BY <1>5, InductiveInvariant, PTL DEF Spec, BaselineFits

\* A Trial that ran to its end is not forgotten by any step but a kill and a
\* start with --retry-crashed (autoloop._write_trial, _journaled_run_trial).
THEOREM TrialsAreKept == ASSUME DistinctModels PROVE Spec => NoTrialForgotten
<1>1. ASSUME IInv, Opening, ~ ConsumeRetry, NEW c \in finished'
      PROVE  Kept(c)' \/ (c \in finished /\ ~ Kept(c))
  <2>1. finished' = finished
    BY <1>1 DEF Opening, ConsumeNothing, ConsumeRow, ConsumeMark, ConsumeClear, Reset,
       NoReset, Finish, BeginModel, ScreenPoint, ScreenDone, Seed, history
  <2>2. pc \notin {"clear", "log"} /\ rows \subseteq rows'
    BY <1>1 DEF Opening, ConsumeNothing, ConsumeRow, ConsumeMark, ConsumeClear, Reset,
       NoReset, Finish, BeginModel, ScreenPoint, ScreenDone, Seed, disk
  <2>3. CASE ConsumeClear
    <3>1. CrashRow(journal) \in rows' /\ CrashRow(journal).config = journal
      BY <2>2, <2>3, <1>1 DEF IInv, ConsumedInOrder, ConsumeClear, CrashRow
    <3> QED
      BY <2>1, <2>2, <3>1 DEF Kept
  <2>4. CASE ~ ConsumeClear
    <3>1. journal' = journal
      BY <1>1, <2>4 DEF Opening, ConsumeNothing, ConsumeRow, ConsumeMark, Reset,
         NoReset, Finish, BeginModel, ScreenPoint, ScreenDone, Seed, disk
    <3> QED
      BY <2>1, <2>2, <3>1 DEF Kept
  <2> QED
    BY <2>3, <2>4
<1>2. ASSUME IInv, Trial, NEW c \in finished'
      PROVE  Kept(c)' \/ (c \in finished /\ ~ Kept(c))
  <2>1. CASE WriteJournal
    <3>1. journal = NoConfig /\ pc = "journal" /\ finished' = finished /\ rows' = rows
      BY <2>1, <1>2 DEF IInv, TrialIsVisited, PCs, WriteJournal
    <3>2. c # NoConfig
      BY <1>2, <3>1, ConstantFacts DEF IInv, TypeOK
    <3> QED
      BY <3>1, <3>2 DEF Kept
  <2>2. CASE RunTrial
    BY <2>2, <1>2 DEF RunTrial, Goto, Kept, disk
  <2>3. CASE ClearJournal
    BY <2>3, <1>2 DEF IInv, TrialIsVisited, ClearJournal, Goto, Kept, memory, history
  <2>4. CASE LogAndRaise
    <3>1. pc = "log" /\ journal' = journal /\ finished' = finished /\ rows \subseteq rows'
      BY <2>4 DEF LogAndRaise, history
    <3>2. RowOf(cand, result) \in rows' /\ RowOf(cand, result).config = cand
      BY <2>4 DEF LogAndRaise, RowOf
    <3> QED
      BY <1>2, <3>1, <3>2 DEF Kept
  <2> QED
    BY <1>2, <2>1, <2>2, <2>3, <2>4 DEF Trial
<1>3. ASSUME Climb, NEW c \in finished'
      PROVE  Kept(c)' \/ (c \in finished /\ ~ Kept(c))
  <2>1. finished' = finished /\ journal' = journal /\ rows \subseteq rows'
    BY <1>3 DEF Climb, EndRounds, BeginRound, LogBaseline, StopAtNeighbor,
       TryNeighbor, PassNeighbor, SkipNeighbor, LogDiscard, LogImprovement, LogTrial, Adopt,
       UpdateAlias, Publish, LocalMaximum, Restart, RestartSkip, GiveUp, disk, history
  <2>2. pc \in {"clear", "log"} => RowOf(cand, result) \in rows'
    BY <1>3 DEF Climb, EndRounds, BeginRound, LogBaseline, StopAtNeighbor,
       TryNeighbor, PassNeighbor, SkipNeighbor, LogDiscard, LogImprovement, LogTrial, Adopt,
       UpdateAlias, Publish, LocalMaximum, Restart, RestartSkip, GiveUp
  <2>3. RowOf(cand, result).config = cand
    BY DEF RowOf
  <2> QED
    BY <2>1, <2>2, <2>3, <1>3 DEF Kept
<1>4. ASSUME Start \/ Signal, NEW c \in finished'
      PROVE  Kept(c)' \/ (c \in finished /\ ~ Kept(c))
  BY <1>4 DEF Start, Signal, Kept, disk, memory, history
<1>5. IInv /\ [Next]_vars
        => [~ Crash /\ ~ ConsumeRetry
              => \A c \in finished' : Kept(c)' \/ (c \in finished /\ ~ Kept(c))]_vars
  BY <1>1, <1>2, <1>3, <1>4 DEF Next, Step
<1> QED
  BY <1>5, InductiveInvariant, PTL DEF Spec, NoTrialForgotten

-----------------------------------------------------------------------------
(* The Set known to the process covers the store.                          *)

\* w is measured everywhere and nowhere worse than v.
AtLeast(w, v) == Complete(w) /\ \A x \in Axes : w[x] >= v[x]

\* The rows of a model that can beat a Trial of it.
Rivals(m) == {r \in rows : r.outcome = "OK" /\ r.config.model = m /\ Complete(r.vector)}

\* From the seed on, every rival is covered by what the process knows: the
\* seed merges the rows of earlier processes, and each Trial adds its own.
\* What is about to be adopted was compared with all of them.
SetInv ==
    /\ IsFiniteSet(known)
    /\ pc \in ModelPCs => \A r \in Rivals(model_name) : \E w \in known : AtLeast(w, r.vector)
    /\ pc = "adopt" /\ Complete(result.vector)
            => \A r \in Rivals(cand.model) : ~ Dominates(r.vector, result.vector)

LEMMA CompleteIsInt ==
    ASSUME NEW v \in Vectors, Complete(v), NEW x \in Axes
    PROVE  v[x] \in Int
BY ScoresAssumption DEF Vectors, Complete

LEMMA DominatesIsOrder ==
    /\ \A a \in Vectors : ~ Dominates(a, a)
    /\ \A a, b, c \in Vectors : Dominates(a, b) /\ Dominates(b, c) => Dominates(a, c)
    /\ \A a, b, c \in Vectors : AtLeast(a, b) /\ Dominates(b, c) => Dominates(a, c)
<1>1. ASSUME NEW a \in Vectors
      PROVE  ~ Dominates(a, a)
  BY CompleteIsInt DEF Dominates
<1>2. ASSUME NEW a \in Vectors, NEW b \in Vectors, NEW c \in Vectors,
             AtLeast(a, b), Dominates(b, c)
      PROVE  Dominates(a, c)
  <2>1. Complete(a) /\ Complete(b) /\ Complete(c)
    BY <1>2 DEF AtLeast, Dominates
  <2>2. ASSUME NEW x \in Axes
        PROVE  a[x] \in Int /\ b[x] \in Int /\ c[x] \in Int /\ a[x] >= b[x] /\ b[x] >= c[x]
    BY <1>2, <2>1, CompleteIsInt DEF AtLeast, Dominates
  <2>3. PICK x \in Axes : b[x] > c[x]
    BY <1>2 DEF Dominates
  <2>4. a[x] > c[x]
    BY <2>2, <2>3
  <2>5. \A y \in Axes : a[y] >= c[y]
    BY <2>2
  <2> QED
    BY <2>1, <2>4, <2>5 DEF Dominates
<1>3. \A a, b : Dominates(a, b) => AtLeast(a, b)
  BY DEF Dominates, AtLeast
<1> QED
  BY <1>1, <1>2, <1>3

\* A vector that anything in a finite set dominates is dominated by a member
\* of its Pareto Set: of the dominators, take one that the fewest dominate.
LEMMA ParetoSetDecides ==
    ASSUME NEW V \in SUBSET Vectors, IsFiniteSet(V), NEW v \in Vectors,
           NEW w \in V, Dominates(w, v)
    PROVE  \E u \in ParetoSet(V) : Dominates(u, v)
<1> DEFINE Above(u) == {z \in V : Dominates(z, u)}
           Ranks == {Cardinality(Above(u)) : u \in Above(v)}
<1>1. ASSUME NEW u
      PROVE  IsFiniteSet(Above(u)) /\ Cardinality(Above(u)) \in Nat
  BY FS_Subset, FS_CardinalityType
<1>2. Ranks \subseteq Nat /\ Ranks # {}
  BY <1>1
<1>3. PICK n \in Ranks : \A m \in Ranks : ~ (<<m, n>> \in OpToRel(<, Nat))
  <2> HIDE DEF Ranks
  <2> QED
    BY <1>2, NatLessThanWellFounded, WFMin
<1>4. \A m \in Ranks : ~ (m < n)
  BY <1>2, <1>3 DEF OpToRel
<1>5. PICK u \in Above(v) : Cardinality(Above(u)) = n
  OBVIOUS
<1>6. ASSUME NEW z \in V, Dominates(z, u)
      PROVE  FALSE
  <2>1. z \in Above(v) /\ z \in Above(u)
    BY <1>6, DominatesIsOrder
  <2>2. Above(z) \subseteq Above(u) /\ z \notin Above(z)
    BY <1>6, DominatesIsOrder
  <2>3. Cardinality(Above(z)) <= Cardinality(Above(u)) /\ Cardinality(Above(z)) # Cardinality(Above(u))
    <3> HIDE DEF Above
    <3> QED
      BY <2>1, <2>2, <1>1, FS_Subset
  <2>4. Cardinality(Above(z)) \in Ranks
    BY <2>1
  <2>5. Cardinality(Above(z)) \in Nat /\ Cardinality(Above(u)) \in Nat
    BY <1>1
  <2>6. Cardinality(Above(z)) < n
    <3> HIDE DEF Above
    <3> QED
      BY <2>3, <2>5, <1>5
  <2> QED
    <3> HIDE DEF Ranks
    <3> QED
      BY <2>4, <2>6, <1>4
<1>7. Complete(u) /\ u \in V /\ Dominates(u, v)
  BY DEF Dominates
<1> QED
  BY <1>6, <1>7 DEF ParetoSet

\* The one point of a basename covers each of its complete Trials.
LEMMA SeedCovers ==
    ASSUME TypeOK, NEW m, NEW r \in Rivals(m)
    PROVE  \E w \in SeedKnown(m) : AtLeast(w, r.vector)
<1> DEFINE V == {q.vector : q \in {q \in rows : q.outcome = "OK" /\ q.config.model = m}}
<1>1. V \subseteq Vectors /\ r.vector \in V /\ Complete(r.vector)
  BY DEF TypeOK, Rivals
<1>2. ASSUME NEW x \in Axes
      PROVE  Merge(V)[x] \in Scores /\ Merge(V)[x] >= r.vector[x]
  <2>1. Measured(V, x) \subseteq Scores
    BY <1>1 DEF Measured, Vectors
  <2>2. r.vector[x] \in Measured(V, x)
    BY <1>1 DEF Measured, Complete
  <2>3. PICK k \in Measured(V, x) : \A n \in Measured(V, x) : k >= n
    BY <2>1, <2>2, ScoresAssumption
  <2>4. Max(Measured(V, x)) \in Measured(V, x)
        /\ \A n \in Measured(V, x) : Max(Measured(V, x)) >= n
    BY <2>3 DEF Max
  <2>5. Merge(V)[x] = Max(Measured(V, x))
    BY <2>2 DEF Merge
  <2> QED
    BY <2>1, <2>2, <2>4, <2>5
<1>3. Merge(V) \in Vectors /\ Complete(Merge(V))
  <2>1. Merge(V) = [x \in Axes |-> Merge(V)[x]]
    BY DEF Merge
  <2> QED
    BY <1>2, <2>1, ScoresAssumption DEF Vectors, Complete
<1>4. Merge(V) \in SeedKnown(m)
  BY <1>3 DEF SeedKnown
<1> QED
  BY <1>2, <1>3, <1>4 DEF AtLeast

LEMMA SeedIsFinite == \A m : IsFiniteSet(SeedKnown(m))
<1>1. ASSUME NEW p
      PROVE  IsFiniteSet({p} \cap {v \in Vectors : Complete(v)})
  BY FS_Singleton, FS_Subset
<1> QED
  BY <1>1 DEF SeedKnown

\* What joins or improves the Set is beaten by no rival.
LEMMA ImprovementIsNotBeaten ==
    ASSUME TypeOK, SetInv, pc \in ModelPCs, Improves, Complete(result.vector),
           NEW r \in Rivals(model_name)
    PROVE  ~ Dominates(r.vector, result.vector)
<1> DEFINE V == known \cup {result.vector}
<1>1. result.vector \in Vectors /\ r.vector \in Vectors /\ known \subseteq Vectors
  BY DEF TypeOK, Result, Rivals
<1>2. V \in SUBSET Vectors /\ IsFiniteSet(V)
  BY <1>1, FS_AddElement DEF SetInv
<1>3. PICK w \in known : AtLeast(w, r.vector)
  BY DEF SetInv
<1>4. ASSUME Dominates(r.vector, result.vector)
      PROVE  FALSE
  <2>1. w \in V /\ Dominates(w, result.vector)
    BY <1>1, <1>3, <1>4, DominatesIsOrder
  <2>2. \E u \in ParetoSet(V) : Dominates(u, result.vector)
    <3> HIDE DEF V
    <3> QED
      BY <1>1, <1>2, <2>1, ParetoSetDecides
  <2> QED
    BY <2>2 DEF Improves, improves_set
<1> QED
  BY <1>4

\* Logging a Trial adds it to the rows and to what is known.
LEMMA LoggedIsCovered ==
    ASSUME IInv, SetInv, pc = "log", LogTrial, at' = at
    PROVE  /\ IsFiniteSet(known')
           /\ \A r \in Rivals(model_name)' : \E w \in known' : AtLeast(w, r.vector)
<1>1. IsFiniteSet(known')
  BY FS_AddElement DEF SetInv, LogTrial
<1>2. model_name' = model_name
  BY DEF model_name
<1>3. ASSUME NEW r \in Rivals(model_name)'
      PROVE  \E w \in known' : AtLeast(w, r.vector)
  <2>1. CASE r \in rows
    <3>1. r \in Rivals(model_name)
      BY <1>2, <1>3, <2>1 DEF Rivals
    <3> QED
      BY <3>1 DEF SetInv, ModelPCs, TrialPCs, LogTrial
  <2>2. CASE r = RowOf(cand, result)
    <3>1. r.vector = result.vector /\ Complete(r.vector) /\ r.vector \in known'
      BY <1>3, <2>2 DEF Rivals, RowOf, LogTrial
    <3>2. r.vector \in Vectors
      BY <3>1 DEF IInv, TypeOK, Result
    <3>3. AtLeast(r.vector, r.vector)
      BY <3>1, <3>2, CompleteIsInt DEF AtLeast
    <3> QED
      BY <3>1, <3>3
  <2> QED
    BY <1>3, <2>1, <2>2 DEF Rivals, LogTrial
<1> QED
  BY <1>1, <1>3

LEMMA SetInductive == IInv /\ SetInv /\ [Next]_vars => SetInv'
<1> SUFFICES ASSUME IInv, SetInv, [Next]_vars PROVE SetInv'
  OBVIOUS
<1> USE DEF Goto, LeaveModel, ModelPCs, TrialPCs, model_name, disk, memory, history
<1>1. CASE Seed
  <2>1. IsFiniteSet(known')
    BY <1>1, SeedIsFinite DEF Seed
  <2>2. ASSUME NEW r \in Rivals(model_name)'
        PROVE  \E w \in known' : AtLeast(w, r.vector)
    BY <1>1, <2>2, SeedCovers DEF Seed, Rivals, IInv
  <2> QED
    BY <1>1, <2>1, <2>2 DEF Seed, SetInv
<1>2. CASE LogBaseline
  <2>1. pc = "log" /\ LogTrial /\ at' = at /\ pc' # "adopt"
    BY <1>2 DEF LogBaseline
  <2> QED
    BY <2>1, LoggedIsCovered DEF SetInv
<1>3. CASE LogDiscard
  <2>1. pc = "log" /\ LogTrial /\ at' = at /\ pc' # "adopt"
    BY <1>3 DEF LogDiscard
  <2> QED
    BY <2>1, LoggedIsCovered DEF SetInv
<1>4. CASE LogImprovement
  <2>1. pc = "log" /\ LogTrial /\ at' = at /\ Improves /\ result' = result /\ cand' = cand
    BY <1>4 DEF LogImprovement
  <2>2. cand.model = model_name /\ result.vector \in Vectors
    BY <2>1 DEF IInv, TrialIsVisited, TypeOK, Result
  <2>3. ASSUME Complete(result.vector), NEW r \in Rivals(cand.model)'
        PROVE  ~ Dominates(r.vector, result.vector)
    <3>1. CASE r \in rows
      <4>1. r \in Rivals(model_name)
        BY <2>1, <2>2, <2>3, <3>1 DEF Rivals
      <4> QED
        BY <2>1, <2>3, <4>1, ImprovementIsNotBeaten DEF IInv
    <3>2. CASE r = RowOf(cand, result)
      BY <2>2, <3>2, DominatesIsOrder DEF RowOf
    <3> QED
      BY <2>1, <2>3, <3>1, <3>2 DEF Rivals, LogTrial
  <2> QED
    BY <2>1, <2>3, LoggedIsCovered DEF SetInv
<1>5. CASE Opening /\ ~ Seed
  <2>1. known' = known \/ known' = {}
    BY <1>5 DEF Opening, ConsumeNothing, ConsumeRetry, ConsumeRow, ConsumeMark, ConsumeClear,
       Reset, NoReset, Finish, BeginModel, ScreenPoint, ScreenDone, Forget
  <2>2. pc' \notin ModelPCs
    BY <1>5 DEF Opening, ConsumeNothing, ConsumeRetry, ConsumeRow, ConsumeMark, ConsumeClear,
       Reset, NoReset, Finish, BeginModel, ScreenPoint, ScreenDone, Forget
  <2> QED
    BY <2>1, <2>2, FS_EmptySet DEF SetInv
<1>6. CASE Trial
  <2>1. CASE LogAndRaise
    BY <2>1, FS_EmptySet DEF LogAndRaise, Forget, SetInv
  <2>2. CASE WriteJournal \/ RunTrial \/ ClearJournal
    BY <2>2 DEF WriteJournal, RunTrial, ClearJournal, SetInv, Rivals
  <2> QED
    BY <1>6, <2>1, <2>2 DEF Trial
<1>7. CASE Climb /\ ~ LogBaseline /\ ~ LogDiscard /\ ~ LogImprovement
  <2>1. known' = known /\ rows' = rows /\ pc' # "adopt"
    BY <1>7 DEF Climb, EndRounds, BeginRound, StopAtNeighbor, TryNeighbor, PassNeighbor,
       SkipNeighbor, Adopt, UpdateAlias, Publish, LocalMaximum, Restart, RestartSkip, GiveUp
  <2>2. pc \in ModelPCs /\ (pc' \in ModelPCs => at' = at)
    BY <1>7 DEF Climb, EndRounds, BeginRound, StopAtNeighbor, TryNeighbor, PassNeighbor,
       SkipNeighbor, Adopt, UpdateAlias, Publish, LocalMaximum, Restart, RestartSkip, GiveUp
  <2> QED
    BY <2>1, <2>2 DEF SetInv, Rivals
<1>8. CASE Start \/ Signal \/ Crash \/ UNCHANGED vars
  <2>1. CASE Start
    BY <2>1 DEF Start, SetInv
  <2>2. CASE Signal \/ UNCHANGED vars
    BY <2>2 DEF Signal, vars, SetInv, Rivals
  <2>3. CASE Crash
    BY <2>3, FS_EmptySet DEF Crash, Forget, SetInv
  <2> QED
    BY <1>8, <2>1, <2>2, <2>3
<1> QED
  BY <1>1, <1>2, <1>3, <1>4, <1>5, <1>6, <1>7, <1>8 DEF Next, Step

\* Nobody's Trial of the model, of this process or of an earlier one, beats
\* the Neighbor that becomes the Baseline (autoloop._seed_known_vectors,
\* search.improves_set).
THEOREM NobodyBeatsTheAdopted == ASSUME DistinctModels PROVE Spec => AdoptedIsNotBeaten
<1>1. Init => SetInv
  BY FS_EmptySet DEF Init, SetInv, ModelPCs, TrialPCs
<1>2. IInv /\ SetInv /\ [Next]_vars
        => [Adopt /\ Complete(result.vector) =>
              ~ \E r \in rows : /\ r.outcome = "OK"
                                /\ r.config.model = cand.model
                                /\ Dominates(r.vector, result.vector)]_vars
  BY DEF Adopt, SetInv, Rivals, Dominates
<1> QED
  BY <1>1, <1>2, SetInductive, InductiveInvariant, PTL DEF Spec, AdoptedIsNotBeaten

-----------------------------------------------------------------------------
(* A process runs out of steps: each one lowers what is left of the        *)
(* opening and the models, of the unvisited configurations, of the round,  *)
(* or of the screen.                                                       *)

StageLeft ==
    CASE pc = "off" -> 0
      [] pc = "reset" -> Len(SelectedModels) + 3
      [] pc = "consume_clear" -> Len(SelectedModels) + 4
      [] pc = "consume_mark" -> Len(SelectedModels) + 5
      [] pc = "consume" -> Len(SelectedModels) + 6
      [] OTHER -> Len(SelectedModels) + 2 - at

Unvisited == Cardinality(Config \ mem)

\* A Neighbor's Trial comes before the next round, and the Baseline's within it.
Place ==
    CASE pc = "model" -> 18
      [] pc = "screen" -> 17
      [] pc = "seed" -> 16
      [] pc = "preflight" -> 15
      [] pc = "journal" -> IF cand = baseline THEN 6 ELSE 14
      [] pc = "run" -> IF cand = baseline THEN 5 ELSE 13
      [] pc = "clear" -> IF cand = baseline THEN 4 ELSE 12
      [] pc = "log" -> IF cand = baseline THEN 3 ELSE 11
      [] pc = "adopt" -> 10
      [] pc = "alias" -> 9
      [] pc = "publish" -> 8
      [] pc = "round" -> IF baseline \in mem THEN 7 ELSE 0
      [] pc = "neighbors" -> 2
      [] pc \in {"restart", "rejected"} -> 1
      [] OTHER -> 0

PointsLeft == IF pc = "screen" THEN count ELSE 0

Left == <<StageLeft, Unvisited, Place, PointsLeft>>
Lower == LexProductOrdering(OpToRel(<, Nat), Nat, 4)

\* One component is lowered, and those before it stay.
LEMMA LowerWhen ==
    ASSUME NEW a \in Nat, NEW b \in Nat, NEW c \in Nat, NEW d \in Nat,
           NEW w \in Nat, NEW x \in Nat, NEW y \in Nat, NEW z \in Nat,
           \/ a < w
           \/ a = w /\ b < x
           \/ a = w /\ b = x /\ c < y
           \/ a = w /\ b = x /\ c = y /\ d < z
    PROVE  <<<<a, b, c, d>>, <<w, x, y, z>>>> \in Lower
<1> DEFINE f == <<a, b, c, d>>
           g == <<w, x, y, z>>
<1>1. f \in [1..4 -> Nat] /\ g \in [1..4 -> Nat]
  OBVIOUS
<1>2. /\ f[1] = a /\ f[2] = b /\ f[3] = c /\ f[4] = d
      /\ g[1] = w /\ g[2] = x /\ g[3] = y /\ g[4] = z
  OBVIOUS
<1> HIDE DEF f, g
<1>3. \E j \in 1..4 : (\A i \in 1..(j - 1) : f[i] = g[i]) /\ f[j] < g[j]
  <2>1. CASE a < w
    <3>1. (\A i \in 1..(1 - 1) : f[i] = g[i]) /\ f[1] < g[1]
      BY <1>2, <2>1
    <3> QED
      BY <3>1
  <2>2. CASE a = w /\ b < x
    <3>1. (\A i \in 1..(2 - 1) : f[i] = g[i]) /\ f[2] < g[2]
      BY <1>2, <2>2
    <3> QED
      BY <3>1
  <2>3. CASE a = w /\ b = x /\ c < y
    <3>1. (\A i \in 1..(3 - 1) : f[i] = g[i]) /\ f[3] < g[3]
      BY <1>2, <2>3
    <3> QED
      BY <3>1
  <2>4. CASE a = w /\ b = x /\ c = y /\ d < z
    <3>1. (\A i \in 1..(4 - 1) : f[i] = g[i]) /\ f[4] < g[4]
      BY <1>2, <2>4
    <3> QED
      BY <3>1
  <2> QED
    BY <2>1, <2>2, <2>3, <2>4
<1>4. PICK j \in 1..4 : (\A i \in 1..(j - 1) : f[i] = g[i]) /\ f[j] < g[j]
  BY <1>3
<1>5. <<f[j], g[j]>> \in OpToRel(<, Nat)
  BY <1>1, <1>4 DEF OpToRel
<1>6. <<f, g>> \in Lower
  BY <1>1, <1>4, <1>5 DEF Lower, LexProductOrdering
<1> QED
  BY <1>6 DEF f, g

LEMMA FewerUnvisited ==
    ASSUME IsFiniteSet(Config), NEW M, NEW N, NEW c \in Config, c \notin M, N = M \cup {c}
    PROVE  /\ Cardinality(Config \ N) \in Nat /\ Cardinality(Config \ M) \in Nat
           /\ Cardinality(Config \ N) < Cardinality(Config \ M)
<1>1. IsFiniteSet(Config \ M) /\ c \in Config \ M
  BY FS_Subset
<1>2. Config \ N = (Config \ M) \ {c}
  OBVIOUS
<1>3. IsFiniteSet(Config \ N) /\ Cardinality(Config \ N) = Cardinality(Config \ M) - 1
  BY <1>1, <1>2, FS_RemoveElement
<1>4. Cardinality(Config \ N) \in Nat /\ Cardinality(Config \ M) \in Nat
  BY <1>1, <1>3, FS_CardinalityType
<1> QED
  BY <1>3, <1>4

LEMMA LeftType ==
    ASSUME IsFiniteSet(Config), TypeOK
    PROVE  StageLeft \in Nat /\ Unvisited \in Nat /\ Place \in Nat /\ PointsLeft \in Nat
<1>1. StageLeft \in Nat
  BY ConstantFacts DEF TypeOK, StageLeft
<1>2. Unvisited \in Nat
  BY FS_Subset, FS_CardinalityType DEF Unvisited
<1>3. Place \in Nat
  BY DEF Place
<1>4. PointsLeft \in Nat
  BY DEF TypeOK, PointsLeft
<1> QED
  BY <1>1, <1>2, <1>3, <1>4

\* The steps of the opening; a model is screened point by point.
LEMMA OpeningLowers ==
    ASSUME IInv, Opening
    PROVE  \/ StageLeft' < StageLeft
           \/ StageLeft' = StageLeft /\ Unvisited' = Unvisited /\ Place' < Place
           \/ StageLeft' = StageLeft /\ Unvisited' = Unvisited /\ Place' = Place /\ PointsLeft' < PointsLeft
<1> USE ConstantFacts DEF Goto, disk, memory, history
<1>1. at \in 1..(Len(SelectedModels) + 1) /\ count \in Nat
  BY DEF IInv, TypeOK
<1>2. CASE ConsumeNothing \/ ConsumeRetry \/ ConsumeRow \/ ConsumeMark \/ ConsumeClear
  <2>1. \/ pc = "consume" /\ pc' \in {"reset", "consume_mark"}
        \/ pc = "consume_mark" /\ pc' = "consume_clear"
        \/ pc = "consume_clear" /\ pc' = "reset"
    BY <1>2 DEF ConsumeNothing, ConsumeRetry, ConsumeRow, ConsumeMark, ConsumeClear
  <2> QED
    BY <2>1 DEF StageLeft
<1>3. CASE Reset \/ NoReset
  <2>1. pc = "reset" /\ pc' = "model" /\ at' = at
    BY <1>3 DEF Reset, NoReset
  <2> QED
    BY <1>1, <2>1 DEF StageLeft
<1>4. CASE Finish
  <2>1. pc = "model" /\ pc' = "off"
    BY <1>4 DEF Finish
  <2> QED
    BY <1>1, <2>1 DEF StageLeft
<1>5. CASE BeginModel \/ ScreenPoint \/ ScreenDone \/ Seed
  <2>1. /\ at' = at /\ mem' = mem
        /\ \/ pc = "model" /\ pc' \in {"screen", "seed"}
           \/ pc = "screen" /\ pc' = "screen" /\ count > 0 /\ count' = count - 1
           \/ pc = "screen" /\ pc' = "seed"
           \/ pc = "seed" /\ pc' = "round"
    BY <1>5 DEF BeginModel, ScreenPoint, ScreenDone, Seed
  <2>2. StageLeft' = StageLeft
    BY <2>1 DEF StageLeft
  <2>3. Unvisited' = Unvisited
    BY <2>1 DEF Unvisited
  <2>4. Place' < Place \/ (Place' = Place /\ PointsLeft' < PointsLeft)
    BY <1>1, <2>1 DEF Place, PointsLeft
  <2> QED
    BY <2>2, <2>3, <2>4
<1> QED
  BY <1>2, <1>3, <1>4, <1>5 DEF Opening

\* The steps of a Trial.
LEMMA TrialLowers ==
    ASSUME IInv, Trial
    PROVE  \/ StageLeft' < StageLeft
           \/ StageLeft' = StageLeft /\ Unvisited' = Unvisited /\ Place' < Place
<1> USE ConstantFacts DEF Goto, disk, memory, history
<1>1. at \in 1..(Len(SelectedModels) + 1)
  BY DEF IInv, TypeOK
<1>2. CASE LogAndRaise
  <2>1. pc = "log" /\ pc' = "off"
    BY <1>2 DEF LogAndRaise
  <2> QED
    BY <1>1, <2>1 DEF StageLeft
<1>3. CASE WriteJournal \/ RunTrial \/ ClearJournal
  <2>1. /\ UNCHANGED <<at, mem, cand, baseline>>
        /\ \/ pc = "journal" /\ pc' = "run"
           \/ pc = "run" /\ pc' = "clear"
           \/ pc = "clear" /\ pc' = "log"
    BY <1>3 DEF WriteJournal, RunTrial, ClearJournal
  <2>2. StageLeft' = StageLeft
    BY <2>1 DEF StageLeft
  <2>3. Unvisited' = Unvisited
    BY <2>1 DEF Unvisited
  <2>4. Place' < Place
    BY <2>1 DEF Place
  <2> QED
    BY <2>2, <2>3, <2>4
<1> QED
  BY <1>2, <1>3 DEF Trial

\* The steps of the climb: a model is left, a configuration visited, or the round goes on.
LEMMA ClimbLowers ==
    ASSUME IsFiniteSet(Config), IInv, Climb
    PROVE  \/ StageLeft' < StageLeft
           \/ StageLeft' = StageLeft /\ Unvisited' < Unvisited
           \/ StageLeft' = StageLeft /\ Unvisited' = Unvisited /\ Place' < Place
<1> USE ConstantFacts DEF Goto, disk, memory, history
<1>1. at \in 1..(Len(SelectedModels) + 1) /\ baseline \in Config
  BY DEF IInv, TypeOK
<1>2. CASE EndRounds \/ StopAtNeighbor \/ GiveUp
  <2>1. pc \in {"round", "neighbors", "rejected", "restart"} /\ pc' = "model" /\ at' = at + 1
    BY <1>2 DEF EndRounds, StopAtNeighbor, GiveUp, LeaveModel
  <2> QED
    BY <1>1, <2>1 DEF StageLeft
<1>3. ASSUME pc \in {"round", "neighbors", "restart"}, pc' \in PCs \ {"off", "reset", "consume_clear", "consume_mark", "consume"},
             at' = at, NEW c \in Config, c \notin mem, mem' = mem \cup {c}
      PROVE  StageLeft' = StageLeft /\ Unvisited' < Unvisited
  <2>1. StageLeft' = StageLeft
    BY <1>3 DEF StageLeft
  <2>2. Unvisited' < Unvisited
    BY <1>3, FewerUnvisited DEF Unvisited
  <2> QED
    BY <2>1, <2>2
<1>4. CASE BeginRound /\ baseline \notin mem
  <2>1. pc = "round" /\ pc' = "journal" /\ at' = at /\ mem' = mem \cup {baseline}
    BY <1>4 DEF BeginRound, MarkVisited
  <2> QED
    BY <1>1, <1>3, <1>4, <2>1 DEF PCs
<1>5. CASE TryNeighbor
  <2>1. PICK n \in Untried : mem' = mem \cup {n}
    BY <1>5 DEF TryNeighbor, MarkVisited
  <2>2. n \in Config /\ n \notin mem
    BY UntriedFacts DEF IInv
  <2>3. pc = "neighbors" /\ pc' = "preflight" /\ at' = at
    BY <1>5 DEF TryNeighbor
  <2> QED
    BY <1>3, <2>1, <2>2, <2>3 DEF PCs
<1>6. CASE RestartSkip
  <2>1. PICK c \in Restarts \ {NoConfig} : mem' = mem \cup {c}
    BY <1>6 DEF RestartSkip
  <2>2. c \in Config /\ c \notin mem
    BY RestartFacts DEF IInv
  <2>3. pc = "restart" /\ pc' = "restart" /\ at' = at
    BY <1>6 DEF RestartSkip
  <2> QED
    BY <1>3, <2>1, <2>2, <2>3 DEF PCs
<1>7. CASE \/ BeginRound /\ baseline \in mem
           \/ LogBaseline \/ PassNeighbor \/ SkipNeighbor \/ LogDiscard \/ LogImprovement
           \/ Adopt \/ UpdateAlias \/ Publish \/ LocalMaximum \/ Restart
  <2>1. at' = at /\ mem' = mem
    BY <1>7 DEF BeginRound, LogBaseline, PassNeighbor, SkipNeighbor, LogDiscard, LogImprovement, Adopt,
                UpdateAlias, Publish, LocalMaximum, Restart
  <2>2. \/ pc = "round" /\ baseline \in mem /\ pc' = "journal" /\ cand' = baseline /\ baseline' = baseline
        \/ pc = "log" /\ cand = baseline /\ pc' \in {"neighbors", "rejected"}
        \/ pc = "preflight" /\ pc' \in {"journal", "neighbors"}
        \/ pc = "log" /\ cand # baseline /\ pc' \in {"neighbors", "adopt"}
        \/ pc = "adopt" /\ pc' = "alias"
        \/ pc = "alias" /\ pc' = "publish"
        \/ pc = "publish" /\ pc' = "round"
        \/ pc = "neighbors" /\ pc' = "restart"
        \/ pc \in {"rejected", "restart"} /\ pc' = "round" /\ baseline' \notin mem
    <3>1. CASE Restart
      <4>1. PICK c \in Restarts \ {NoConfig} : baseline' = c
        BY <3>1 DEF Restart
      <4>2. c \notin mem
        BY RestartFacts DEF IInv
      <4> QED
        BY <3>1, <4>1, <4>2 DEF Restart
    <3>2. CASE BeginRound /\ baseline \in mem
      BY <3>2 DEF BeginRound
    <3>3. CASE LogBaseline \/ LogDiscard \/ LogImprovement
      BY <3>3 DEF LogBaseline, LogDiscard, LogImprovement
    <3>4. CASE PassNeighbor \/ SkipNeighbor \/ Adopt \/ UpdateAlias \/ Publish \/ LocalMaximum
      BY <3>4 DEF PassNeighbor, SkipNeighbor, Adopt, UpdateAlias, Publish, LocalMaximum
    <3> QED
      BY <1>7, <3>1, <3>2, <3>3, <3>4
  <2>3. StageLeft' = StageLeft
    BY <2>1, <2>2 DEF StageLeft
  <2>4. Unvisited' = Unvisited
    BY <2>1 DEF Unvisited
  <2>5. Place' < Place
    BY <2>1, <2>2 DEF Place
  <2> QED
    BY <2>3, <2>4, <2>5
<1> QED
  BY <1>2, <1>4, <1>5, <1>6, <1>7 DEF Climb

\* A Search over finitely many configurations cannot go on for ever by itself: each of its steps
\* lowers what is left of it in an order in which nothing can be lowered without end, and a signal
\* leaves it as it is (autoloop.main: no Neighbor and no restart candidate comes twice, and a round
\* whose Baseline was visited comes only after one that improved).
THEOREM SearchRunsOut ==
    ASSUME DistinctModels, IsFiniteSet(Config)
    PROVE  /\ IsWellFoundedOn(Lower, [1..4 -> Nat])
           /\ Spec => [](Left \in [1..4 -> Nat])
           /\ Spec => [][(Step => <<Left', Left>> \in Lower) /\ (Signal => Left' = Left)]_vars
<1> DEFINE Typed == StageLeft \in Nat /\ Unvisited \in Nat /\ Place \in Nat /\ PointsLeft \in Nat
           Lowered == (Step => <<Left', Left>> \in Lower) /\ (Signal => Left' = Left)
<1>1. IsWellFoundedOn(Lower, [1..4 -> Nat])
  BY NatLessThanWellFounded, WFLexProductOrdering DEF Lower
<1>2. IInv => Typed
  BY LeftType DEF IInv
<1>3. Typed => Left \in [1..4 -> Nat]
  BY DEF Left
<1>4. IInv /\ Typed /\ Typed' /\ [Next]_vars => [Lowered]_vars
  <2> SUFFICES ASSUME IInv, Typed, Typed' PROVE Lowered
    OBVIOUS
  <2>1. ASSUME Step PROVE <<Left', Left>> \in Lower
    BY <2>1, OpeningLowers, TrialLowers, ClimbLowers, LowerWhen DEF Step, Left
  <2>2. ASSUME Signal PROVE Left' = Left
    BY <2>2 DEF Signal, Left, StageLeft, Unvisited, Place, PointsLeft, disk, memory, history
  <2> QED
    BY <2>1, <2>2
<1> QED
  BY <1>1, <1>2, <1>3, <1>4, InductiveInvariant, PTL DEF Spec
=============================================================================
