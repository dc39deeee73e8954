------------------------- MODULE ResultsStoreProofs -------------------------
(***************************************************************************)
(* The results store, for any number of processes, Trials and crashes and  *)
(* any starting mirror, when every Trial has a trial_id.  The table and    *)
(* its mirror agree as long as the table can be written and was seeded     *)
(* before the processes start; the run store_unseeded shows that the seed  *)
(* is needed.  That no Trial has two rows needs neither.                   *)
(***************************************************************************)
EXTENDS ResultsStore, ClassifyProofs

AllKeyed == \A t \in Trials : Attr[t].keyed

-----------------------------------------------------------------------------
(* What the steps of a process compute.                                    *)

LEMMA AttrIsRecord == \A t \in Trials : Attr[t] \in TrialAttrs
BY AttrAssumption

LEMMA UpsertKeyed ==
    ASSUME AllKeyed, NEW T \in SUBSET Row, NEW R \in SUBSET Row
    PROVE  /\ Upsert(T, R) = {r \in T : r.trial \notin TrialsOf(R)} \cup R
           /\ Upsert(T, R) \in SUBSET Row
           /\ TrialsOf(Upsert(T, R)) = TrialsOf(T) \cup TrialsOf(R)
<1>1. {r \in R : Attr[r.trial].keyed} = R
  BY DEF AllKeyed, Row
<1>2. Upsert(T, R) = {r \in T : r.trial \notin TrialsOf(R)} \cup R
  BY <1>1 DEF Upsert
<1> QED
  BY <1>2 DEF TrialsOf

LEMMA UpdatedRows ==
    ASSUME TypeOK, NEW p \in Procs
    PROVE  Updated(p) \in SUBSET Row /\ TrialsOf(Updated(p)) = TrialsOf(view[p])
<1>1. view[p] \in SUBSET Row
  BY DEF TypeOK
<1> QED
  BY <1>1, RecomputedRows, RelabelledRows DEF Updated, relabel_watchdog_kills

LEMMA PlannedStatus ==
    ASSUME NEW R, NEW t \in Trials
    PROVE  /\ plan_write(R, t) \in TRIAL_STATUSES
           /\ plan_write(R, t) = "rejected" <=> Attr[t].failed
BY AttrIsRecord DEF plan_write, classify_trial, TRIAL_STATUSES, TrialAttrs

LEMMA StartedRow ==
    ASSUME NEW p \in Procs, NEW t \in Trials, StartTrial(p, t), TypeOK
    PROVE  \E r \in Row : /\ trial' = [trial EXCEPT ![p] = {r}]
                          /\ r.trial = t
                          /\ Planned(r)
<1> DEFINE r == [ trial |-> t, copy |-> 0, outcome |-> "final",
                  status |-> IF Attr[t].screen THEN "incomplete" ELSE plan_write(StoreRows, t) ]
<1>1. r \in Row
  BY PlannedStatus DEF Row, Statuses, TRIAL_STATUSES, Outcomes
<1>2. Planned(r)
  BY PlannedStatus DEF Planned, StartTrial
<1> QED
  BY <1>1, <1>2 DEF StartTrial

-----------------------------------------------------------------------------
(* Type correctness, whatever fails.                                       *)

LEMMA WriteRowTypes ==
    ASSUME AllKeyed, TypeOK, NEW p \in Procs, WriteRow(p)
    PROVE  TypeOK'
<1> USE DEF TypeOK, PCs, Goto, files, local, history
<1>1. CASE EnsureNothing(p)
  BY <1>1 DEF EnsureNothing
<1>2. CASE EnsureRead(p)
  BY <1>2 DEF EnsureRead
<1>3. CASE EnsureTruncate(p)
  BY <1>3 DEF EnsureTruncate
<1>4. CASE EnsureRewrite(p)
  BY <1>4 DEF EnsureRewrite
<1>5. CASE LockForWrite(p)
  BY <1>5 DEF LockForWrite, Acquire
<1>6. CASE UpsertTrial(p)
  <2>1. Upsert(db, trial[p]) \in SUBSET Row
    BY UpsertKeyed
  <2> QED
    BY <1>6, <2>1 DEF UpsertTrial
<1>7. CASE AppendTrial(p)
  <2>1. TrialsOf(trial[p]) \subseteq Trials
    BY DEF TrialsOf, Row
  <2> QED
    BY <1>7, <2>1 DEF AppendTrial, AppendLine, Release
<1>8. CASE AppendOnly(p)
  <2>1. TrialsOf(trial[p]) \subseteq Trials
    BY DEF TrialsOf, Row
  <2> QED
    BY <1>8, <2>1 DEF AppendOnly, AppendLine, Release
<1>9. CASE WriteRaises(p)
  BY <1>9 DEF WriteRaises, Release
<1> QED
  BY <1>1, <1>2, <1>3, <1>4, <1>5, <1>6, <1>7, <1>8, <1>9 DEF WriteRow

LEMMA RecomputeStatusesTypes ==
    ASSUME AllKeyed, TypeOK, NEW p \in Procs, RecomputeStatuses(p)
    PROVE  TypeOK'
<1> USE DEF TypeOK, PCs, Goto, files, local, history
<1>1. Updated(p) \in SUBSET Row
  BY UpdatedRows
<1>2. CASE LockForRefresh(p)
  BY <1>2 DEF LockForRefresh, Acquire, StoreRows, StoreSource
<1>3. CASE RefreshNothing(p)
  BY <1>3 DEF RefreshNothing, Finish, Release
<1>4. CASE RefreshTable(p)
  <2>1. Upsert(db, Updated(p) \ view[p]) \in SUBSET Row
    <3>1. Updated(p) \ view[p] \in SUBSET Row /\ db \in SUBSET Row
      BY <1>1
    <3> QED
      BY <3>1, UpsertKeyed
  <2> QED
    BY <1>4, <2>1 DEF RefreshTable
<1>5. CASE Heal(p)
  BY <1>5 DEF Heal, SyncFromTsv
<1>6. CASE Mirror(p)
  BY <1>1, <1>6 DEF Mirror, Finish, Release
<1>7. CASE Seed(p)
  BY <1>7 DEF Seed, SyncFromTsv, Finish, Release
<1> QED
  BY <1>2, <1>3, <1>4, <1>5, <1>6, <1>7 DEF RecomputeStatuses

\* The stores only ever hold rows with one of the known statuses, whichever
\* writes fail and whoever is killed (run.write_row, run.recompute_statuses).
THEOREM TypeCorrect ==
    ASSUME AllKeyed
    PROVE  Spec => []TypeOK
<1>1. Init => TypeOK
  BY StoreAssumption DEF Init, TypeOK, PCs, InitTrials, TrialsOf, Row
<1>2. ASSUME TypeOK, [Next]_vars
      PROVE  TypeOK'
  <2>1. ASSUME NEW p \in Procs, NEW t \in Trials, StartTrial(p, t)
        PROVE  TypeOK'
    <3>1. PICK r \in Row : trial' = [trial EXCEPT ![p] = {r}]
      BY <1>2, <2>1, StartedRow
    <3> QED
      BY <1>2, <2>1, <3>1 DEF StartTrial, TypeOK, PCs, Goto
  <2>2. ASSUME NEW p \in Procs, StartScript(p)
        PROVE  TypeOK'
    BY <1>2, <2>2 DEF StartScript, TypeOK, PCs, Goto, files, history
  <2>3. ASSUME NEW p \in Procs, Crash(p)
        PROVE  TypeOK'
    BY <1>2, <2>3, StoreAssumption DEF Crash, TypeOK, PCs, Goto
  <2>4. CASE UNCHANGED vars
    BY <1>2, <2>4 DEF vars, TypeOK
  <2> QED
    BY <1>2, <2>1, <2>2, <2>3, <2>4, WriteRowTypes, RecomputeStatusesTypes DEF Next
<1> QED
  BY <1>1, <1>2, PTL DEF Spec

-----------------------------------------------------------------------------
(* The lock, and the branches never taken while the table can be written.  *)

LEMMA LockInductive ==
    ASSUME TypeOK, LockHeld, [Next]_vars
    PROVE  LockHeld'
<1> USE StoreAssumption DEF TypeOK, LockHeld, PCs, Critical, Goto, Acquire, Release, Finish
<1>1. ASSUME NEW p \in Procs, NEW t \in Trials, StartTrial(p, t)
      PROVE  LockHeld'
  BY <1>1 DEF StartTrial
<1>2. ASSUME NEW p \in Procs, StartScript(p)
      PROVE  LockHeld'
  BY <1>2 DEF StartScript
<1>3. ASSUME NEW p \in Procs, WriteRow(p)
      PROVE  LockHeld'
  <2>1. CASE EnsureNothing(p) \/ EnsureRead(p) \/ EnsureTruncate(p) \/ EnsureRewrite(p)
    BY <2>1 DEF EnsureNothing, EnsureRead, EnsureTruncate, EnsureRewrite
  <2>2. CASE LockForWrite(p)
    BY <2>2 DEF LockForWrite
  <2>3. CASE UpsertTrial(p)
    BY <2>3 DEF UpsertTrial
  <2>4. CASE AppendTrial(p) \/ AppendOnly(p) \/ WriteRaises(p)
    BY <2>4 DEF AppendTrial, AppendOnly, WriteRaises
  <2> QED
    BY <1>3, <2>1, <2>2, <2>3, <2>4 DEF WriteRow
<1>4. ASSUME NEW p \in Procs, RecomputeStatuses(p)
      PROVE  LockHeld'
  <2>1. CASE LockForRefresh(p)
    BY <2>1 DEF LockForRefresh
  <2>2. CASE RefreshNothing(p)
    BY <2>2 DEF RefreshNothing
  <2>3. CASE RefreshTable(p)
    BY <2>3 DEF RefreshTable
  <2>4. CASE Heal(p)
    BY <2>4 DEF Heal
  <2>5. CASE Mirror(p)
    BY <2>5 DEF Mirror
  <2>6. CASE Seed(p)
    BY <2>6 DEF Seed
  <2> QED
    BY <1>4, <2>1, <2>2, <2>3, <2>4, <2>5, <2>6 DEF RecomputeStatuses
<1>5. ASSUME NEW p \in Procs, Crash(p)
      PROVE  LockHeld'
  BY <1>5 DEF Crash
<1>6. CASE UNCHANGED vars
  BY <1>6 DEF vars
<1> QED
  BY <1>1, <1>2, <1>3, <1>4, <1>5, <1>6 DEF Next

\* Critical sections exclude each other, and a killed owner leaves the lock
\* free (run._results_lock).
THEOREM LockIsHeld ==
    ASSUME AllKeyed
    PROVE  Spec => []LockHeld
<1>1. Init => LockHeld
  BY StoreAssumption DEF Init, LockHeld, Critical
<1> QED
  BY <1>1, LockInductive, TypeCorrect, PTL DEF Spec

-----------------------------------------------------------------------------
(* The table and its mirror, while the table can be written.               *)

\* The parts of IInv other than its type and the lock.
Rest ==
    /\ TableReliable
    /\ MirrorAddsNothing /\ OneRow(db) /\ TableTaken /\ AckedInTable
    /\ ViewsStored /\ MirrorReadWhenEmpty
    /\ PendingIsNew /\ PendingApart /\ AppendedIsStored

LEMMA OneAtATime ==
    ASSUME LockHeld, NEW p \in Procs, pc[p] \in Critical, NEW q \in Procs, q # p
    PROVE  pc[q] \notin Critical
BY DEF LockHeld

\* Replacing what a refresh changed yields what it computed.
LEMMA UpsertOfChanged ==
    ASSUME AllKeyed, NEW T \in SUBSET Row, NEW U \in SUBSET Row,
           OneRow(T), OneRow(U), TrialsOf(U) = TrialsOf(T)
    PROVE  Upsert(T, U \ T) = U
<1>1. Upsert(T, U \ T) = {r \in T : r.trial \notin TrialsOf(U \ T)} \cup (U \ T)
  <2>1. U \ T \in SUBSET Row
    OBVIOUS
  <2> QED
    BY <2>1, UpsertKeyed
<1>2. ASSUME NEW r \in T, r.trial \notin TrialsOf(U \ T)
      PROVE  r \in U
  <2>1. PICK u \in U : u.trial = r.trial
    BY DEF TrialsOf
  <2>2. u \in T
    BY <1>2, <2>1 DEF TrialsOf
  <2> QED
    BY <2>1, <2>2 DEF OneRow
<1>3. ASSUME NEW u \in U, u \in T
      PROVE  u.trial \notin TrialsOf(U \ T)
  BY <1>3 DEF OneRow, TrialsOf
<1> QED
  BY <1>1, <1>2, <1>3

LEMMA UpdatedOneRow ==
    ASSUME TypeOK, NEW p \in Procs, OneRow(view[p])
    PROVE  OneRow(Updated(p))
<1> DEFINE L(r) == IF r \in {q \in view[p] : OldKill(q)} THEN [r EXCEPT !.outcome = "final"] ELSE r
<1>1. view[p] \in SUBSET Row
  BY DEF TypeOK
<1>2. \A r \in view[p] : Refreshed(view[p], r).trial = r.trial /\ L(r).trial = r.trial
  BY <1>1, RefreshedRow DEF Row
<1>3. OneRow(recompute_rows(view[p]))
  BY <1>2 DEF OneRow, recompute_rows
<1>4. OneRow(relabel_watchdog_kills(view[p]))
  <2>1. relabel_watchdog_kills(view[p]) = {L(r) : r \in view[p]}
    BY DEF relabel_watchdog_kills, Relabelled
  <2> HIDE DEF L
  <2> QED
    BY <1>2, <2>1 DEF OneRow
<1> QED
  BY <1>3, <1>4 DEF Updated

\* A refresh that writes the table writes what it computed from it.
LEMMA TableRefreshed ==
    ASSUME AllKeyed, TypeOK, Rest, NEW p \in Procs,
           pc[p] = "refresh", source[p] = "db"
    PROVE  /\ Upsert(db, Updated(p) \ view[p]) = Updated(p)
           /\ OneRow(Updated(p))
           /\ TrialsOf(Updated(p)) = TrialsOf(db)
           /\ Updated(p) \in SUBSET Row
<1>1. view[p] = db /\ OneRow(db) /\ db \in SUBSET Row
  BY DEF Rest, ViewsStored, TypeOK
<1>2. /\ Updated(p) \in SUBSET Row
      /\ TrialsOf(Updated(p)) = TrialsOf(db)
      /\ OneRow(Updated(p))
  BY <1>1, UpdatedRows, UpdatedOneRow
<1> QED
  BY <1>1, <1>2, UpsertOfChanged

LEMMA WriteRowRest ==
    ASSUME AllKeyed, "db" \notin Faults, TypeOK, LockHeld, Rest,
           NEW p \in Procs, WriteRow(p)
    PROVE  Rest'
<1> USE DEF Rest, TypeOK, TableReliable, MirrorAddsNothing, TableTaken, AckedInTable,
            ViewsStored, MirrorReadWhenEmpty, PendingIsNew, PendingApart, AppendedIsStored,
            Pending, Goto, files, local, history
<1>1. CASE EnsureNothing(p)
  BY <1>1 DEF EnsureNothing
<1>2. CASE EnsureRead(p)
  BY <1>2 DEF EnsureRead
<1>3. CASE EnsureTruncate(p)
  BY <1>3 DEF EnsureTruncate, TrialsOf
<1>4. CASE EnsureRewrite(p)
  <2>1. TrialsOf({}) = {}
    BY DEF TrialsOf
  <2> QED
    BY <1>4, <2>1 DEF EnsureRewrite
<1>5. CASE LockForWrite(p)
  BY <1>5 DEF LockForWrite
<1>6. CASE UpsertTrial(p)
  <2>1. PICK r \in trial[p] : trial[p] = {r} /\ Planned(r) /\ r.trial \in taken \ TrialsOf(db)
    BY <1>6 DEF UpsertTrial
  <2>2. TrialsOf(trial[p]) = {r.trial}
    BY <2>1 DEF TrialsOf
  <2>3. /\ db' = Upsert(db, trial[p])
        /\ pc' = [pc EXCEPT ![p] = "append"]
        /\ UNCHANGED <<tsv, lock, task, trial, view, source, taken, acked>>
    BY <1>6 DEF UpsertTrial, Fails
  <2>4. db' = db \cup {r} /\ TrialsOf(db') = TrialsOf(db) \cup {r.trial}
    <3>1. /\ Upsert(db, trial[p]) = {q \in db : q.trial \notin TrialsOf(trial[p])} \cup trial[p]
          /\ TrialsOf(Upsert(db, trial[p])) = TrialsOf(db) \cup TrialsOf(trial[p])
      BY UpsertKeyed
    <3>2. \A q \in db : q.trial \notin TrialsOf(trial[p])
      BY <2>1, <2>2 DEF TrialsOf
    <3> QED
      BY <2>1, <2>2, <2>3, <3>1, <3>2
  <2>5. OneRow(db')
    BY <2>1, <2>4 DEF OneRow, TrialsOf
  <2>6. \A q \in Procs : q # p => pc[q] \notin {"refresh", "mirror", "seed"}
    BY <1>6, OneAtATime DEF Critical, UpsertTrial
  <2>7. PendingIsNew'
    <3>1. ASSUME NEW q \in Procs, pc'[q] \in Pending
          PROVE  \E s \in trial'[q] : /\ trial'[q] = {s}
                                      /\ Planned(s)
                                      /\ s.trial \in taken' \ TrialsOf(db')
      <4>1. q # p /\ pc[q] \in Pending
        BY <2>3, <3>1
      <4>2. PICK s \in trial[q] : trial[q] = {s} /\ Planned(s) /\ s.trial \in taken \ TrialsOf(db)
        BY <4>1
      <4>3. s.trial \in TrialsOf(trial[q])
        BY <4>2 DEF TrialsOf
      <4>4. s.trial # r.trial
        BY <1>6, <2>2, <4>1, <4>3 DEF UpsertTrial
      <4> QED
        BY <2>3, <2>4, <4>2, <4>4
    <3> QED
      BY <3>1
  <2> QED
    BY <2>1, <2>2, <2>3, <2>4, <2>5, <2>6, <2>7
<1>7. CASE AppendTrial(p)
  <2>1. TrialsOf(tsv \cup trial[p]) = TrialsOf(tsv) \cup TrialsOf(trial[p])
    BY DEF TrialsOf
  <2> QED
    BY <1>7, <2>1 DEF AppendTrial, AppendLine
<1>8. CASE AppendOnly(p)
  BY <1>8 DEF AppendOnly
<1>9. CASE WriteRaises(p)
  BY <1>9 DEF WriteRaises
<1> QED
  BY <1>1, <1>2, <1>3, <1>4, <1>5, <1>6, <1>7, <1>8, <1>9 DEF WriteRow

LEMMA RecomputeStatusesRest ==
    ASSUME AllKeyed, "db" \notin Faults, TypeOK, LockHeld, Rest,
           NEW p \in Procs, RecomputeStatuses(p)
    PROVE  Rest'
<1> USE DEF Rest, TypeOK, TableReliable, MirrorAddsNothing, TableTaken, AckedInTable,
            ViewsStored, MirrorReadWhenEmpty, PendingIsNew, PendingApart, AppendedIsStored,
            Pending, Goto, files, local, history
<1>1. TrialsOf({}) = {}
  BY DEF TrialsOf
<1>2. CASE LockForRefresh(p)
  BY <1>2 DEF LockForRefresh, StoreRows, StoreSource
<1>3. CASE RefreshNothing(p)
  <2>1. CASE pc' = [pc EXCEPT ![p] = "seed"] /\ UNCHANGED <<lock, local>>
    <3>1. source[p] = "tsv"
      BY <1>3, <2>1 DEF RefreshNothing, Finish
    <3>2. db = {}
      BY <1>3, <3>1 DEF RefreshNothing
    <3> QED
      BY <1>3, <2>1, <3>2 DEF RefreshNothing
  <2>2. CASE Finish(p)
    BY <1>1, <1>3, <2>2 DEF RefreshNothing, Finish
  <2> QED
    BY <1>3, <2>1, <2>2 DEF RefreshNothing
<1>4. CASE RefreshTable(p)
  <2>1. /\ db' = IF source[p] = "db" THEN Upsert(db, Updated(p) \ view[p]) ELSE db
        /\ pc[p] = "refresh"
        /\ pc' = [pc EXCEPT ![p] = "mirror"]
        /\ UNCHANGED <<tsv, lock, task, trial, view, source, taken, acked>>
    BY <1>4 DEF RefreshTable, Fails
  <2>2. TrialsOf(db') = TrialsOf(db) /\ OneRow(db')
    BY <2>1, TableRefreshed
  <2>3. \A q \in Procs : q # p => pc[q] \notin {"refresh", "mirror", "seed"}
    BY <2>1, OneAtATime DEF Critical
  <2> QED
    BY <2>1, <2>2, <2>3
<1>5. CASE Heal(p)
  BY <1>5 DEF Heal
<1>6. CASE Mirror(p)
  <2>1. TrialsOf(Updated(p)) \subseteq TrialsOf(db)
    BY UpdatedRows
  <2>2. TrialsOf(tsv') \subseteq TrialsOf(db)
    BY <1>6, <2>1 DEF Mirror
  <2>3. pc[p] = "mirror" /\ db' = db /\ UNCHANGED history
    BY <1>6 DEF Mirror
  <2>4. CASE source[p] = "tsv" /\ pc' = [pc EXCEPT ![p] = "seed"] /\ UNCHANGED <<lock, local>>
    <3>1. db = {}
      BY <2>3, <2>4
    <3> QED
      BY <2>2, <2>3, <2>4, <3>1
  <2>5. CASE Finish(p)
    BY <1>1, <2>2, <2>3, <2>5 DEF Finish
  <2> QED
    BY <1>6, <2>4, <2>5 DEF Mirror
<1>7. CASE Seed(p)
  <2>1. db' = db
    <3>1. db = {} /\ TrialsOf(tsv) = {}
      BY <1>1, <1>7 DEF Seed
    <3>2. tsv = {}
      BY <3>1 DEF TrialsOf
    <3> QED
      BY <1>7, <3>1, <3>2 DEF Seed, SyncFromTsv
  <2> QED
    BY <1>1, <1>7, <2>1 DEF Seed, Finish
<1> QED
  BY <1>2, <1>3, <1>4, <1>5, <1>6, <1>7 DEF RecomputeStatuses

LEMMA StartTrialRest ==
    ASSUME TypeOK, Rest, NEW p \in Procs, NEW t \in Trials, StartTrial(p, t)
    PROVE  Rest'
<1> USE DEF Rest, TypeOK, TableReliable, MirrorAddsNothing, TableTaken, AckedInTable,
            ViewsStored, MirrorReadWhenEmpty, AppendedIsStored, Goto
<1>1. PICK r \in Row : /\ trial' = [trial EXCEPT ![p] = {r}]
                       /\ r.trial = t
                       /\ Planned(r)
  BY StartedRow
<1>2. /\ pc[p] = "idle" /\ pc' = [pc EXCEPT ![p] = "ensure"]
      /\ t \notin taken /\ taken' = taken \cup {t}
      /\ UNCHANGED <<db, tsv, lock, task, view, source, acked>>
  BY DEF StartTrial
<1>3. PendingIsNew'
  <2>1. ASSUME NEW q \in Procs, pc'[q] \in Pending
        PROVE  \E s \in trial'[q] : /\ trial'[q] = {s}
                                    /\ Planned(s)
                                    /\ s.trial \in taken' \ TrialsOf(db')
    <3>1. CASE q = p
      BY <1>1, <1>2, <3>1
    <3>2. CASE q # p
      BY <1>1, <1>2, <2>1, <3>2 DEF PendingIsNew
    <3> QED
      BY <3>1, <3>2
  <2> QED
    BY <2>1 DEF PendingIsNew
<1>4. PendingApart'
  <2>1. \A q \in Procs : pc[q] \in Pending => TrialsOf(trial[q]) \subseteq taken
    BY DEF PendingIsNew, TrialsOf
  <2>2. TrialsOf(trial'[p]) = {t} /\ \A q \in Procs : q # p => trial'[q] = trial[q]
    BY <1>1 DEF TrialsOf
  <2>3. \A q \in Procs : q # p => pc'[q] = pc[q]
    BY <1>2
  <2> QED
    BY <1>2, <2>1, <2>2, <2>3 DEF PendingApart
<1> QED
  BY <1>1, <1>2, <1>3, <1>4

LEMMA CrashRest ==
    ASSUME TypeOK, Rest, NEW p \in Procs, Crash(p)
    PROVE  Rest'
<1>1. TrialsOf({}) = {}
  BY DEF TrialsOf
<1> QED
  BY <1>1 DEF Crash, Rest, TypeOK, TableReliable, MirrorAddsNothing, TableTaken, AckedInTable,
              ViewsStored, MirrorReadWhenEmpty, PendingIsNew, PendingApart, AppendedIsStored,
              Pending, Goto

\* What is assumed of the store besides trial_ids: its table can be written,
\* has one row per Trial and every Trial of the mirror.
SeededStore ==
    /\ "db" \notin Faults
    /\ OneRow(InitDb)
    /\ TrialsOf(InitTsv) \subseteq TrialsOf(InitDb)

LEMMA RestInductive ==
    ASSUME AllKeyed, SeededStore, TypeOK, LockHeld, Rest, [Next]_vars
    PROVE  Rest'
<1>1. "db" \notin Faults
  BY DEF SeededStore
<1>2. ASSUME NEW p \in Procs, StartScript(p)
      PROVE  Rest'
  BY <1>2 DEF StartScript, Rest, TypeOK, TableReliable, MirrorAddsNothing, TableTaken,
              AckedInTable, ViewsStored, MirrorReadWhenEmpty, PendingIsNew, PendingApart,
              AppendedIsStored, Pending, Goto, files, history
<1>3. CASE UNCHANGED vars
  BY <1>3 DEF vars, Rest, TableReliable, MirrorAddsNothing, TableTaken,
              AckedInTable, ViewsStored, MirrorReadWhenEmpty, PendingIsNew, PendingApart,
              AppendedIsStored
<1> QED
  BY <1>1, <1>2, <1>3, StartTrialRest, WriteRowRest, RecomputeStatusesRest, CrashRest DEF Next

\* The inductive invariant holds of every seeded store.
THEOREM InductiveInvariant ==
    ASSUME AllKeyed, SeededStore
    PROVE  Spec => []IInv
<1>1. Init => Rest
  <2>1. TrialsOf({}) = {}
    BY DEF TrialsOf
  <2> QED
    BY <2>1 DEF SeededStore, Init, Rest, TableReliable, MirrorAddsNothing, TableTaken,
              AckedInTable, ViewsStored, MirrorReadWhenEmpty, PendingIsNew, PendingApart,
              AppendedIsStored, Pending, InitTrials
<1>2. IInv <=> TypeOK /\ LockHeld /\ Rest
  BY DEF IInv, Rest
<1> QED
  BY <1>1, <1>2, TypeCorrect, LockIsHeld, RestInductive, PTL DEF Spec

\* No refresh, migration or crash hides a Trial whose write_row has returned:
\* it is among the rows every reader gets (run.write_row,
\* run.recompute_statuses, results_db.load_rows).
THEOREM NoTrialDisappears ==
    ASSUME AllKeyed, SeededStore
    PROVE  Spec => []AckedVisible
<1>1. IInv => AckedVisible
  BY DEF IInv, AckedInTable, AckedVisible, StoreRows, TrialsOf
<1> QED
  BY <1>1, InductiveInvariant, PTL

\* The mirror never shows a Trial the table lacks.
THEOREM MirrorIsPartOfTable ==
    ASSUME AllKeyed, SeededStore
    PROVE  Spec => []MirrorAddsNothing
<1>1. IInv => MirrorAddsNothing
  BY DEF IInv
<1> QED
  BY <1>1, InductiveInvariant, PTL

-----------------------------------------------------------------------------
(* One row of each Trial, whatever fails and whatever the files hold.      *)

Logging == {"ensure", "truncate", "rewrite", "lock_write", "upsert", "append", "append_only"}

Singles == OneRow(db) /\ OneRow(tsv) /\ \A p \in Procs : OneRow(view[p]) /\ OneRow(trial[p])

StoredTaken ==
    /\ TrialsOf(db) \subseteq taken /\ TrialsOf(tsv) \subseteq taken
    /\ \A p \in Procs : TrialsOf(view[p]) \subseteq taken

\* A Trial on its way to the mirror is there nowhere, and in nobody's hands who could write it there.
Unlogged ==
    \A p \in Procs : \A t \in TrialsOf(trial[p]) :
        /\ pc[p] \in Logging
        /\ t \in taken \ TrialsOf(tsv)
        /\ pc[p] # "append" => t \notin TrialsOf(db)
        /\ \A q \in Procs : t \notin TrialsOf(view[q])
        /\ \A q \in Procs : q # p => t \notin TrialsOf(trial[q])

Unique == Singles /\ StoredTaken /\ Unlogged

LEMMA NoTrials == TrialsOf({}) = {} /\ OneRow({})
BY DEF TrialsOf, OneRow

LEMMA UnionOneRow ==
    ASSUME NEW A, NEW B, OneRow(A), OneRow(B), TrialsOf(A) \cap TrialsOf(B) = {}
    PROVE  OneRow(A \cup B) /\ TrialsOf(A \cup B) = TrialsOf(A) \cup TrialsOf(B)
BY DEF OneRow, TrialsOf

LEMMA UpsertOneRow ==
    ASSUME AllKeyed, NEW T \in SUBSET Row, NEW R \in SUBSET Row, OneRow(T), OneRow(R)
    PROVE  OneRow(Upsert(T, R)) /\ TrialsOf(Upsert(T, R)) = TrialsOf(T) \cup TrialsOf(R)
<1> DEFINE Others == {r \in T : r.trial \notin TrialsOf(R)}
<1>1. OneRow(Others) /\ TrialsOf(Others) \cap TrialsOf(R) = {}
  BY DEF OneRow, TrialsOf
<1> QED
  BY <1>1, UnionOneRow, UpsertKeyed

LEMMA WriteRowUnique ==
    ASSUME AllKeyed, TypeOK, LockHeld, Unique, NEW p \in Procs, WriteRow(p)
    PROVE  Unique'
<1> USE NoTrials DEF Unique, TypeOK, Singles, StoredTaken, Unlogged, Logging, Goto, files, local, history
<1>1. CASE EnsureNothing(p)
  BY <1>1 DEF EnsureNothing
<1>2. CASE EnsureRead(p)
  BY <1>2 DEF EnsureRead
<1>3. CASE EnsureTruncate(p)
  BY <1>3 DEF EnsureTruncate
<1>4. CASE EnsureRewrite(p)
  BY <1>4 DEF EnsureRewrite
<1>5. CASE LockForWrite(p)
  BY <1>5 DEF LockForWrite
<1>6. CASE UpsertTrial(p)
  <2>1. CASE db' = Upsert(db, trial[p]) /\ pc' = [pc EXCEPT ![p] = "append"]
    <3>1. OneRow(db') /\ TrialsOf(db') = TrialsOf(db) \cup TrialsOf(trial[p])
      BY <2>1, UpsertOneRow
    <3>2. UNCHANGED <<tsv, lock, task, trial, view, source, taken, acked>>
      BY <1>6 DEF UpsertTrial
    <3> QED
      BY <2>1, <3>1, <3>2
  <2>2. CASE db' = db /\ pc' = [pc EXCEPT ![p] = "append_only"]
    BY <1>6, <2>2 DEF UpsertTrial
  <2> QED
    BY <1>6, <2>1, <2>2 DEF UpsertTrial
<1>7. CASE AppendTrial(p) \/ AppendOnly(p)
  <2>1. /\ OneRow(tsv \cup trial[p])
        /\ TrialsOf(tsv \cup trial[p]) = TrialsOf(tsv) \cup TrialsOf(trial[p])
    <3>1. TrialsOf(tsv) \cap TrialsOf(trial[p]) = {}
      OBVIOUS
    <3> QED
      BY <3>1, UnionOneRow
  <2>2. /\ tsv' \in {tsv, tsv \cup trial[p]}
        /\ trial' = [trial EXCEPT ![p] = {}]
        /\ pc' = [pc EXCEPT ![p] = "lock_refresh"]
        /\ UNCHANGED <<db, view, taken>>
    BY <1>7 DEF AppendTrial, AppendOnly, AppendLine
  <2>3. OneRow(tsv') /\ TrialsOf(tsv') \subseteq TrialsOf(tsv) \cup TrialsOf(trial[p])
    BY <2>1, <2>2
  <2> QED
    BY <2>2, <2>3
<1>8. CASE WriteRaises(p)
  BY <1>8 DEF WriteRaises
<1> QED
  BY <1>1, <1>2, <1>3, <1>4, <1>5, <1>6, <1>7, <1>8 DEF WriteRow

\* A refresh computes rows of the Trials it has read.
LEMMA RefreshComputes ==
    ASSUME TypeOK, Unique, NEW p \in Procs
    PROVE  /\ Updated(p) \in SUBSET Row /\ OneRow(Updated(p))
           /\ TrialsOf(Updated(p)) = TrialsOf(view[p])
BY UpdatedRows, UpdatedOneRow DEF Unique, Singles

LEMMA RefreshUpserts ==
    ASSUME AllKeyed, TypeOK, Unique, NEW p \in Procs
    PROVE  LET T == Upsert(db, Updated(p) \ view[p])
           IN  OneRow(T) /\ TrialsOf(T) \subseteq TrialsOf(db) \cup TrialsOf(view[p])
<1> DEFINE R == Updated(p) \ view[p]
<1>1. R \in SUBSET Row
  BY RefreshComputes
<1>2. OneRow(R)
  BY RefreshComputes DEF OneRow
<1>3. TrialsOf(R) \subseteq TrialsOf(view[p])
  BY RefreshComputes DEF TrialsOf
<1>4. db \in SUBSET Row /\ OneRow(db)
  BY DEF TypeOK, Unique, Singles
<1> HIDE DEF R
<1>5. OneRow(Upsert(db, R)) /\ TrialsOf(Upsert(db, R)) = TrialsOf(db) \cup TrialsOf(R)
  BY <1>1, <1>2, <1>4, UpsertOneRow
<1> QED
  BY <1>3, <1>5 DEF R

LEMMA RecomputeStatusesUnique ==
    ASSUME AllKeyed, TypeOK, LockHeld, Unique, NEW p \in Procs, RecomputeStatuses(p)
    PROVE  Unique'
<1> USE NoTrials DEF Unique, TypeOK, Singles, StoredTaken, Unlogged, Logging, Goto, files, local, history
<1>1. \A t \in TrialsOf(trial[p]) : pc[p] \in Logging
  OBVIOUS
<1>2. CASE LockForRefresh(p)
  <2>1. \A q \in Procs : pc[q] # "append"
    BY <1>2, StoreAssumption DEF LockForRefresh, Acquire, LockHeld, Critical
  <2> QED
    BY <1>2, <2>1 DEF LockForRefresh, StoreRows
<1>3. CASE RefreshNothing(p)
  BY <1>3 DEF RefreshNothing, Finish
<1>4. CASE RefreshTable(p)
  <2>1. /\ db' \in {db, Upsert(db, Updated(p) \ view[p])}
        /\ pc[p] = "refresh" /\ \E label \in {"mirror", "heal"} : pc' = [pc EXCEPT ![p] = label]
        /\ UNCHANGED <<tsv, trial, view, taken>>
    BY <1>4 DEF RefreshTable
  <2>2. OneRow(db') /\ TrialsOf(db') \subseteq TrialsOf(db) \cup TrialsOf(view[p])
    BY <2>1, RefreshUpserts
  <2> QED
    BY <2>1, <2>2
<1>5. CASE Heal(p)
  BY <1>5 DEF Heal, SyncFromTsv
<1>6. CASE Mirror(p)
  <2>1. OneRow(tsv') /\ TrialsOf(tsv') \subseteq TrialsOf(tsv) \cup TrialsOf(view[p])
    BY <1>6, RefreshComputes DEF Mirror
  <2> QED
    BY <1>6, <2>1 DEF Mirror, Finish
<1>7. CASE Seed(p)
  BY <1>7 DEF Seed, SyncFromTsv, Finish
<1> QED
  BY <1>2, <1>3, <1>4, <1>5, <1>6, <1>7 DEF RecomputeStatuses

LEMMA StartTrialUnique ==
    ASSUME TypeOK, Unique, NEW p \in Procs, NEW t \in Trials, StartTrial(p, t)
    PROVE  Unique'
<1>1. PICK r \in Row : trial' = [trial EXCEPT ![p] = {r}] /\ r.trial = t
  BY StartedRow
<1>2. OneRow({r}) /\ TrialsOf({r}) = {t}
  BY <1>1 DEF OneRow, TrialsOf
<1>3. \A q \in Procs : TrialsOf(trial[q]) \subseteq taken
  BY DEF Unique, Unlogged
<1>4. /\ t \notin taken /\ taken' = taken \cup {t}
      /\ pc' = [pc EXCEPT ![p] = "ensure"] /\ UNCHANGED <<db, tsv, view>>
  BY DEF StartTrial, Goto
<1>5. /\ trial'[p] = {r} /\ pc'[p] = "ensure"
      /\ \A q \in Procs : q # p => trial'[q] = trial[q] /\ pc'[q] = pc[q]
  BY <1>1, <1>4 DEF TypeOK
<1>6. Singles' /\ StoredTaken'
  BY <1>2, <1>4, <1>5 DEF Unique, Singles, StoredTaken
<1>7. ASSUME NEW q \in Procs, NEW s \in TrialsOf(trial'[q])
      PROVE  /\ pc'[q] \in Logging
             /\ s \in taken' \ TrialsOf(tsv')
             /\ pc'[q] # "append" => s \notin TrialsOf(db')
             /\ \A o \in Procs : s \notin TrialsOf(view'[o])
             /\ \A o \in Procs : o # q => s \notin TrialsOf(trial'[o])
  <2>1. CASE q = p
    <3>1. s = t /\ t \notin taken
      BY <1>2, <1>4, <1>5, <1>7, <2>1
    <3>2. /\ t \notin TrialsOf(db) /\ t \notin TrialsOf(tsv)
          /\ \A o \in Procs : t \notin TrialsOf(view[o]) /\ t \notin TrialsOf(trial[o])
      BY <1>3, <3>1 DEF Unique, StoredTaken
    <3>3. s \in taken' \ TrialsOf(tsv') /\ s \notin TrialsOf(db')
      BY <1>4, <3>1, <3>2
    <3>4. \A o \in Procs : s \notin TrialsOf(view'[o]) /\ (o # q => s \notin TrialsOf(trial'[o]))
      BY <1>4, <1>5, <2>1, <3>1, <3>2
    <3> QED
      BY <1>5, <2>1, <3>3, <3>4 DEF Logging
  <2>2. CASE q # p
    BY <1>2, <1>3, <1>4, <1>5, <1>7, <2>2 DEF Unique, Unlogged
  <2> QED
    BY <2>1, <2>2
<1> QED
  BY <1>6, <1>7 DEF Unique, Unlogged

LEMMA UniqueInductive ==
    ASSUME AllKeyed, TypeOK, LockHeld, Unique, [Next]_vars
    PROVE  Unique'
<1>1. ASSUME NEW p \in Procs, StartScript(p)
      PROVE  Unique'
  BY <1>1 DEF StartScript, Unique, TypeOK, Singles, StoredTaken, Unlogged, Logging, Goto, files, history
<1>2. ASSUME NEW p \in Procs, Crash(p)
      PROVE  Unique'
  BY <1>2, NoTrials DEF Crash, Unique, TypeOK, Singles, StoredTaken, Unlogged, Logging, Goto
<1>3. CASE UNCHANGED vars
  BY <1>3 DEF vars, Unique, Singles, StoredTaken, Unlogged
<1> QED
  BY <1>1, <1>2, <1>3, StartTrialUnique, WriteRowUnique, RecomputeStatusesUnique DEF Next

\* No failure of either file, no kill, migration, heal or seed ever puts two rows of one Trial into a
\* store (trial_id is the table's primary key and the mirror has none).
THEOREM NoTrialTwice ==
    ASSUME AllKeyed, OneRow(InitDb), OneRow(InitTsv)
    PROVE  Spec => []OneRowPerTrial
<1>1. Init => Unique
  BY NoTrials DEF Init, Unique, Singles, StoredTaken, Unlogged, InitTrials
<1>2. Unique => OneRowPerTrial
  BY DEF Unique, Singles, OneRowPerTrial
<1> QED
  BY <1>1, <1>2, UniqueInductive, TypeCorrect, LockIsHeld, PTL DEF Spec

-----------------------------------------------------------------------------
(* Statuses are recomputed once nobody owes it.                            *)

\* The relabelling script owes nothing until it goes on to its own recompute.
OwesRecompute(p) ==
    \/ pc[p] \in {"append", "append_only"}
    \/ pc[p] \in {"lock_refresh", "refresh"} /\ task[p] = "recompute"

LoggersRecompute ==
    \A p \in Procs :
        pc[p] \notin {"lock_refresh", "refresh", "heal", "mirror", "seed"} => task[p] = "recompute"

FreshUnlessRecompute ==
    crashes = 0 /\ (\A p \in Procs : ~ OwesRecompute(p)) => recompute_rows(db) = db

FreshInv == LoggersRecompute /\ FreshUnlessRecompute

\* A refresh ends with a fresh table, if it was a recompute.
LEMMA RefreshIsFresh ==
    ASSUME AllKeyed, "db" \notin Faults, IInv, NEW p \in Procs, task[p] = "recompute",
           RefreshTable(p) \/ RefreshNothing(p)
    PROVE  recompute_rows(db') = db'
<1>1. pc[p] = "refresh" /\ db \in SUBSET Row
  BY DEF RefreshTable, RefreshNothing, IInv, TypeOK
<1>2. CASE source[p] = "tsv"
  <2>1. db = {} /\ db' = db
    BY <1>1, <1>2 DEF IInv, MirrorReadWhenEmpty, RefreshTable, RefreshNothing, files
  <2> QED
    BY <2>1 DEF recompute_rows
<1>3. CASE source[p] # "tsv"
  <2>1. view[p] = db /\ source[p] = "db"
    BY <1>1, <1>3 DEF IInv, ViewsStored, TypeOK
  <2>2. Updated(p) = recompute_rows(db)
    BY <2>1 DEF Updated
  <2>3. CASE RefreshNothing(p)
    BY <2>1, <2>2, <2>3 DEF RefreshNothing, files
  <2>4. CASE RefreshTable(p)
    <3>1. Rest /\ TypeOK
      BY DEF IInv, Rest
    <3>2. db' = Updated(p)
      BY <1>1, <2>1, <2>4, <3>1, TableRefreshed DEF RefreshTable, Fails
    <3> QED
      BY <1>1, <2>2, <3>2, RecomputeIsIdempotent
  <2> QED
    BY <2>3, <2>4
<1> QED
  BY <1>2, <1>3

\* The relabelling changes no status.
LEMMA RelabelKeepsFresh ==
    ASSUME AllKeyed, "db" \notin Faults, IInv, NEW p \in Procs, task[p] = "relabel",
           RefreshTable(p) \/ RefreshNothing(p), recompute_rows(db) = db
    PROVE  recompute_rows(db') = db'
<1>1. CASE UNCHANGED db
  BY <1>1
<1>2. CASE RefreshTable(p) /\ source[p] = "db"
  <2>1. pc[p] = "refresh" /\ db \in SUBSET Row /\ view[p] = db
    BY <1>2 DEF RefreshTable, IInv, TypeOK, ViewsStored
  <2>2. Rest /\ TypeOK
    BY DEF IInv, Rest
  <2>3. db' = relabel_watchdog_kills(db)
    BY <1>2, <2>1, <2>2, TableRefreshed DEF RefreshTable, Fails, Updated
  <2> QED
    BY <2>1, <2>3, RelabelKeepsSettled DEF relabel_watchdog_kills
<1> QED
  BY <1>1, <1>2 DEF RefreshTable, RefreshNothing, files

LEMMA FreshInductive ==
    ASSUME AllKeyed, "db" \notin Faults, IInv, FreshInv, [Next]_vars
    PROVE  FreshInv'
<1> USE DEF FreshInv, LoggersRecompute, FreshUnlessRecompute, OwesRecompute, IInv, TypeOK, Goto,
            files, local, history
<1>1. ASSUME NEW p \in Procs, NEW t \in Trials, StartTrial(p, t)
      PROVE  FreshInv'
  BY <1>1 DEF StartTrial
<1>2. ASSUME NEW p \in Procs, StartScript(p)
      PROVE  FreshInv'
  BY <1>2 DEF StartScript
<1>3. ASSUME NEW p \in Procs, WriteRow(p)
      PROVE  FreshInv'
  <2>1. CASE EnsureNothing(p) \/ EnsureRead(p) \/ EnsureTruncate(p) \/ EnsureRewrite(p)
    BY <2>1 DEF EnsureNothing, EnsureRead, EnsureTruncate, EnsureRewrite
  <2>2. CASE LockForWrite(p)
    BY <2>2 DEF LockForWrite
  <2>3. CASE UpsertTrial(p)
    BY <2>3 DEF UpsertTrial, Fails
  <2>4. CASE AppendTrial(p)
    BY <2>4 DEF AppendTrial
  <2>5. CASE AppendOnly(p) \/ WriteRaises(p)
    BY <2>5 DEF AppendOnly, WriteRaises, TableReliable
  <2> QED
    BY <1>3, <2>1, <2>2, <2>3, <2>4, <2>5 DEF WriteRow
<1>4. ASSUME NEW p \in Procs, RefreshTable(p) \/ RefreshNothing(p)
      PROVE  FreshInv'
  <2>1. LoggersRecompute'
    BY <1>4 DEF RefreshTable, RefreshNothing, Finish
  <2>2. CASE task[p] = "recompute"
    BY <1>4, <2>1, <2>2, RefreshIsFresh
  <2>3. CASE task[p] = "relabel"
    <3>1. \A q \in Procs : OwesRecompute(q) => OwesRecompute(q)'
      BY <1>4, <2>3 DEF RefreshTable, RefreshNothing, Finish
    <3>2. recompute_rows(db) = db => recompute_rows(db') = db'
      BY <1>4, <2>3, RelabelKeepsFresh
    <3>3. crashes' = crashes
      BY <1>4 DEF RefreshTable, RefreshNothing, Finish
    <3> QED
      BY <2>1, <3>1, <3>2, <3>3
  <2> QED
    BY <2>2, <2>3
<1>5. ASSUME NEW p \in Procs, LockForRefresh(p)
      PROVE  FreshInv'
  BY <1>5 DEF LockForRefresh
<1>6. ASSUME NEW p \in Procs, Heal(p)
      PROVE  FreshInv'
  BY <1>6 DEF Heal, TableReliable
<1>7. ASSUME NEW p \in Procs, Mirror(p)
      PROVE  FreshInv'
  BY <1>7 DEF Mirror, Finish
<1>8. ASSUME NEW p \in Procs, Seed(p)
      PROVE  FreshInv'
  <2>1. db = {} /\ TrialsOf(tsv) \subseteq TrialsOf(db)
    BY <1>8 DEF Seed, MirrorReadWhenEmpty, MirrorAddsNothing
  <2>2. tsv = {}
    BY <2>1 DEF TrialsOf
  <2>3. db' = db
    BY <1>8, <2>1, <2>2 DEF Seed, SyncFromTsv
  <2> QED
    BY <1>8, <2>3 DEF Seed, Finish
<1>9. ASSUME NEW p \in Procs, Crash(p)
      PROVE  FreshInv'
  BY <1>9, StoreAssumption DEF Crash
<1>10. CASE UNCHANGED vars
  BY <1>10 DEF vars
<1> QED
  BY <1>1, <1>2, <1>3, <1>4, <1>5, <1>6, <1>7, <1>8, <1>9, <1>10 DEF Next, RecomputeStatuses

\* Whenever no process still owes a refresh and none was killed, statuses are those of a full recompute,
\* however the two critical sections of several processes interleave.
THEOREM FreshWhenSettled ==
    ASSUME AllKeyed, SeededStore, recompute_rows(InitDb) = InitDb
    PROVE  Spec => []FreshUnlessOwed
<1>1. Init => FreshInv
  BY DEF Init, FreshInv, LoggersRecompute, FreshUnlessRecompute
<1>2. FreshInv => FreshUnlessOwed
  BY DEF FreshInv, FreshUnlessRecompute, OwesRecompute, FreshUnlessOwed, Owes
<1>3. "db" \notin Faults
  BY DEF SeededStore
<1> QED
  BY <1>1, <1>2, <1>3, FreshInductive, InductiveInvariant, PTL DEF Spec

\* A refresh of the table that changed it leaves nothing for the next one to change
\* (run.recompute_statuses).
THEOREM RefreshIsSettled ==
    ASSUME AllKeyed, SeededStore
    PROVE  Spec => RefreshSettles
<1>1. IInv => [\A p \in Procs : RefreshTable(p) /\ task[p] = "recompute" /\ db' # db
                                  => recompute_rows(db') = db']_vars
  BY RefreshIsFresh DEF SeededStore
<1> QED
  BY <1>1, InductiveInvariant, PTL DEF RefreshSettles

-----------------------------------------------------------------------------
(* The refinement of the ledger.                                           *)

\* The ledger's operators, instantiated, are those of this module.
LEMMA LedgerRecompute ==
    /\ \A R : Ledger!TrialsOf(R) = TrialsOf(R)
    /\ \A R : Ledger!recompute_rows(R) = recompute_rows(R)
    /\ \A r : Ledger!OldKill(r) = OldKill(r) /\ Ledger!Competes(r) = Competes(r)
    /\ \A R, S : Ledger!Relabelled(R, S) = Relabelled(R, S)
<1>1. \A r : Ledger!Competes(r) = Competes(r)
  BY DEF Ledger!Competes, Competes
<1>2. \A V, x : Ledger!Measured(V, x) = Measured(V, x)
  BY DEF Ledger!Measured, Measured
<1>3. \A V : Ledger!Merge(V) = Merge(V)
  <2>1. \A S : Ledger!Max(S) = Max(S)
    BY DEF Ledger!Max, Max
  <2> QED
    BY <1>2, <2>1 DEF Ledger!Merge, Merge
<1>4. \A a, b : Ledger!Dominates(a, b) = Dominates(a, b)
  BY DEF Ledger!Dominates, Dominates, Ledger!Complete, Complete
<1>5. \A R, b : Ledger!Competitors(R, b) = Competitors(R, b)
  BY <1>1 DEF Ledger!Competitors, Competitors
<1>6. \A R, m, b : Ledger!Point(R, m, b) = Point(R, m, b)
  BY <1>3, <1>5 DEF Ledger!Point, Point
<1>7. \A R, b : Ledger!Points(R, b) = Points(R, b)
  BY <1>5, <1>6 DEF Ledger!Points, Points
<1>8. \A f, v, K : Ledger!classify_trial(f, v, K) = classify_trial(f, v, K)
  BY <1>4 DEF Ledger!classify_trial, classify_trial, Ledger!Complete, Complete
<1>9. \A R, t : Ledger!RecomputedStatus(R, t) = RecomputedStatus(R, t)
  BY <1>6, <1>7, <1>8 DEF Ledger!RecomputedStatus, RecomputedStatus
<1>10. \A R, r : Ledger!Refreshed(R, r) = Refreshed(R, r)
  BY <1>1, <1>9 DEF Ledger!Refreshed, Refreshed
<1>11. \A R : Ledger!recompute_rows(R) = recompute_rows(R)
  BY <1>10 DEF Ledger!recompute_rows, recompute_rows
<1> QED
  BY <1>1, <1>11 DEF Ledger!TrialsOf, TrialsOf, Ledger!Relabelled, Relabelled,
                     Ledger!OldKill, OldKill, Ledger!MarkedInStatus, MarkedInStatus

\* A successful upsert logs the Trial in the ledger, already recomputed.
LEMMA UpsertLogs ==
    ASSUME AllKeyed, "db" \notin Faults, IInv, NEW p \in Procs, UpsertTrial(p)
    PROVE  \E t \in Trials : Ledger!Log(t)
<1>1. PICK r \in trial[p] : trial[p] = {r} /\ Planned(r) /\ r.trial \in taken \ TrialsOf(db)
  BY DEF UpsertTrial, IInv, PendingIsNew, Pending
<1>2. r \in Row /\ r.trial \in Trials /\ db \in SUBSET Row
  BY <1>1 DEF IInv, TypeOK, Row
<1> DEFINE n == Ledger!NewRow(r.trial)
<1>3. /\ n \in Row /\ n.trial = r.trial /\ n.copy = r.copy /\ n.outcome = r.outcome
      /\ Competes(n) <=> Competes(r)
      /\ ~ Competes(n) => n = r
  <2>1. Attr[r.trial] \in TrialAttrs
    BY <1>2, AttrIsRecord
  <2>2. /\ n = [ trial |-> r.trial, copy |-> 0, outcome |-> "final",
                 status |-> IF Attr[r.trial].failed /\ ~ Attr[r.trial].screen
                              THEN "rejected" ELSE "incomplete" ]
    BY DEF Ledger!NewRow
  <2>3. r = [ trial |-> r.trial, copy |-> 0, outcome |-> "final", status |-> r.status ]
    BY <1>1, <1>2 DEF Row, Planned
  <2>4. n \in Row
    BY <1>2, <2>2 DEF Row, Statuses, TRIAL_STATUSES, Outcomes
  <2> HIDE DEF n
  <2>5. Competes(n) <=> Competes(r)
    BY <1>1, <2>1, <2>2 DEF Competes, Planned, TrialAttrs
  <2>6. ~ Competes(r) => n.status = r.status
    BY <1>1, <2>1, <2>2 DEF Competes, Planned, TrialAttrs
  <2> QED
    BY <1>1, <2>2, <2>3, <2>4, <2>5, <2>6 DEF Planned
<1>4. db' = db \cup {r}
  <2>1. db' = Upsert(db, {r}) /\ TrialsOf({r}) = {r.trial}
    BY <1>1 DEF UpsertTrial, Fails, TrialsOf
  <2>2. Upsert(db, {r}) = {q \in db : q.trial \notin TrialsOf({r})} \cup {r}
    BY <1>2, UpsertKeyed
  <2> QED
    BY <1>1, <2>1, <2>2 DEF TrialsOf
<1>5. recompute_rows(db') = recompute_rows(recompute_rows(db) \cup {n})
  <2> HIDE DEF n
  <2> QED
    BY <1>2, <1>3, <1>4, RecomputeAfterAdd
<1>6. r.trial \notin TrialsOf(recompute_rows(db)) /\ ~ Attr[r.trial].anonymous
  BY <1>1, <1>2, RecomputedRows DEF Planned
<1>7. Ledger!Log(r.trial)
  BY <1>5, <1>6, LedgerRecompute DEF Ledger!Log
<1> QED
  BY <1>2, <1>7

\* A refresh of the table stutters, or is the relabelling.
LEMMA RefreshRelabels ==
    ASSUME AllKeyed, "db" \notin Faults, IInv, NEW p \in Procs, RefreshTable(p)
    PROVE  Ledger!Relabel \/ recompute_rows(db') = recompute_rows(db)
<1> DEFINE K == {r \in db : OldKill(r)}
           T == {Refreshed(db, r) : r \in K}
<1>1. pc[p] = "refresh" /\ db \in SUBSET Row
  BY DEF RefreshTable, IInv, TypeOK
<1>2. CASE source[p] = "db"
  <2>1. db' = Updated(p) /\ view[p] = db
    <3>1. Rest /\ TypeOK
      BY DEF IInv, Rest
    <3>2. Upsert(db, Updated(p) \ view[p]) = Updated(p)
      BY <1>1, <1>2, <3>1, TableRefreshed
    <3> QED
      BY <1>1, <1>2, <3>2 DEF RefreshTable, Fails, IInv, ViewsStored
  <2>2. CASE task[p] = "relabel"
    <3>1. db' = Relabelled(db, K)
      BY <2>1, <2>2 DEF Updated, relabel_watchdog_kills
    <3>2. recompute_rows(db') = Relabelled(recompute_rows(db), T)
      BY <1>1, <3>1, RelabelThenRecompute DEF IInv, OneRow
    <3>3. {q \in recompute_rows(db) : OldKill(q)} \subseteq T
      BY <1>1, RefreshedKill DEF recompute_rows
    <3>4. T \subseteq {q \in recompute_rows(db) : Ledger!MayBeOldKill(q)}
      <4>1. ASSUME NEW r \in K
            PROVE  /\ Refreshed(db, r) \in recompute_rows(db)
                   /\ Ledger!MayBeOldKill(Refreshed(db, r))
        <5>1. r \in Row /\ Refreshed(db, r) \in recompute_rows(db)
          BY <1>1 DEF recompute_rows
        <5>2. OldKill(Refreshed(db, r)) \/ (Competes(r) /\ MarkedInStatus(r))
          BY <5>1, RefreshedKill
        <5>3. /\ Competes(r) => Competes(Refreshed(db, r))
              /\ MarkedInStatus(r) => Refreshed(db, r).outcome = "MODEL_REJECTED"
          BY <5>1, RefreshedRow DEF MarkedInStatus
        <5> QED
          BY <5>1, <5>2, <5>3, LedgerRecompute DEF Ledger!MayBeOldKill
      <4> QED
        BY <4>1
    <3> HIDE DEF K, T
    <3> QED
      BY <3>2, <3>3, <3>4, LedgerRecompute DEF Ledger!Relabel
  <2>3. CASE task[p] # "relabel"
    BY <1>1, <2>1, <2>3, RecomputeIsIdempotent DEF Updated
  <2> QED
    BY <2>2, <2>3
<1>3. CASE source[p] # "db"
  BY <1>3 DEF RefreshTable
<1> QED
  BY <1>2, <1>3

\* The store implements the ledger: whoever interleaves, is killed or fails
\* to write the mirror, the table read through a recompute is a table to which
\* Trials are added one by one, none is lost, and every status is final.
THEOREM StoreImplementsLedger ==
    ASSUME AllKeyed, SeededStore
    PROVE  Spec => ImplementsLedger
<1>1. Init => Ledger!Init
  BY LedgerRecompute DEF Init, Ledger!Init
<1>2. ASSUME IInv, [Next]_vars
      PROVE  [Ledger!Next]_(recompute_rows(db))
  <2>1. "db" \notin Faults
    BY DEF SeededStore
  <2>2. CASE UNCHANGED db
    BY <2>2
  <2>3. ASSUME NEW p \in Procs, UpsertTrial(p)
        PROVE  Ledger!Next
    BY <1>2, <2>1, <2>3, UpsertLogs DEF Ledger!Next
  <2>4. ASSUME NEW p \in Procs, RefreshTable(p)
        PROVE  Ledger!Next \/ recompute_rows(db') = recompute_rows(db)
    BY <1>2, <2>1, <2>4, RefreshRelabels DEF Ledger!Next
  <2>5. ASSUME NEW p \in Procs, Heal(p)
        PROVE  FALSE
    BY <1>2, <2>5 DEF Heal, IInv, TableReliable
  <2>6. ASSUME NEW p \in Procs, Seed(p)
        PROVE  UNCHANGED db
    <3>1. db = {} /\ TrialsOf(tsv) \subseteq TrialsOf(db)
      BY <1>2, <2>6 DEF Seed, IInv, MirrorReadWhenEmpty, MirrorAddsNothing
    <3>2. tsv = {}
      BY <3>1 DEF TrialsOf
    <3> QED
      BY <2>6, <3>1, <3>2 DEF Seed, SyncFromTsv
  <2>7. ASSUME NEW p \in Procs, WriteRow(p), ~ UpsertTrial(p)
        PROVE  UNCHANGED db
    BY <2>7 DEF WriteRow, EnsureNothing, EnsureRead, EnsureTruncate, EnsureRewrite, LockForWrite,
                AppendTrial, AppendOnly, WriteRaises, files
  <2>8. ASSUME NEW p \in Procs, LockForRefresh(p) \/ RefreshNothing(p) \/ Mirror(p)
        PROVE  UNCHANGED db
    BY <2>8 DEF LockForRefresh, RefreshNothing, Mirror, files
  <2>9. ASSUME NEW p \in Procs,
               StartScript(p) \/ Crash(p) \/ \E t \in Trials : StartTrial(p, t)
        PROVE  UNCHANGED db
    BY <2>9 DEF StartScript, Crash, StartTrial, files
  <2>10. CASE UNCHANGED vars
    BY <2>10 DEF vars
  <2> QED
    BY <1>2, <2>2, <2>3, <2>4, <2>5, <2>6, <2>7, <2>8, <2>9, <2>10
       DEF Next, RecomputeStatuses
<1> QED
  BY <1>1, <1>2, InductiveInvariant, PTL DEF Spec, ImplementsLedger, Ledger!Spec

-----------------------------------------------------------------------------
(* No call goes round for ever.                                            *)

\* The steps a process has left in its call, at most; a relabelling goes on to a recompute.
StepsToGo ==
    [label \in PCs |-> CASE label = "idle" -> 0
                         [] label = "seed" -> 1
                         [] label = "mirror" -> 2
                         [] label = "heal" -> 3
                         [] label = "refresh" -> 4
                         [] label = "lock_refresh" -> 5
                         [] label \in {"append", "append_only"} -> 6
                         [] label = "upsert" -> 7
                         [] label = "lock_write" -> 8
                         [] label = "rewrite" -> 9
                         [] label = "truncate" -> 10
                         [] label = "ensure" -> 11]
CallLeft(p) == StepsToGo[pc[p]] + (IF pc[p] # "idle" /\ task[p] = "relabel" THEN 5 ELSE 0)

ControlType == pc \in [Procs -> PCs] /\ task \in [Procs -> {"recompute", "relabel"}]

\* p goes from one label to a later one, or back to the lock for the recompute after a relabelling.
Advances(p) ==
    \/ \E label \in PCs : StepsToGo[label] < StepsToGo[pc[p]]
                            /\ Goto(p, label) /\ (UNCHANGED task \/ task' = [task EXCEPT ![p] = "recompute"])
    \/ /\ pc[p] # "idle" /\ task[p] = "relabel"
       /\ Goto(p, "lock_refresh") /\ task' = [task EXCEPT ![p] = "recompute"]

LEMMA StepFacts ==
    /\ StepsToGo["idle"] = 0 /\ StepsToGo["seed"] = 1 /\ StepsToGo["mirror"] = 2 /\ StepsToGo["heal"] = 3
    /\ StepsToGo["refresh"] = 4 /\ StepsToGo["lock_refresh"] = 5 /\ StepsToGo["append"] = 6
    /\ StepsToGo["append_only"] = 6 /\ StepsToGo["upsert"] = 7 /\ StepsToGo["lock_write"] = 8
    /\ StepsToGo["rewrite"] = 9 /\ StepsToGo["truncate"] = 10 /\ StepsToGo["ensure"] = 11
BY DEF StepsToGo, PCs

LEMMA StepRange ==
    /\ \A label \in PCs : StepsToGo[label] \in 0..11
    /\ \A label \in PCs : StepsToGo[label] = 0 <=> label = "idle"
BY StepFacts DEF PCs

LEMMA Forward ==
    ASSUME NEW p \in Procs, NEW label \in PCs, StepsToGo[label] < StepsToGo[pc[p]], Goto(p, label),
           UNCHANGED task \/ task' = [task EXCEPT ![p] = "recompute"]
    PROVE  Advances(p)
BY DEF Advances

LEMMA WriteRowAdvances ==
    ASSUME NEW p \in Procs, WriteRow(p)
    PROVE  Advances(p)
<1>1. UNCHANGED task
  BY DEF WriteRow, EnsureNothing, EnsureRead, EnsureTruncate, EnsureRewrite, LockForWrite, UpsertTrial,
         AppendTrial, AppendOnly, WriteRaises, local
<1>2. \/ pc[p] = "ensure" /\ (Goto(p, "lock_write") \/ Goto(p, "truncate"))
      \/ pc[p] = "truncate" /\ Goto(p, "rewrite")
      \/ pc[p] = "rewrite" /\ Goto(p, "lock_write")
      \/ pc[p] = "lock_write" /\ Goto(p, "upsert")
      \/ pc[p] = "upsert" /\ (Goto(p, "append") \/ Goto(p, "append_only"))
      \/ pc[p] \in {"append", "append_only"} /\ (Goto(p, "lock_refresh") \/ Goto(p, "idle"))
  BY DEF WriteRow, EnsureNothing, EnsureRead, EnsureTruncate, EnsureRewrite, LockForWrite, UpsertTrial,
         AppendTrial, AppendOnly, WriteRaises
<1>3. PICK label \in PCs : Goto(p, label) /\ StepsToGo[label] < StepsToGo[pc[p]]
  BY <1>2, StepFacts DEF PCs
<1> QED
  BY <1>1, <1>3, Forward

LEMMA FinishAdvances ==
    ASSUME NEW p \in Procs, Finish(p), pc[p] \in {"refresh", "mirror", "seed"}
    PROVE  Advances(p)
<1>1. task' = [task EXCEPT ![p] = "recompute"]
  BY DEF Finish
<1>2. Goto(p, "idle") \/ (task[p] = "relabel" /\ Goto(p, "lock_refresh"))
  BY DEF Finish
<1>3. StepsToGo["idle"] < StepsToGo[pc[p]] /\ "idle" \in PCs
  BY StepFacts DEF PCs
<1>4. CASE Goto(p, "idle")
  BY <1>1, <1>3, <1>4, Forward
<1>5. CASE task[p] = "relabel" /\ Goto(p, "lock_refresh")
  BY <1>1, <1>5 DEF Advances
<1> QED
  BY <1>2, <1>4, <1>5

LEMMA RecomputeStatusesAdvances ==
    ASSUME NEW p \in Procs, RecomputeStatuses(p)
    PROVE  Advances(p)
<1>1. \/ pc[p] \in {"refresh", "mirror", "seed"} /\ Finish(p)
      \/ /\ UNCHANGED task
         /\ \/ pc[p] = "lock_refresh" /\ Goto(p, "refresh")
            \/ pc[p] = "refresh" /\ (Goto(p, "seed") \/ Goto(p, "mirror") \/ Goto(p, "heal"))
            \/ pc[p] = "heal" /\ Goto(p, "mirror")
            \/ pc[p] = "mirror" /\ Goto(p, "seed")
  <2>1. CASE LockForRefresh(p) \/ Heal(p)
    BY <2>1 DEF LockForRefresh, Heal, local
  <2>2. CASE RefreshNothing(p)
    BY <2>2 DEF RefreshNothing, local
  <2>3. CASE RefreshTable(p)
    BY <2>3 DEF RefreshTable, local
  <2>4. CASE Mirror(p) \/ Seed(p)
    BY <2>4 DEF Mirror, Seed, local
  <2> QED
    BY <2>1, <2>2, <2>3, <2>4 DEF RecomputeStatuses
<1>2. CASE pc[p] \in {"refresh", "mirror", "seed"} /\ Finish(p)
  BY <1>2, FinishAdvances
<1>3. CASE /\ UNCHANGED task
           /\ \/ pc[p] = "lock_refresh" /\ Goto(p, "refresh")
              \/ pc[p] = "refresh" /\ (Goto(p, "seed") \/ Goto(p, "mirror") \/ Goto(p, "heal"))
              \/ pc[p] = "heal" /\ Goto(p, "mirror")
              \/ pc[p] = "mirror" /\ Goto(p, "seed")
  <2>1. PICK label \in PCs : Goto(p, label) /\ StepsToGo[label] < StepsToGo[pc[p]]
    BY <1>3, StepFacts DEF PCs
  <2> QED
    BY <1>3, <2>1, Forward
<1> QED
  BY <1>1, <1>2, <1>3

LEMMA AdvanceLowers ==
    ASSUME ControlType, NEW p \in Procs, Advances(p)
    PROVE  /\ ControlType'
           /\ CallLeft(p)' < CallLeft(p)
           /\ \A q \in Procs \ {p} : CallLeft(q)' = CallLeft(q)
<1>1. (\A label \in PCs : StepsToGo[label] \in 0..11)
      /\ (\A label \in PCs : StepsToGo[label] = 0 <=> label = "idle")
  BY StepRange
<1>2. StepsToGo["lock_refresh"] = 5
  BY StepFacts
<1>3. ControlType'
  BY DEF ControlType, Advances, Goto, PCs
<1>4. \A q \in Procs \ {p} : pc'[q] = pc[q] /\ task'[q] = task[q]
  BY DEF ControlType, Advances, Goto
<1>5. CASE \E label \in PCs : StepsToGo[label] < StepsToGo[pc[p]]
             /\ Goto(p, label) /\ (UNCHANGED task \/ task' = [task EXCEPT ![p] = "recompute"])
  <2>1. StepsToGo[pc'[p]] < StepsToGo[pc[p]] /\ pc[p] \in PCs /\ pc'[p] \in PCs
    BY <1>5 DEF ControlType, Goto
  <2>2. task'[p] = task[p] \/ task'[p] = "recompute"
    BY <1>5 DEF ControlType
  <2>3. pc[p] # "idle"
    BY <1>1, <2>1
  <2>4. StepsToGo[pc[p]] \in 0..11 /\ StepsToGo[pc'[p]] \in 0..11
    BY <1>1, <2>1
  <2> QED
    BY <1>3, <1>4, <2>1, <2>2, <2>3, <2>4 DEF CallLeft
<1>6. CASE /\ pc[p] # "idle" /\ task[p] = "relabel"
           /\ Goto(p, "lock_refresh") /\ task' = [task EXCEPT ![p] = "recompute"]
  <2>1. pc'[p] = "lock_refresh" /\ task'[p] = "recompute" /\ pc[p] \in PCs /\ pc'[p] \in PCs
    BY <1>3, <1>6 DEF ControlType, Goto
  <2>2. StepsToGo[pc[p]] \in 1..11 /\ StepsToGo[pc'[p]] = 5
    BY <1>1, <1>2, <1>6, <2>1
  <2> QED
    BY <1>3, <1>4, <1>6, <2>1, <2>2 DEF CallLeft
<1> QED
  BY <1>5, <1>6 DEF Advances

\* A call begins, or a process that is killed has left the call.
LEMMA BeginsOrDies ==
    ASSUME ControlType, NEW p \in Procs,
           (\E t \in Trials : StartTrial(p, t)) \/ StartScript(p) \/ Crash(p)
    PROVE  /\ ControlType'
           /\ \A q \in Procs : pc[q] # "idle" => CallLeft(q)' = CallLeft(q) \/ pc'[q] = "idle"
<1>1. ControlType'
  BY DEF ControlType, StartTrial, StartScript, Crash, Goto, PCs
<1>2. \A q \in Procs : q # p => pc'[q] = pc[q] /\ task'[q] = task[q]
  BY DEF ControlType, StartTrial, StartScript, Crash, Goto
<1>3. pc[p] = "idle" \/ pc'[p] = "idle"
  BY DEF ControlType, StartTrial, StartScript, Crash, Goto
<1> QED
  BY <1>1, <1>2, <1>3 DEF CallLeft

LEMMA CallLeftType ==
    ASSUME ControlType, NEW p \in Procs
    PROVE  CallLeft(p) \in 0..16 /\ (CallLeft(p) = 0 <=> pc[p] = "idle")
<1>2. pc[p] \in PCs
  BY DEF ControlType
<1>3. StepsToGo[pc[p]] \in 0..11 /\ (StepsToGo[pc[p]] = 0 <=> pc[p] = "idle")
  BY <1>2, StepRange
<1> QED
  BY <1>3 DEF CallLeft

\* A call has at most sixteen steps left, whichever writes fail, whatever rows lack a trial_id and
\* whoever else calls or is killed: each of its steps lowers their number, and nobody else raises
\* it (run.write_row, run.recompute_statuses: no write is tried again).
THEOREM CallsRunOut ==
    /\ Spec => [](\A p \in Procs : CallLeft(p) \in 0..16 /\ (CallLeft(p) = 0 <=> pc[p] = "idle"))
    /\ Spec => [][\A p \in Procs :
                    /\ WriteRow(p) \/ RecomputeStatuses(p) => CallLeft(p)' < CallLeft(p)
                    /\ pc[p] # "idle" => CallLeft(p)' <= CallLeft(p)]_vars
<1> DEFINE Lowered == \A p \in Procs :
             /\ WriteRow(p) \/ RecomputeStatuses(p) => CallLeft(p)' < CallLeft(p)
             /\ pc[p] # "idle" => CallLeft(p)' <= CallLeft(p)
           Bounded == \A p \in Procs : CallLeft(p) \in 0..16 /\ (CallLeft(p) = 0 <=> pc[p] = "idle")
<1>1. Init => ControlType
  BY DEF Init, ControlType, PCs
<1>2. ControlType => Bounded
  BY CallLeftType
<1>3. ASSUME ControlType, NEW p \in Procs, WriteRow(p) \/ RecomputeStatuses(p)
      PROVE  /\ ControlType'
             /\ CallLeft(p)' < CallLeft(p)
             /\ \A q \in Procs \ {p} : CallLeft(q)' = CallLeft(q)
  BY <1>3, WriteRowAdvances, RecomputeStatusesAdvances, AdvanceLowers
<1>4. ControlType /\ [Next]_vars => ControlType'
  <2>1. ControlType /\ UNCHANGED vars => ControlType'
    BY DEF ControlType, vars
  <2> QED
    BY <1>3, <2>1, BeginsOrDies DEF Next
<1>5. ASSUME ControlType, Bounded, Bounded', Next
      PROVE  Lowered
  <2>1. Bounded /\ Bounded'
    BY <1>5
  <2>2. \A p \in Procs : WriteRow(p) \/ RecomputeStatuses(p) => CallLeft(p)' < CallLeft(p)
    BY <1>3, <1>5
  <2>3. ASSUME NEW p \in Procs, pc[p] # "idle"
        PROVE  CallLeft(p)' = CallLeft(p) \/ CallLeft(p)' < CallLeft(p) \/ pc'[p] = "idle"
    <3>1. PICK q \in Procs : \/ (\E t \in Trials : StartTrial(q, t)) \/ StartScript(q) \/ Crash(q)
                             \/ WriteRow(q) \/ RecomputeStatuses(q)
      BY <1>5 DEF Next
    <3>2. CASE (\E t \in Trials : StartTrial(q, t)) \/ StartScript(q) \/ Crash(q)
      BY <1>5, <2>3, <3>2, BeginsOrDies
    <3>3. CASE WriteRow(q) \/ RecomputeStatuses(q)
      BY <1>3, <1>5, <2>3, <3>3
    <3> QED
      BY <3>1, <3>2, <3>3
  <2>4. ASSUME NEW p \in Procs, pc[p] # "idle"
        PROVE  CallLeft(p)' <= CallLeft(p)
    <3>1. CallLeft(p) \in Nat /\ CallLeft(p)' \in Nat /\ (pc'[p] = "idle" => CallLeft(p)' = 0)
      BY <2>1
    <3> QED
      BY <2>3, <2>4, <3>1
  <2> QED
    BY <2>2, <2>4
<1>6. ControlType /\ Bounded /\ Bounded' /\ [Next]_vars => [Lowered]_vars
  BY <1>5
<1> QED
  BY <1>1, <1>2, <1>4, <1>6, PTL DEF Spec
=============================================================================
