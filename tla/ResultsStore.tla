---------------------------- MODULE ResultsStore ----------------------------
(***************************************************************************)
(* The results store: the canonical SQLite table results.db and its legacy *)
(* mirror results.tsv, written one after the other by several harness      *)
(* processes (autoloop.py, run.py, scripts/recompute_status.py) under an   *)
(* flock on results.tsv.lock.                                              *)
(*                                                                         *)
(* A process logs a Trial in write_row and then refreshes all statuses in  *)
(* recompute_statuses: two critical sections.  A write to either file can  *)
(* fail (Faults), and a process can be killed between any two steps        *)
(* (MaxCrashes bounds how often); the kernel then drops its lock.          *)
(***************************************************************************)
EXTENDS Classify

CONSTANTS
    Procs,          \* the processes sharing the store
    NoProc,         \* the lock's owner when it is free
    Faults,         \* the stores whose writes may fail: a subset of {"db", "tsv"}
    InitDb, InitTsv, InitHeader,    \* the files as the processes find them
    MaxCrashes,     \* bound on the number of killed processes
    MaxCopies       \* bound on the copies of a row without trial_id

ASSUME StoreAssumption ==
    /\ NoProc \notin Procs
    /\ Faults \subseteq {"db", "tsv"}
    /\ InitDb \subseteq Row
    /\ InitTsv \subseteq Row
    /\ InitHeader \in {"none", "old", "current"}
    /\ MaxCrashes \in Nat
    /\ MaxCopies \in Nat

VARIABLES
    db,         \* rows of results.db; {} also when it is missing
    tsv,        \* rows of results.tsv
    header,     \* its first line: "none" when missing or empty, or older columns
    handles,    \* processes whose migration has the live results.tsv open for writing
    lock,       \* owner of the flock
    pc,         \* where each process is
    task,       \* the refresh a process is to do: "recompute" or "relabel"
    trial,      \* the row a process is logging
    view,       \* the rows a process has read
    source,     \* where it read them from: "db" or "tsv"
    taken,      \* Trials that have started to be logged: trial_id is a fresh uuid4
    acked,      \* history: Trials whose write_row has returned
    crashes     \* history: number of killed processes

files == <<db, tsv, header, handles>>
history == <<taken, acked, crashes>>
local == <<task, trial, view, source>>
vars == <<db, tsv, header, handles, lock, pc, task, trial, view, source, taken, acked, crashes>>

PCs == {"idle", "ensure", "truncate", "rewrite", "lock_write", "upsert", "append",
        "append_only", "lock_refresh", "refresh", "heal", "mirror", "seed"}

\* The steps a process takes while it holds the lock.
Critical == {"upsert", "append", "append_only", "refresh", "heal", "mirror", "seed"}

InitTrials == TrialsOf(InitDb) \cup TrialsOf(InitTsv)

Init ==
    /\ db = InitDb
    /\ tsv = InitTsv
    /\ header = InitHeader
    /\ handles = {}
    /\ lock = NoProc
    /\ pc = [p \in Procs |-> "idle"]
    /\ task = [p \in Procs |-> "recompute"]
    /\ trial = [p \in Procs |-> {}]
    /\ view = [p \in Procs |-> {}]
    /\ source = [p \in Procs |-> "db"]
    /\ taken = InitTrials
    /\ acked = InitTrials
    /\ crashes = 0

Goto(p, label) == pc' = [pc EXCEPT ![p] = label]
Acquire(p) == lock = NoProc /\ lock' = p
Release(p) == lock' = NoProc

\* A write to a store succeeds, or fails where Faults allows it.
Fails(store) == store \in Faults

-----------------------------------------------------------------------------
(* The two files.                                                          *)

\* store_rows: the table, or the mirror while the table is missing or empty.
StoreSource == IF db = {} THEN "tsv" ELSE "db"
StoreRows == IF db = {} THEN tsv ELSE db

\* Mutant: INSERT without REPLACE.
InsertOnly(table, rows) == table \cup rows

\* INSERT OR REPLACE on the primary key trial_id.  A NULL key conflicts with
\* nothing: such a row is inserted next to the one it was meant to replace.
Upsert(table, rows) ==
    LET keyed == {r \in rows : Attr[r.trial].keyed}
        fresh == 1 + Max({0} \cup {r.copy : r \in table})
    IN  {r \in table : r.trial \notin TrialsOf(keyed)}
        \cup keyed
        \cup {[r EXCEPT !.copy = r.copy + fresh] : r \in rows \ keyed}

Updated(p) ==
    IF task[p] = "relabel" THEN relabel_watchdog_kills(view[p])
                           ELSE recompute_rows(view[p])

\* What a process does after its refresh: the relabelling script goes on to
\* an ordinary recompute, unless it was started with --scope model.
Finish(p) ==
    /\ Release(p)
    /\ Goto(p, "idle") \/ (task[p] = "relabel" /\ Goto(p, "lock_refresh"))
    /\ task' = [task EXCEPT ![p] = "recompute"]
    /\ view' = [view EXCEPT ![p] = {}]
    /\ UNCHANGED <<trial, source>>

\* Kept from growing for ever by the duplicates of rows without trial_id.
CopiesBounded == \A r \in db : r.copy <= MaxCopies

-----------------------------------------------------------------------------
(* write_row                                                               *)

\* A Trial is over: its status is planned against the rows read here, without
\* the lock, and write_row is called.
StartTrial(p, t) ==
    /\ pc[p] = "idle"
    /\ t \notin taken
    /\ ~ Attr[t].anonymous
    /\ taken' = taken \cup {t}
    /\ trial' = [trial EXCEPT ![p] =
            {[ trial |-> t, copy |-> 0, outcome |-> "final",
               status |-> IF Attr[t].screen THEN "incomplete" ELSE plan_write(StoreRows, t) ]}]
    /\ Goto(p, "ensure")
    /\ UNCHANGED <<db, tsv, header, handles, lock, task, view, source, acked, crashes>>

\* _ensure_category_column: nothing to migrate.
EnsureNothing(p) ==
    /\ pc[p] = "ensure"
    /\ header # "old"
    /\ Goto(p, "lock_write")
    /\ UNCHANGED <<files, lock, local, history>>

\* _ensure_category_column: a mirror with older columns is read ...
EnsureRead(p) ==
    /\ pc[p] = "ensure"
    /\ header = "old"
    /\ view' = [view EXCEPT ![p] = tsv]
    /\ Goto(p, "truncate")
    /\ UNCHANGED <<files, lock, task, trial, source, history>>

\* ... opened for writing, which empties it, ...
EnsureTruncate(p) ==
    /\ pc[p] = "truncate"
    /\ tsv' = {}
    /\ header' = "none"
    /\ handles' = handles \cup {p}
    /\ Goto(p, "rewrite")
    /\ UNCHANGED <<db, lock, local, history>>

\* ... and written back, unless the file was meanwhile replaced by another.
EnsureRewrite(p) ==
    /\ pc[p] = "rewrite"
    /\ IF p \in handles
         THEN tsv' = view[p] /\ header' = "current"
         ELSE UNCHANGED <<tsv, header>>
    /\ handles' = handles \ {p}
    /\ view' = [view EXCEPT ![p] = {}]
    /\ Goto(p, "lock_write")
    /\ UNCHANGED <<db, lock, task, trial, source, history>>

LockForWrite(p) ==
    /\ pc[p] = "lock_write"
    /\ Acquire(p)
    /\ Goto(p, "upsert")
    /\ UNCHANGED <<files, local, history>>

\* The canonical write; a failure is only logged.
UpsertTrial(p) ==
    /\ pc[p] = "upsert"
    /\ \/ db' = Upsert(db, trial[p]) /\ Goto(p, "append")
       \/ Fails("db") /\ db' = db /\ Goto(p, "append_only")
    /\ UNCHANGED <<tsv, header, handles, lock, local, history>>

AppendLine(p) ==
    /\ tsv' = tsv \cup trial[p]
    /\ header' = IF header = "none" THEN "current" ELSE header

\* Mutant: the caller forgets to recompute.
AppendWithoutRecompute(p) ==
    /\ pc[p] = "append"
    /\ AppendLine(p)
    /\ Release(p)
    /\ acked' = acked \cup TrialsOf(trial[p])
    /\ trial' = [trial EXCEPT ![p] = {}]
    /\ Goto(p, "idle")
    /\ UNCHANGED <<db, handles, task, view, source, taken, crashes>>

\* The mirror's line; write_row returns, whether or not it could be written.
AppendTrial(p) ==
    /\ pc[p] = "append"
    /\ AppendLine(p) \/ (Fails("tsv") /\ UNCHANGED <<tsv, header>>)
    /\ Release(p)
    /\ acked' = acked \cup TrialsOf(trial[p])
    /\ trial' = [trial EXCEPT ![p] = {}]
    /\ Goto(p, "lock_refresh")
    /\ UNCHANGED <<db, handles, task, view, source, taken, crashes>>

\* The canonical write has failed, and this one is all there will be.
AppendOnly(p) ==
    /\ pc[p] = "append_only"
    /\ AppendLine(p)
    /\ Release(p)
    /\ acked' = acked \cup TrialsOf(trial[p])
    /\ trial' = [trial EXCEPT ![p] = {}]
    /\ Goto(p, "lock_refresh")
    /\ UNCHANGED <<db, handles, task, view, source, taken, crashes>>

\* Mutant: the write is tried again instead.
RetriedForEver(p) ==
    /\ pc[p] = "append_only"
    /\ Fails("tsv")
    /\ Release(p)
    /\ Goto(p, "lock_write")
    /\ UNCHANGED <<files, local, history>>

\* Both writes have failed: write_row raises and the process ends.
WriteRaises(p) ==
    /\ pc[p] = "append_only"
    /\ Fails("tsv")
    /\ Release(p)
    /\ trial' = [trial EXCEPT ![p] = {}]
    /\ Goto(p, "idle")
    /\ UNCHANGED <<files, task, view, source, history>>

-----------------------------------------------------------------------------
(* recompute_statuses and relabel_watchdog_kills                           *)

\* scripts/recompute_status.py, with or without --relabel-watchdog.
StartScript(p) ==
    /\ pc[p] = "idle"
    /\ \E job \in {"recompute", "relabel"} : task' = [task EXCEPT ![p] = job]
    /\ Goto(p, "lock_refresh")
    /\ UNCHANGED <<files, lock, trial, view, source, history>>

\* Mutant: the rows are read while another process holds the lock.
StolenForRefresh(p) ==
    /\ pc[p] = "lock_refresh"
    /\ CopiesBounded
    /\ lock' = p
    /\ view' = [view EXCEPT ![p] = StoreRows]
    /\ source' = [source EXCEPT ![p] = StoreSource]
    /\ Goto(p, "refresh")
    /\ UNCHANGED <<files, task, trial, history>>

LockForRefresh(p) ==
    /\ pc[p] = "lock_refresh"
    /\ CopiesBounded
    /\ Acquire(p)
    /\ view' = [view EXCEPT ![p] = StoreRows]
    /\ source' = [source EXCEPT ![p] = StoreSource]
    /\ Goto(p, "refresh")
    /\ UNCHANGED <<files, task, trial, history>>

\* Nothing to change.  A recompute still seeds a missing table.
RefreshNothing(p) ==
    /\ pc[p] = "refresh"
    /\ Updated(p) = view[p]
    /\ IF source[p] = "tsv" /\ task[p] = "recompute"
         THEN Goto(p, "seed") /\ UNCHANGED <<lock, local>>
         ELSE Finish(p)
    /\ UNCHANGED <<files, history>>

\* Mutant: the table is replaced by the changed rows.
ReplacedTable(p) ==
    /\ pc[p] = "refresh"
    /\ Updated(p) # view[p]
    /\ db' = Updated(p) \ view[p]
    /\ Goto(p, "mirror")
    /\ UNCHANGED <<tsv, header, handles, lock, local, history>>

\* Changed rows go to the table first, if that is where they came from.
RefreshTable(p) ==
    /\ pc[p] = "refresh"
    /\ Updated(p) # view[p]
    /\ \/ /\ source[p] = "db"
          /\ db' = Upsert(db, Updated(p) \ view[p])
          /\ Goto(p, "mirror")
       \/ /\ source[p] = "db"
          /\ Fails("db")
          /\ db' = db
          /\ Goto(p, "heal")
       \/ /\ source[p] = "tsv"
          /\ db' = db
          /\ Goto(p, "mirror")
    /\ UNCHANGED <<tsv, header, handles, lock, local, history>>

\* try_sync_from_tsv: wipe the table and fill it from the mirror.
SyncFromTsv == db' = tsv \/ (Fails("db") /\ db' = db)

Heal(p) ==
    /\ pc[p] = "heal"
    /\ SyncFromTsv
    /\ Goto(p, "mirror")
    /\ UNCHANGED <<tsv, header, handles, lock, local, history>>

\* _replace_tsv: a new file takes the mirror's name.
Mirror(p) ==
    /\ pc[p] = "mirror"
    /\ \/ /\ tsv' = Updated(p)
          /\ header' = "current"
          /\ handles' = {}
       \/ Fails("tsv") /\ UNCHANGED <<tsv, header, handles>>
    /\ IF source[p] = "tsv"
         THEN Goto(p, "seed") /\ UNCHANGED <<lock, local>>
         ELSE Finish(p)
    /\ UNCHANGED <<db, history>>

\* A missing or empty table is seeded from the mirror.
Seed(p) ==
    /\ pc[p] = "seed"
    /\ SyncFromTsv
    /\ Finish(p)
    /\ UNCHANGED <<tsv, header, handles, history>>

-----------------------------------------------------------------------------
\* A killed process loses its locals and its lock, and may be started again.
Crash(p) ==
    /\ pc[p] # "idle"
    /\ crashes < MaxCrashes
    /\ crashes' = crashes + 1
    /\ lock' = IF lock = p THEN NoProc ELSE lock
    /\ handles' = handles \ {p}
    /\ Goto(p, "idle")
    /\ task' = [task EXCEPT ![p] = "recompute"]
    /\ trial' = [trial EXCEPT ![p] = {}]
    /\ view' = [view EXCEPT ![p] = {}]
    /\ UNCHANGED <<db, tsv, header, source, taken, acked>>

WriteRow(p) ==
    \/ EnsureNothing(p) \/ EnsureRead(p) \/ EnsureTruncate(p) \/ EnsureRewrite(p)
    \/ LockForWrite(p) \/ UpsertTrial(p)
    \/ AppendTrial(p) \/ AppendOnly(p) \/ WriteRaises(p)

RecomputeStatuses(p) ==
    \/ LockForRefresh(p) \/ RefreshNothing(p) \/ RefreshTable(p)
    \/ Heal(p) \/ Mirror(p) \/ Seed(p)

Next ==
    \E p \in Procs :
        \/ \E t \in Trials : StartTrial(p, t)
        \/ StartScript(p)
        \/ WriteRow(p)
        \/ RecomputeStatuses(p)
        \/ Crash(p)

Spec == Init /\ [][Next]_vars

\* A process in the middle of a call goes on with it, and flock does not
\* pass over a waiter for ever.
Fairness ==
    \A p \in Procs : /\ WF_vars(WriteRow(p) \/ RecomputeStatuses(p))
                     /\ SF_vars(LockForWrite(p))
                     /\ SF_vars(LockForRefresh(p))

FairSpec == Spec /\ Fairness

-----------------------------------------------------------------------------
TypeOK ==
    /\ db \subseteq Row
    /\ tsv \subseteq Row
    /\ header \in {"none", "old", "current"}
    /\ handles \subseteq Procs
    /\ lock \in Procs \cup {NoProc}
    /\ pc \in [Procs -> PCs]
    /\ task \in [Procs -> {"recompute", "relabel"}]
    /\ trial \in [Procs -> SUBSET Row]
    /\ view \in [Procs -> SUBSET Row]
    /\ source \in [Procs -> {"db", "tsv"}]
    /\ taken \subseteq Trials
    /\ acked \subseteq Trials
    /\ crashes \in 0..MaxCrashes

\* Every Trial whose write_row has returned is among the rows a reader gets
\* (run.write_row, run.recompute_statuses, results_db.load_rows): the refresh
\* that rewrites both files, the heal and the seed never drop one.
AckedVisible == acked \subseteq TrialsOf(StoreRows)

\* No Trial whose write_row has returned is gone from both files
\* (autoloop._write_trial: "no Trial disappears").
AckedStored == acked \subseteq TrialsOf(db) \cup TrialsOf(tsv)

\* The mirror never shows a Trial the canonical table lacks, whoever
\* migrates, appends to or replaces results.tsv (run.write_row writes the
\* table first): falling back to the mirror cannot invent a Trial.
MirrorAddsNothing == TrialsOf(tsv) \subseteq TrialsOf(db)

\* No store ever holds two rows of one Trial (trial_id is the table's primary
\* key, and the mirror has none): an append, a heal, a seed or a migration
\* never puts a stale row next to the current one.
OneRow(table) == \A q, r \in table : q.trial = r.trial => q = r
OneRowPerTrial == OneRow(db) /\ OneRow(tsv)

\* Statuses are those of a full recompute whenever no process that is alive
\* still owes one (autoloop._write_trial and run.handle_single_run call
\* recompute_statuses after every write_row): however the two critical
\* sections of several processes interleave, nobody's refresh is lost.
Owes(p) == pc[p] \in {"append", "append_only", "lock_refresh", "refresh"}
FreshUnlessOwed ==
    crashes = 0 /\ (\A p \in Procs : ~ Owes(p)) => recompute_rows(db) = db

\* A refresh of the table that changed it leaves nothing for the next one to
\* change (recompute_statuses: "Idempotent: rerunning changes nothing").
RefreshSettles ==
    [][\A p \in Procs :
        RefreshTable(p) /\ task[p] = "recompute" /\ db' # db
            => recompute_rows(db') = db']_vars

\* Every call returns or raises: nobody waits for the lock for ever, also
\* when its owner was killed.
CallsReturn == \A p \in Procs : pc[p] # "idle" ~> pc[p] = "idle"

\* When no process is killed, the statuses converge to those of a recompute.
StatusesConverge == <>[](recompute_rows(db) = db)

-----------------------------------------------------------------------------
(* The inductive invariant of the store whose table can always be written, *)
(* was seeded before the processes start, and holds no row without         *)
(* trial_id (the hypotheses of ResultsStoreProofs).                        *)

\* Holding the lock is the same as being in a critical section.
LockHeld == \A p \in Procs : pc[p] \in Critical <=> lock = p

\* The branches of a failed table write are never taken.
TableReliable == \A p \in Procs : pc[p] \notin {"heal", "append_only"}

\* What a process has read stays in the table, and what a refresh has read
\* of the table is the table until the refresh writes it.
ViewsStored ==
    \A p \in Procs :
        /\ TrialsOf(view[p]) \subseteq TrialsOf(db)
        /\ pc[p] = "refresh" /\ source[p] = "db" => view[p] = db

\* The mirror is read for a refresh only while there is nothing in the table.
MirrorReadWhenEmpty ==
    \A p \in Procs :
        pc[p] = "seed" \/ (pc[p] \in {"refresh", "mirror"} /\ source[p] = "tsv") => db = {}

\* r is the row of a Trial as write_row is given it.
Planned(r) ==
    LET a == Attr[r.trial]
    IN  /\ r.copy = 0 /\ r.outcome = "final" /\ ~ a.anonymous
        /\ IF a.screen THEN r.status = "incomplete"
                       ELSE r.status = "rejected" <=> a.failed

\* A Trial on its way to the table is new to it, and in one process only.
Pending == {"ensure", "truncate", "rewrite", "lock_write", "upsert"}

PendingIsNew ==
    \A p \in Procs : pc[p] \in Pending =>
        \E r \in trial[p] : /\ trial[p] = {r}
                       /\ Planned(r)
                       /\ r.trial \in taken \ TrialsOf(db)

PendingApart ==
    \A p, q \in Procs : pc[p] \in Pending /\ pc[q] \in Pending /\ p # q =>
        TrialsOf(trial[p]) \cap TrialsOf(trial[q]) = {}

\* Once it has been upserted it is in the table.
AppendedIsStored ==
    \A p \in Procs : pc[p] = "append" => TrialsOf(trial[p]) \subseteq TrialsOf(db)

TableTaken == TrialsOf(db) \subseteq taken

AckedInTable == acked \subseteq TrialsOf(db)

IInv ==
    /\ TypeOK
    /\ LockHeld /\ TableReliable
    /\ MirrorAddsNothing /\ OneRow(db) /\ TableTaken /\ AckedInTable
    /\ ViewsStored /\ MirrorReadWhenEmpty
    /\ PendingIsNew /\ PendingApart /\ AppendedIsStored

-----------------------------------------------------------------------------
\* The store implements the ledger: the table, read through a recompute, is
\* the ledger's one, and only a successful upsert of a new Trial or a
\* relabelling changes it.
Ledger == INSTANCE TrialLedger WITH rows <- recompute_rows(db), InitRows <- InitDb
ImplementsLedger == Ledger!Spec

=============================================================================
