---------------------------- MODULE AgenticCoding ----------------------------
(***************************************************************************)
(* The agentic coding benchmark (benchmarks/agentic_coding/runner.py): a   *)
(* model works on one frozen issue after another in a throw-away copy of   *)
(* its workspace, turn by turn, and a detector (detector.py) ends the      *)
(* session that loops, stalls or calls what it must not.  The model may    *)
(* answer anything; a file's contents are one of a few texts.              *)
(***************************************************************************)
EXTENDS Naturals, Sequences, FiniteSets, SequencesExt

CONSTANTS
    Packs,      \* the packs of issues: sequences of records allow, docsOnly, maxTurns
    Calls,      \* the tool calls a model makes: records tool, path, old, new, and fresh for one
                \* that differs from the earlier ones of its kind, as a search for other words
    MaxCalls    \* bound: the tool calls of one answer

Files == {"code", "other", "_hidden_tests"}
Texts == {"given", "draft", "fixed", "hangs"}
None == "none"
Reasons == {"unknown_tool", "docs_only", "path_escape", "hidden_tests", "not_allowlisted",
            "repeat", "stall", "request_failed", "tests_red", "max_turns_tests_red"}
RepeatLimit == 3
StallTurns == 3

ASSUME CodingAssumption ==
    /\ MaxCalls \in Nat \ {0}
    /\ Packs \subseteq Seq([allow : SUBSET Files, docsOnly : BOOLEAN, maxTurns : Nat])
    /\ \A c \in Calls : c.new \in Texts /\ c.fresh \in BOOLEAN

VARIABLES
    pack,       \* the issues of this evaluation
    results,    \* whether each issue so far was passed
    pc,         \* "prepare", "ask", "call", "close", "scored" or "raised"
    turn,       \* the requests of this session that were answered
    made,       \* the tool calls of this answer
    tree,       \* the working copy
    calls,      \* detector: how often each call was recorded
    lastTree,   \* detector: the allowlisted files at the end of the last turn
    stall,      \* detector: turns that wrote and changed nothing
    fail,       \* detector: its reason to end the session
    mutated,    \* this answer calls a tool that writes
    reason,     \* the session's fail_reason
    testsOk     \* the session's last run of the hidden tests

detector == <<calls, lastTree, stall, fail>>
session == <<turn, made, tree, detector, mutated, reason, testsOk>>
vars == <<pack, results, pc, session>>

Workspace == [f \in Files |-> "given"]
Issue == pack[Len(results) + 1]
\* Without an allowlist every file of the copy but the hidden tests is on it.
Allowlist == IF Issue.allow = {} THEN Files \ {"_hidden_tests"} ELSE Issue.allow
Snapshot(t) == [f \in Allowlist |-> t[f]]

Init ==
    /\ pack \in Packs
    /\ results = <<>>
    /\ pc = "prepare"
    /\ turn = 0 /\ made = 0
    /\ tree = Workspace
    /\ calls = [c \in Calls |-> 0]
    /\ lastTree = <<>>
    /\ stall = 0
    /\ fail = None
    /\ mutated = FALSE
    /\ reason = None
    /\ testsOk = FALSE

\* A fresh copy and a fresh detector for the next issue; after the last one, the score.
Prepare ==
    /\ pc = "prepare"
    /\ IF Len(results) = Len(pack)
       THEN pc' = "scored" /\ UNCHANGED session
       ELSE /\ pc' = "ask"
            /\ turn' = 0 /\ made' = 0
            /\ tree' = Workspace
            /\ calls' = [c \in Calls |-> 0]
            /\ lastTree' = Snapshot(Workspace)
            /\ stall' = 0
            /\ fail' = None
            /\ mutated' = FALSE
            /\ reason' = None
            /\ testsOk' = FALSE
    /\ UNCHANGED <<pack, results>>

ScoreOf(passed, total) == IF total = 0 THEN 0 ELSE (100 * passed) \div total
Score == ScoreOf(Len(SelectSeq(results, LAMBDA passed : passed)), Len(pack))

(***************************************************************************)
(* The hidden tests are green when the issue is solved; tests that were    *)
(* written over may say anything, here that all is well.  A test that does *)
(* not return is killed after RUN_TESTS_TIMEOUT_SEC with an exception.     *)
(* Nobody in the session catches it, nor one of another tool, such as that *)
(* of reading a file that is no text: the whole evaluation ends with it.   *)
(***************************************************************************)
Green(t) == t["_hidden_tests"] # "given" \/ t["code"] = "fixed"
Hangs(t) == t["code"] = "hangs"

\* The session ends with the hidden tests: the detector's reason, else what red tests mean.
Judge(red) ==
    \/ pc' = "raised" /\ UNCHANGED <<reason, testsOk>>
    \/ /\ ~Hangs(tree)
       /\ pc' = "close"
       /\ testsOk' = Green(tree)
       /\ reason' = IF fail # None THEN fail ELSE IF Green(tree) THEN None ELSE red

Asking == pc = "ask" /\ fail = None /\ turn < Issue.maxTurns

RequestFails ==
    /\ Asking
    /\ pc' = "close"
    /\ reason' = "request_failed"
    /\ UNCHANGED <<pack, results, turn, made, tree, detector, mutated, testsOk>>

\* An answer without tool calls is the last one.
FinalAnswer ==
    /\ Asking
    /\ turn' = turn + 1
    /\ Judge("tests_red")
    /\ UNCHANGED <<pack, results, made, tree, detector, mutated>>

OutOfTurns ==
    /\ pc = "ask"
    /\ turn = Issue.maxTurns
    /\ Judge("max_turns_tests_red")
    /\ UNCHANGED <<pack, results, turn, made, tree, detector, mutated>>

\* Mutant: only answers without tool calls count as turns.
ToolAnswerFree ==
    /\ Asking
    /\ pc' = "call"
    /\ made' = 0
    /\ mutated' = FALSE
    /\ UNCHANGED <<pack, results, turn, tree, detector, reason, testsOk>>

ToolAnswer ==
    /\ Asking
    /\ pc' = "call"
    /\ turn' = turn + 1
    /\ made' = 0
    /\ mutated' = FALSE
    /\ UNCHANGED <<pack, results, tree, detector, reason, testsOk>>

PathTools == {"inspect", "write_file", "str_replace"}
Writing == {"write_file", "str_replace"}
AllowedTools == PathTools \cup {"run_tests"}

\* Mutant: str_replace is treated as a tool that only looks.
OnAllowlistUnlessWritten(c) == c.path \in Allowlist \/ c.tool # "write_file"

\* path_on_allowlist: a file to write, or one to look at, which may be a directory above it.
OnAllowlist(c) == c.path \in Allowlist \/ (c.tool \notin Writing /\ c.path = ".")

\* Mutant: the limit is the number of repetitions, not of calls.
RefusalLate(c, n) ==
    IF c.tool \notin AllowedTools THEN "unknown_tool"
    ELSE IF c.tool \in PathTools /\ ~OnAllowlist(c) THEN "not_allowlisted"
    ELSE IF ~c.fresh /\ n >= RepeatLimit THEN "repeat"
    ELSE None

\* record_tool, for a call that was recorded n times before.
Refusal(c, n) ==
    CASE c.tool \notin AllowedTools -> "unknown_tool"
      [] Issue.docsOnly /\ c.tool = "run_tests" -> "docs_only"
      [] c.tool \in PathTools /\ c.path = "outside" -> "path_escape"
      [] c.tool \in PathTools /\ c.path = "_hidden_tests" -> "hidden_tests"
      [] c.tool \in PathTools /\ ~OnAllowlist(c) -> "not_allowlisted"
      [] ~c.fresh /\ n + 1 >= RepeatLimit -> "repeat"
      [] OTHER -> None

\* The calls that record_tool counts, under a key that is made of all their arguments.
Counted(c) == Refusal(c, 0) = None /\ ~c.fresh

\* What the tool does to the files; str_replace only where it finds the old text.
Written(c) ==
    IF c.path \in Files /\ (c.tool = "write_file" \/ (c.tool = "str_replace" /\ tree[c.path] = c.old))
    THEN [tree EXCEPT ![c.path] = c.new]
    ELSE tree

\* Mutant: the call is run first and recorded after.
CallBeforeCheck(c) ==
    /\ pc = "call"
    /\ made < MaxCalls
    /\ reason = None
    /\ made' = made + 1
    /\ mutated' = (mutated \/ c.tool \in Writing)
    /\ fail' = Refusal(c, calls[c])
    /\ reason' = fail'
    /\ calls' = IF Counted(c) THEN [calls EXCEPT ![c] = @ + 1] ELSE calls
    /\ tree' = Written(c)
    /\ UNCHANGED <<pack, results, pc, turn, lastTree, stall, testsOk>>

\* One call of the answer: recorded, then run unless it is refused; a tool that is run may raise.
Call(c) ==
    /\ pc = "call"
    /\ made < MaxCalls
    /\ reason = None
    /\ made' = made + 1
    /\ mutated' = (mutated \/ c.tool \in Writing)
    /\ fail' = Refusal(c, calls[c])
    /\ reason' = fail'
    /\ calls' = IF Counted(c) THEN [calls EXCEPT ![c] = @ + 1] ELSE calls
    /\ \/ pc' = "call" /\ tree' = IF fail' = None THEN Written(c) ELSE tree
       \/ pc' = "raised" /\ fail' = None /\ tree' = tree
    /\ c.tool = "run_tests" /\ Hangs(tree) /\ fail' = None => pc' = "raised"
    /\ UNCHANGED <<pack, results, turn, lastTree, stall, testsOk>>

\* note_turn_hash: turns that write count as stalled while the allowlisted files stay as they are.
Stalled == IF ~mutated THEN stall ELSE IF Snapshot(tree) = lastTree THEN stall + 1 ELSE 0
EndTurn ==
    /\ pc = "call"
    /\ made > 0
    /\ stall' = Stalled
    /\ lastTree' = Snapshot(tree)
    /\ fail' = IF mutated /\ Stalled >= StallTurns THEN "stall" ELSE fail
    /\ reason' = IF fail' # None THEN fail' ELSE reason
    /\ pc' = IF reason' = None THEN "ask" ELSE "close"
    /\ UNCHANGED <<pack, results, turn, made, tree, calls, mutated, testsOk>>

\* The working copy is removed and the issue counted.
Passed == testsOk /\ reason = None
Close ==
    /\ pc = "close"
    /\ pc' = "prepare"
    /\ results' = Append(results, Passed)
    /\ UNCHANGED <<pack, session>>

Next ==
    \/ Prepare
    \/ RequestFails
    \/ FinalAnswer
    \/ OutOfTurns
    \/ ToolAnswer
    \/ \E c \in Calls : Call(c)
    \/ EndTurn
    \/ Close

Spec == Init /\ [][Next]_vars
FairSpec == Spec /\ WF_vars(Next)

-----------------------------------------------------------------------------
TypeOK ==
    /\ pack \in Packs
    /\ results \in Seq(BOOLEAN) /\ Len(results) <= Len(pack)
    /\ pc \in {"prepare", "ask", "call", "close", "scored", "raised"}
    /\ turn \in Nat /\ made \in 0..MaxCalls
    /\ tree \in [Files -> Texts]
    /\ calls \in [Calls -> 0..RepeatLimit]
    /\ stall \in 0..StallTurns
    /\ fail \in Reasons \cup {None} /\ reason \in Reasons \cup {None}
    /\ mutated \in BOOLEAN /\ testsOk \in BOOLEAN

(***************************************************************************)
(* An issue is passed only by a working copy that solves it, as it stands  *)
(* at the end of the session, with the hidden tests as they were given and *)
(* no file changed but the allowlisted ones: whatever the model called,    *)
(* in whatever order, and however often its tests were green before.       *)
(***************************************************************************)
PassIsEarned ==
    pc = "close" /\ Passed =>
        /\ tree["code"] = "fixed"
        /\ \A f \in Files \ Allowlist : tree[f] = "given"

(***************************************************************************)
(* A call that is refused does nothing, and nothing is done after it: with *)
(* the step that gives the detector a reason the files stay as they are    *)
(* until the session is closed, and the issue is not passed.               *)
(***************************************************************************)
RefusedIsOver ==
    [][(fail # None \/ fail' # None) /\ pc \in {"ask", "call", "close"} =>
          tree' = tree /\ (results' # results => ~Last(results'))]_vars

(***************************************************************************)
(* The evaluation of the pack comes to an end, with a score or with an     *)
(* exception, however the model answers: a model that keeps calling tools  *)
(* runs out of turns.                                                      *)
(***************************************************************************)
EvaluationEnds == <>(pc \in {"scored", "raised"})
=============================================================================
