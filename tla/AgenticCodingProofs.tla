------------------------ MODULE AgenticCodingProofs ------------------------
(***************************************************************************)
(* The issue sessions of an evaluation, for any packs, any tool calls a    *)
(* model can make and any number of them in one answer.                    *)
(***************************************************************************)
EXTENDS AgenticCoding, WellFoundedInduction, TLAPS

\* An issue is at hand until the last one is counted.
IssueAtHand == pc \in {"ask", "call", "close"} => Len(results) < Len(pack)

\* Only the repetition that ends the session reaches the limit, and so with the stalled turns.
CountersBounded ==
    /\ fail = None => \A c \in Calls : calls[c] < RepeatLimit
    /\ pc \in {"ask", "call"} => stall < StallTurns

\* The detector's reason is the session's, from the call on that gave it.
ReasonKept ==
    /\ pc = "ask" => fail = None /\ reason = None
    /\ pc = "call" => reason = fail
    /\ pc = "close" /\ reason = None => fail = None /\ testsOk = Green(tree)

\* What is not on the allowlist is as it was given, and so are the hidden tests.
OutsideUntouched ==
    pc \in {"ask", "call", "close"} =>
        /\ tree["_hidden_tests"] = "given"
        /\ \A f \in Files \ Allowlist : tree[f] = "given"

IInv == TypeOK /\ IssueAtHand /\ CountersBounded /\ ReasonKept /\ OutsideUntouched

LEMMA IssueType ==
    ASSUME TypeOK, Len(results) < Len(pack)
    PROVE  /\ Issue \in [allow : SUBSET Files, docsOnly : BOOLEAN, maxTurns : Nat]
           /\ Allowlist \subseteq Files
<1> DEFINE I == [allow : SUBSET Files, docsOnly : BOOLEAN, maxTurns : Nat]
<1>1. pack \in Seq(I)
  BY CodingAssumption DEF TypeOK
<1>2. Len(results) + 1 \in 1..Len(pack)
  BY <1>1 DEF TypeOK
<1>3. Issue \in I
  <2> HIDE DEF I
  <2> QED
    BY <1>1, <1>2 DEF Issue
<1>4. Issue.allow \subseteq Files
  BY <1>3
<1> QED
  BY <1>3, <1>4 DEF Allowlist

\* What record_tool says is a reason or none.
LEMMA RefusalType ==
    ASSUME NEW c, NEW n
    PROVE  Refusal(c, n) \in Reasons \cup {None}
BY DEF Refusal, Reasons

\* A tool writes one file of the copy or nothing.
LEMMA WrittenType ==
    ASSUME TypeOK, NEW c \in Calls
    PROVE  /\ Written(c) \in [Files -> Texts]
           /\ \A f \in Files : Written(c)[f] # tree[f] => f = c.path /\ c.tool \in Writing
BY CodingAssumption DEF TypeOK, Written, Writing

\* A call that is let through writes no hidden test, and only on the allowlist.
LEMMA LetThrough ==
    ASSUME NEW c, NEW n, Refusal(c, n) = None, c.tool \in Writing
    PROVE  c.path # "_hidden_tests" /\ c.path \in Allowlist
BY DEF Refusal, None, Writing, PathTools, AllowedTools, OnAllowlist

LEMMA JudgeReason ==
    ASSUME TypeOK, NEW red \in Reasons, Judge(red)
    PROVE  /\ pc' \in {"raised", "close"}
           /\ reason' \in Reasons \cup {None} /\ testsOk' \in BOOLEAN
           /\ pc' = "close" /\ reason' = None => fail = None /\ testsOk' = Green(tree)
BY DEF TypeOK, Judge, Green, Reasons, None

LEMMA PackType ==
    ASSUME pack \in Packs
    PROVE  Len(pack) \in Nat
<1>1. pack \in Seq([allow : SUBSET Files, docsOnly : BOOLEAN, maxTurns : Nat])
  BY CodingAssumption
<1> QED
  BY <1>1

LEMMA InitInv == Init => IInv
<1> SUFFICES ASSUME Init
             PROVE  IInv
  OBVIOUS
<1>1. TypeOK
  <2>1. Len(pack) \in Nat
    BY PackType DEF Init
  <2>2. Workspace \in [Files -> Texts]
    BY DEF Workspace, Texts
  <2>3. calls \in [Calls -> 0..RepeatLimit] /\ stall \in 0..StallTurns /\ made \in 0..MaxCalls
    BY CodingAssumption DEF Init, RepeatLimit, StallTurns
  <2>4. results \in Seq(BOOLEAN) /\ Len(results) = 0
    BY DEF Init
  <2>5. turn \in Nat /\ fail \in Reasons \cup {None} /\ reason \in Reasons \cup {None}
    BY DEF Init
  <2>6. mutated \in BOOLEAN /\ testsOk \in BOOLEAN /\ pack \in Packs
    BY DEF Init
  <2>7. pc \in {"prepare", "ask", "call", "close", "scored", "raised"} /\ tree \in [Files -> Texts]
    BY <2>2 DEF Init
  <2> QED
    BY <2>1, <2>3, <2>4, <2>5, <2>6, <2>7 DEF TypeOK
<1> QED
  BY <1>1 DEF Init, IInv, IssueAtHand, CountersBounded, ReasonKept, OutsideUntouched, RepeatLimit

LEMMA PrepareStep ==
    ASSUME IInv, Prepare
    PROVE  IInv'
<1> USE DEF session, detector
<1>1. pack' = pack /\ results' = results /\ Len(pack) \in Nat
  BY PackType DEF Prepare, IInv, TypeOK
<1>2. Workspace \in [Files -> Texts]
  BY DEF Workspace, Texts
<1>3. TypeOK'
  <2>1. /\ calls' \in [Calls -> 0..RepeatLimit] /\ stall' \in 0..StallTurns
        /\ made' \in 0..MaxCalls /\ turn' \in Nat
    BY CodingAssumption DEF Prepare, IInv, TypeOK, RepeatLimit, StallTurns
  <2> QED
    BY <1>1, <1>2, <2>1 DEF Prepare, IInv, TypeOK
<1>4. IssueAtHand'
  BY <1>1 DEF Prepare, IInv, TypeOK, IssueAtHand
<1>5. CountersBounded' /\ ReasonKept'
  BY DEF Prepare, IInv, CountersBounded, ReasonKept, RepeatLimit, StallTurns
<1>6. OutsideUntouched'
  BY DEF Prepare, OutsideUntouched, Workspace, Files
<1> QED
  BY <1>3, <1>4, <1>5, <1>6 DEF IInv

LEMMA JudgeStep ==
    ASSUME IInv, NEW red \in Reasons, Judge(red), pc = "ask",
           turn' \in Nat,
           UNCHANGED <<pack, results, made, tree, detector, mutated>>
    PROVE  IInv'
<1> USE JudgeReason DEF detector
<1>1. TypeOK'
  BY DEF IInv, TypeOK
<1>2. IssueAtHand' /\ CountersBounded'
  BY DEF IInv, IssueAtHand, CountersBounded
<1>3. ReasonKept' /\ OutsideUntouched'
  BY DEF IInv, ReasonKept, OutsideUntouched, Green, Allowlist, Issue
<1> QED
  BY <1>1, <1>2, <1>3 DEF IInv

LEMMA CallStep ==
    ASSUME IInv, NEW c \in Calls, Call(c)
    PROVE  IInv'
<1> DEFINE n == calls[c]
<1>1. pc = "call" /\ fail = None /\ n \in 0..2 /\ reason' = fail' /\ pc' \in {"call", "raised"}
  BY DEF IInv, TypeOK, ReasonKept, CountersBounded, RepeatLimit, Call
<1>2. fail' = Refusal(c, n) /\ fail' \in Reasons \cup {None}
  BY RefusalType DEF Call
<1>3. tree' = tree \/ (fail' = None /\ tree' = Written(c))
  BY DEF Call
<1>4. calls' = calls \/ (~c.fresh /\ Refusal(c, 0) = None /\ calls' = [calls EXCEPT ![c] = n + 1])
  BY DEF Call, Counted
<1>5. TypeOK'
  <2>1. calls' \in [Calls -> 0..RepeatLimit]
    BY <1>1, <1>4 DEF IInv, TypeOK, RepeatLimit
  <2>2. tree' \in [Files -> Texts]
    BY <1>3, WrittenType DEF IInv, TypeOK
  <2>3. made' \in 0..MaxCalls /\ mutated' \in BOOLEAN
    BY CodingAssumption DEF IInv, TypeOK, Call
  <2> QED
    BY <1>1, <1>2, <2>1, <2>2, <2>3 DEF IInv, TypeOK, Call
<1>6. CountersBounded'
  <2>1. ASSUME fail' = None, ~c.fresh
        PROVE  n + 1 < RepeatLimit
    BY <1>1, <1>2, <2>1 DEF Refusal, None, RepeatLimit
  <2> QED
    BY <1>1, <1>4, <2>1 DEF IInv, TypeOK, CountersBounded, Call
<1>7. OutsideUntouched'
  <2>1. UNCHANGED <<pack, results>> /\ Allowlist' = Allowlist
    BY DEF Call, Allowlist, Issue
  <2>2. ASSUME fail' = None, NEW f \in Files, Written(c)[f] # tree[f]
        PROVE  f # "_hidden_tests" /\ f \in Allowlist
    <3>1. f = c.path /\ c.tool \in Writing
      BY <2>2, WrittenType DEF IInv
    <3>2. Refusal(c, n) = None
      BY <1>2, <2>2
    <3> QED
      BY <3>1, <3>2, LetThrough
  <2> QED
    BY <1>1, <1>3, <2>1, <2>2 DEF IInv, OutsideUntouched, Files
<1>8. IssueAtHand' /\ ReasonKept'
  BY <1>1 DEF IInv, IssueAtHand, ReasonKept, Call
<1> QED
  BY <1>5, <1>6, <1>7, <1>8 DEF IInv

LEMMA EndTurnStep ==
    ASSUME IInv, EndTurn
    PROVE  IInv'
<1>1. Stalled \in 0..StallTurns /\ (mutated \/ Stalled < StallTurns)
  BY DEF IInv, TypeOK, CountersBounded, EndTurn, Stalled, StallTurns
<1>2. fail' \in Reasons \cup {None} /\ (fail' = None => fail = None /\ Stalled < StallTurns)
  BY <1>1 DEF IInv, TypeOK, EndTurn, Reasons, None, StallTurns
<1>3. reason' = fail' /\ pc' = IF fail' = None THEN "ask" ELSE "close"
  BY DEF IInv, ReasonKept, EndTurn, None
<1>4. TypeOK'
  BY <1>1, <1>2, <1>3 DEF IInv, TypeOK, EndTurn
<1>5. CountersBounded' /\ IssueAtHand' /\ ReasonKept'
  BY <1>2, <1>3 DEF IInv, CountersBounded, IssueAtHand, ReasonKept, EndTurn
<1>6. OutsideUntouched'
  BY <1>3 DEF IInv, OutsideUntouched, EndTurn, Allowlist, Issue
<1> QED
  BY <1>4, <1>5, <1>6 DEF IInv

LEMMA OtherSteps ==
    ASSUME IInv, RequestFails \/ ToolAnswer \/ Close \/ UNCHANGED vars
    PROVE  IInv'
<1>1. CASE RequestFails
  BY <1>1, CodingAssumption DEF RequestFails, Asking, IInv, TypeOK, IssueAtHand, CountersBounded, ReasonKept,
     OutsideUntouched, detector, Reasons, None, Allowlist, Issue
<1>2. CASE ToolAnswer
  <2>1. turn' \in Nat /\ made' \in 0..MaxCalls
    BY <1>2, CodingAssumption DEF ToolAnswer, IInv, TypeOK
  <2> QED
    BY <1>2, <2>1 DEF ToolAnswer, Asking, IInv, TypeOK, IssueAtHand, CountersBounded, ReasonKept,
       OutsideUntouched, detector, Allowlist, Issue
<1>3. CASE Close
  <2>1. Passed \in BOOLEAN
    BY DEF Passed, IInv, TypeOK
  <2>2. results' \in Seq(BOOLEAN) /\ Len(results') <= Len(pack)
    <3>1. pack \in Seq([allow : SUBSET Files, docsOnly : BOOLEAN, maxTurns : Nat])
      BY CodingAssumption DEF IInv, TypeOK
    <3> QED
      BY <1>3, <2>1, <3>1 DEF Close, IInv, TypeOK, IssueAtHand
  <2> QED
    BY <1>3, <2>2 DEF Close, IInv, TypeOK, IssueAtHand, CountersBounded, ReasonKept, OutsideUntouched,
       session, detector
<1>4. CASE UNCHANGED vars
  BY <1>4 DEF vars, session, detector, IInv, TypeOK, IssueAtHand, CountersBounded, ReasonKept,
     OutsideUntouched, Green, Allowlist, Issue
<1> QED
  BY <1>1, <1>2, <1>3, <1>4

LEMMA InductiveInvariant == Spec => []IInv
<1>1. ASSUME IInv, [Next]_vars
      PROVE  IInv'
  <2>1. CASE FinalAnswer
    <3>1. turn' \in Nat
      BY <1>1, <2>1 DEF FinalAnswer, IInv, TypeOK
    <3> QED
      BY <1>1, <2>1, <3>1, JudgeStep DEF FinalAnswer, Asking, Reasons
  <2>2. CASE OutOfTurns
    <3>1. turn' \in Nat
      BY <1>1, <2>2 DEF OutOfTurns, IInv, TypeOK
    <3> QED
      BY <1>1, <2>2, <3>1, JudgeStep DEF OutOfTurns, Reasons
  <2> QED
    BY <1>1, <2>1, <2>2, PrepareStep, CallStep, EndTurnStep, OtherSteps DEF Next
<1> QED
  BY <1>1, InitInv, PTL DEF Spec

-----------------------------------------------------------------------------
\* The counters of the detector and of a session stay within their limits (detector.py).
THEOREM TypeCorrect == Spec => []TypeOK
BY InductiveInvariant, PTL DEF IInv

\* Whatever a model calls, an issue is passed only by a copy that solves it with the hidden tests
\* as given and no file changed that is not on the allowlist (runner.py, detector.record_tool).
THEOREM PassesAreEarned == Spec => []PassIsEarned
<1>1. IInv => PassIsEarned
  BY DEF IInv, ReasonKept, OutsideUntouched, PassIsEarned, Passed, Green
<1> QED
  BY <1>1, InductiveInvariant, PTL

\* With the step that gives the detector a reason the files stay as they are, and the issue is not
\* passed (runner.py's turn loop over detector.py).
THEOREM RefusalIsFinal == Spec => RefusedIsOver
<1> DEFINE Step == (fail # None \/ fail' # None) /\ pc \in {"ask", "call", "close"} =>
                      tree' = tree /\ (results' # results => ~Last(results'))
<1>1. IInv /\ [Next]_vars => [Step]_vars
  <2> SUFFICES ASSUME IInv, Next, fail # None \/ fail' # None, pc \in {"ask", "call", "close"}
               PROVE  tree' = tree /\ (results' # results => ~Last(results'))
    OBVIOUS
  <2>1. ASSUME NEW c \in Calls, Call(c)
        PROVE  tree' = tree /\ results' = results
    BY <2>1 DEF IInv, ReasonKept, Call
  <2>2. CASE Close
    <3>1. ~Passed
      BY <2>2 DEF IInv, ReasonKept, Passed, Close, session, detector
    <3>2. results \in Seq(BOOLEAN)
      BY DEF IInv, TypeOK
    <3>3. Last(Append(results, Passed)) = Passed
      BY <3>2 DEF Last
    <3> QED
      BY <2>2, <3>1, <3>3 DEF Close, session
  <2>3. CASE RequestFails \/ FinalAnswer \/ OutOfTurns \/ ToolAnswer \/ EndTurn
    BY <2>3 DEF RequestFails, FinalAnswer, OutOfTurns, ToolAnswer, EndTurn
  <2>4. ~Prepare
    BY DEF Prepare
  <2> QED
    BY <2>1, <2>2, <2>3, <2>4 DEF Next
<1> QED
  BY <1>1, InductiveInvariant, PTL DEF Spec, RefusedIsOver

-----------------------------------------------------------------------------
(* An evaluation runs out of steps: each one lowers what is left of the    *)
(* pack, of the turns of the issue at hand, or of the calls of the answer. *)

TurnsBounded == pc \in {"ask", "call"} => turn <= Issue.maxTurns

IssuesLeft ==
    CASE pc \in {"scored", "raised"} -> 0
      [] pc = "prepare" -> 3 * (Len(pack) - Len(results)) + 3
      [] pc \in {"ask", "call"} -> 3 * (Len(pack) - Len(results)) + 2
      [] pc = "close" -> 3 * (Len(pack) - Len(results)) + 1
TurnsLeft == IF pc \in {"ask", "call"} THEN Issue.maxTurns - turn ELSE 0
CallsLeft == IF pc = "call" THEN MaxCalls - made + 1 ELSE 0

Left == <<IssuesLeft, TurnsLeft, CallsLeft>>
Lower == LexProductOrdering(OpToRel(<, Nat), Nat, 3)

\* One component is lowered, and those before it stay.
LEMMA LowerWhen ==
    ASSUME NEW a \in Nat, NEW b \in Nat, NEW c \in Nat, NEW x \in Nat, NEW y \in Nat, NEW z \in Nat,
           a < x \/ (a = x /\ b < y) \/ (a = x /\ b = y /\ c < z)
    PROVE  <<<<a, b, c>>, <<x, y, z>>>> \in Lower
<1> DEFINE f == <<a, b, c>>
           g == <<x, y, z>>
<1>1. f \in [1..3 -> Nat] /\ g \in [1..3 -> Nat]
  OBVIOUS
<1>2. /\ f[1] = a /\ f[2] = b /\ f[3] = c
      /\ g[1] = x /\ g[2] = y /\ g[3] = z
  OBVIOUS
<1> HIDE DEF f, g
<1>3. \E j \in 1..3 : (\A i \in 1..(j - 1) : f[i] = g[i]) /\ f[j] < g[j]
  <2>1. CASE a < x
    <3>1. (\A i \in 1..(1 - 1) : f[i] = g[i]) /\ f[1] < g[1]
      BY <1>2, <2>1
    <3> QED
      BY <3>1
  <2>2. CASE a = x /\ b < y
    <3>1. (\A i \in 1..(2 - 1) : f[i] = g[i]) /\ f[2] < g[2]
      BY <1>2, <2>2
    <3> QED
      BY <3>1
  <2>3. CASE a = x /\ b = y /\ c < z
    <3>1. (\A i \in 1..(3 - 1) : f[i] = g[i]) /\ f[3] < g[3]
      BY <1>2, <2>3
    <3> QED
      BY <3>1
  <2> QED
    BY <2>1, <2>2, <2>3
<1>4. PICK j \in 1..3 : (\A i \in 1..(j - 1) : f[i] = g[i]) /\ f[j] < g[j]
  BY <1>3
<1>5. <<f[j], g[j]>> \in OpToRel(<, Nat)
  BY <1>1, <1>4 DEF OpToRel
<1>6. <<f, g>> \in Lower
  BY <1>1, <1>4, <1>5 DEF Lower, LexProductOrdering
<1> QED
  BY <1>6 DEF f, g

LEMMA LeftType ==
    ASSUME IInv, TurnsBounded
    PROVE  IssuesLeft \in Nat /\ TurnsLeft \in Nat /\ CallsLeft \in Nat
<1>1. Len(pack) \in Nat /\ Len(results) \in Nat /\ Len(results) <= Len(pack)
  BY PackType DEF IInv, TypeOK
<1>2. pc \in {"prepare", "ask", "call", "close", "scored", "raised"}
  BY DEF IInv, TypeOK
<1>3. IssuesLeft \in Nat
  BY <1>1, <1>2 DEF IssuesLeft
<1>4. TurnsLeft \in Nat
  <2>1. CASE pc \in {"ask", "call"}
    <3>1. Issue.maxTurns \in Nat /\ turn \in Nat /\ turn <= Issue.maxTurns
      BY <2>1, IssueType DEF IInv, TypeOK, IssueAtHand, TurnsBounded
    <3> QED
      BY <2>1, <3>1 DEF TurnsLeft
  <2>2. CASE pc \notin {"ask", "call"}
    BY <2>2 DEF TurnsLeft
  <2> QED
    BY <2>1, <2>2
<1>5. CallsLeft \in Nat
  BY CodingAssumption DEF IInv, TypeOK, CallsLeft
<1> QED
  BY <1>3, <1>4, <1>5

\* The shape of a step, as far as what is left is concerned.
LEMMA LeftStep ==
    ASSUME IInv, TurnsBounded, Next
    PROVE  /\ TurnsBounded'
           /\ \/ IssuesLeft' < IssuesLeft
              \/ IssuesLeft' = IssuesLeft /\ TurnsLeft' < TurnsLeft
              \/ IssuesLeft' = IssuesLeft /\ TurnsLeft' = TurnsLeft /\ CallsLeft' < CallsLeft
<1> DEFINE n == Len(pack) - Len(results)
<1>1. /\ Len(pack) \in Nat /\ Len(results) \in Nat /\ Len(results) <= Len(pack)
      /\ results \in Seq(BOOLEAN) /\ pack' = pack
  BY PackType DEF IInv, TypeOK, Next, Prepare, RequestFails, FinalAnswer, OutOfTurns, ToolAnswer, Call,
                  EndTurn, Close
<1>2. pc \in {"ask", "call", "close"} => Len(results) < Len(pack)
  BY DEF IInv, IssueAtHand
<1>3. CASE Prepare
  <2>1. pc = "prepare" /\ pc' \in {"scored", "ask"} /\ results' = results
    BY <1>3 DEF Prepare
  <2>2. pc' = "ask" => turn' = 0 /\ Len(results) < Len(pack)
    BY <1>1, <1>3 DEF Prepare
  <2>3. TurnsBounded'
    <3>1. SUFFICES ASSUME pc' = "ask" PROVE turn' <= Issue'.maxTurns
      BY <2>1 DEF TurnsBounded
    <3>2. Issue' = Issue /\ Issue.maxTurns \in Nat
      BY <1>1, <2>1, <2>2, <3>1, IssueType DEF IInv, Issue
    <3> QED
      BY <2>2, <3>1, <3>2
  <2>4. IssuesLeft' < IssuesLeft
    BY <1>1, <2>1 DEF IssuesLeft
  <2> QED
    BY <2>3, <2>4
<1>4. CASE RequestFails \/ FinalAnswer \/ OutOfTurns
  <2>1. pc = "ask" /\ pc' \in {"close", "raised"} /\ results' = results
    BY <1>4 DEF RequestFails, FinalAnswer, OutOfTurns, Asking, Judge
  <2>2. IssuesLeft' < IssuesLeft
    BY <1>1, <2>1 DEF IssuesLeft
  <2> QED
    BY <2>1, <2>2 DEF TurnsBounded
<1>5. CASE ToolAnswer
  <2>1. /\ pc = "ask" /\ pc' = "call" /\ results' = results /\ Issue' = Issue
        /\ turn < Issue.maxTurns /\ turn' = turn + 1
    BY <1>1, <1>5 DEF ToolAnswer, Asking, Issue
  <2>2. Issue.maxTurns \in Nat /\ turn \in Nat
    BY <1>2, <2>1, IssueType DEF IInv, TypeOK
  <2>3. IssuesLeft' = IssuesLeft
    BY <1>1, <2>1 DEF IssuesLeft
  <2>4. TurnsLeft' < TurnsLeft /\ TurnsBounded'
    BY <2>1, <2>2 DEF TurnsLeft, TurnsBounded
  <2> QED
    BY <2>3, <2>4
<1>6. CASE \E c \in Calls : Call(c)
  <2>1. /\ pc = "call" /\ pc' \in {"call", "raised"} /\ results' = results /\ turn' = turn /\ Issue' = Issue
        /\ made < MaxCalls /\ made' = made + 1
    BY <1>1, <1>6 DEF Call, Issue
  <2>2. CASE pc' = "raised"
    <3>1. IssuesLeft' < IssuesLeft
      BY <1>1, <2>1, <2>2 DEF IssuesLeft
    <3> QED
      BY <2>2, <3>1 DEF TurnsBounded
  <2>3. CASE pc' = "call"
    <3>1. IssuesLeft' = IssuesLeft /\ TurnsLeft' = TurnsLeft
      BY <1>1, <2>1, <2>3 DEF IssuesLeft, TurnsLeft
    <3>2. CallsLeft' < CallsLeft
      BY <2>1, <2>3, CodingAssumption DEF IInv, TypeOK, CallsLeft
    <3>3. TurnsBounded'
      BY <2>1 DEF TurnsBounded
    <3> QED
      BY <3>1, <3>2, <3>3
  <2> QED
    BY <2>1, <2>2, <2>3
<1>7. CASE EndTurn
  <2>1. /\ pc = "call" /\ pc' \in {"ask", "close"} /\ results' = results /\ turn' = turn /\ Issue' = Issue
    BY <1>1, <1>7 DEF EndTurn, Issue
  <2>2. CASE pc' = "close"
    <3>1. IssuesLeft' < IssuesLeft
      BY <1>1, <2>1, <2>2 DEF IssuesLeft
    <3> QED
      BY <2>2, <3>1 DEF TurnsBounded
  <2>3. CASE pc' = "ask"
    <3>1. IssuesLeft' = IssuesLeft /\ TurnsLeft' = TurnsLeft
      BY <1>1, <2>1, <2>3 DEF IssuesLeft, TurnsLeft
    <3>2. CallsLeft' < CallsLeft
      BY <2>1, <2>3, CodingAssumption DEF IInv, TypeOK, CallsLeft
    <3>3. TurnsBounded'
      BY <2>1 DEF TurnsBounded
    <3> QED
      BY <3>1, <3>2, <3>3
  <2> QED
    BY <2>1, <2>2, <2>3
<1>8. CASE Close
  <2>1. pc = "close" /\ pc' = "prepare" /\ results' = Append(results, Passed) /\ Passed \in BOOLEAN
    BY <1>8 DEF Close, Passed, IInv, TypeOK
  <2>2. Len(results') = Len(results) + 1
    BY <1>1, <2>1
  <2>3. IssuesLeft' < IssuesLeft
    BY <1>1, <1>2, <2>1, <2>2 DEF IssuesLeft
  <2> QED
    BY <2>1, <2>3 DEF TurnsBounded
<1> QED
  BY <1>3, <1>4, <1>5, <1>6, <1>7, <1>8 DEF Next

LEMMA TurnsInvariant == Spec => []TurnsBounded
<1>1. Init => TurnsBounded
  BY DEF Init, TurnsBounded
<1>2. IInv /\ TurnsBounded /\ [Next]_vars => TurnsBounded'
  <2>1. UNCHANGED vars /\ TurnsBounded => TurnsBounded'
    BY DEF vars, session, TurnsBounded, Issue
  <2> QED
    BY <2>1, LeftStep
<1> QED
  BY <1>1, <1>2, InductiveInvariant, PTL DEF Spec

\* However a model answers, an evaluation cannot go on for ever: every step lowers what is left of
\* it in an order in which nothing can be lowered without end (run_agentic_coding_eval, whose turns
\* are bounded by max_turns and count also when they call tools).
THEOREM StepsRunOut ==
    /\ IsWellFoundedOn(Lower, [1..3 -> Nat])
    /\ Spec => [](Left \in [1..3 -> Nat])
    /\ Spec => [][(<<Left', Left>> \in Lower)]_vars
<1>1. IsWellFoundedOn(Lower, [1..3 -> Nat])
  BY NatLessThanWellFounded, WFLexProductOrdering DEF Lower
<1> DEFINE Typed == IssuesLeft \in Nat /\ TurnsLeft \in Nat /\ CallsLeft \in Nat
<1>2. IInv /\ TurnsBounded => Typed
  BY LeftType
<1>3. Typed => Left \in [1..3 -> Nat]
  BY DEF Left
<1>4. IInv /\ TurnsBounded /\ Typed /\ Typed' /\ [Next]_vars => [(<<Left', Left>> \in Lower)]_vars
  BY LeftStep, LowerWhen DEF Left
<1> QED
  BY <1>1, <1>2, <1>3, <1>4, InductiveInvariant, TurnsInvariant, PTL DEF Spec
=============================================================================
