---------------------------- MODULE MCAgenticCoding ----------------------------
\* Two issues, one of them on documents only; calls of every kind the detector tells apart.
EXTENDS AgenticCoding

MCPacks ==
    {<<[allow |-> {"code"}, docsOnly |-> FALSE, maxTurns |-> 5],
       [allow |-> {"code"}, docsOnly |-> TRUE, maxTurns |-> 1]>>,
     <<[allow |-> {}, docsOnly |-> FALSE, maxTurns |-> 2]>>,
     <<>>}

ACall(tool, path, old, new) == [tool |-> tool, path |-> path, old |-> old, new |-> new, fresh |-> FALSE]
MCCalls ==
    {ACall("write_file", "code", "given", "draft"),
     ACall("write_file", "code", "given", "hangs"),
     ACall("str_replace", "code", "draft", "fixed"),
     ACall("str_replace", "code", "fixed", "draft"),
     ACall("str_replace", "other", "given", "draft"),
     ACall("str_replace", "_hidden_tests", "given", "draft"),
     [ACall("inspect", ".", "given", "given") EXCEPT !.fresh = TRUE],
     ACall("inspect", "outside", "given", "given"),
     ACall("run_tests", ".", "given", "given"),
     ACall("shell", ".", "given", "given")}
=============================================================================
