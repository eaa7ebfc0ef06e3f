-------------------------- MODULE MCStaticAnalysis --------------------------
(* Two files on three functions, each with MaxCalls calls at most, and      *)
(* files with a name that cannot be parsed.                                 *)
EXTENDS StaticAnalysis, TLC

CONSTANTS a, b, main, open, send, bad, plain, callback, net, fs,
          MaxCalls

MCTypeOf == [f \in Function |-> IF f \in {open, send} THEN callback ELSE plain]

MCFunctionCaps == [f \in Function |-> CASE f = open -> {fs} [] f = send -> {net} [] OTHER -> {}]

MCFunctions == Function \ Malformed

MCModule ==
    [defined : {{}}, declared : {Malformed}, calls : {{}}] \cup
    UNION {[defined : {defined}, declared : SUBSET (MCFunctions \ defined),
            calls : {calls \in SUBSET (defined \X (MCFunctions \cup Type \cup {InlineAssembly, Numbered})) :
                       Cardinality(calls) <= MaxCalls}]
             : defined \in SUBSET MCFunctions}

Files == Permutations(File)
=============================================================================
