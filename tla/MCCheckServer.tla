---------------------------- MODULE MCCheckServer ----------------------------
EXTENDS CheckServer, TLC

Config(mode, onError) == [mode |-> mode, onError |-> onError, excluded |-> {}]
BlockOnly == {Config("block", "block")}

\* The warm-up is deferred.
Deferring == [permits |-> 0, blockOnWarmup |-> FALSE, langs |-> {"csharp"}, configs |-> BlockOnly]
\* No warm-up, and a repository moves between block and advisory.
Advising == [permits |-> 0, blockOnWarmup |-> FALSE, langs |-> {"go"},
             configs |-> BlockOnly \cup {Config("advisory", "advisory")}]
\* The warm-up runs inside the request, and a repository may be switched off.
Blocking == [permits |-> 0, blockOnWarmup |-> TRUE, langs |-> {"go", "csharp"},
             configs |-> {Config("block", "pass"), Config("off", "block")}]
\* One check of a repository at a time, refused instead of queued; a config may exclude
\* every file.
Capped == [permits |-> 1, blockOnWarmup |-> FALSE, langs |-> {"go"},
           configs |-> BlockOnly \cup {[mode |-> "block", onError |-> "block", excluded |-> Files]}]
AllDeployments == [deferring |-> Deferring, advising |-> Advising,
                   blocking |-> Blocking, capped |-> Capped]
WarmupOnly == [deferring |-> Deferring]

CheckSymmetry == Permutations(Requests) \cup Permutations(Files)
=============================================================================
