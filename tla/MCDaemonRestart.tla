--------------------------- MODULE MCDaemonRestart ---------------------------
EXTENDS DaemonRestart, TLC
CONSTANTS a, b, v

\* All clients are of one build, and nothing fails.
Calm == [run |-> Clients, build |-> [c \in Clients |-> "new"],
         timely |-> TRUE, maxFaults |-> 0]
\* Two clients of two builds, waits may end early, and one thing fails: two onboards,
\* and an onboard next to a validate.
Faulty(clients) == [run |-> clients, build |-> [c \in Clients |-> IF c = a THEN "new" ELSE "other"],
                    timely |-> FALSE, maxFaults |-> 1]
Machines == [calm |-> Calm, restarts |-> Faulty({a, b}), starts |-> Faulty({a, v})]
=============================================================================
