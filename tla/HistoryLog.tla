----------------------------- MODULE HistoryLog -----------------------------
(***************************************************************************)
(* What the validation history promises of one writer's life (ADR-0011 and  *)
(* the package comment of internal/historyservice): an event is stored or    *)
(* lost for good, what is lost is never stored later, and nothing is stored  *)
(* after the writer has given up its endpoint.                             *)
(***************************************************************************)
CONSTANT Events

VARIABLES log, lost, open

vars == <<log, lost, open>>

Init == log = {} /\ lost = {} /\ open = TRUE

Settled == log \cup lost

Store(e) ==
    /\ open /\ e \in Events \ Settled
    /\ log' = log \cup {e}
    /\ UNCHANGED <<lost, open>>

\* One event, or several when the writer stops.
Lose(es) ==
    /\ es \subseteq Events \ Settled
    /\ lost' = lost \cup es
    /\ UNCHANGED <<log, open>>

\* The writer ends, or is killed with what it had not stored.
Close ==
    /\ open /\ open' = FALSE
    /\ \E es \in SUBSET (Events \ Settled) : lost' = lost \cup es
    /\ UNCHANGED log

Next == Close \/ (\E e \in Events : Store(e)) \/ (\E es \in SUBSET Events : Lose(es))

Spec == Init /\ [][Next]_vars
=============================================================================
