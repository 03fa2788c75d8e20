--------------------------- MODULE MCHistoryWriter ---------------------------
(***************************************************************************)
(* HistoryWriter with two events and a control; the budget holds both events  *)
(* or one and the control, and the queue holds one.                          *)
(***************************************************************************)
EXTENDS HistoryWriter

CONSTANTS v1, v2, s

ConnKinds == [c \in Conns |-> IF c = s THEN {"identify", "shutdown"} ELSE {"validation"}]
Sizes == [c \in Conns |-> IF c = s THEN 1 ELSE 2]
=============================================================================
