-------------------------- MODULE MCCertPublication --------------------------
(***************************************************************************)
(* CertPublication with three transaction ids, the least number with which  *)
(* a predecessor, an older version and a new candidate exist together, and   *)
(* with two managed files, so that a set of them can be partial.            *)
(***************************************************************************)
EXTENDS CertPublication
=============================================================================
