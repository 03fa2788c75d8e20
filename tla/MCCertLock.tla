----------------------------- MODULE MCCertLock -----------------------------
EXTENDS CertLock, TLC

ProcSymmetry == Permutations(Procs)
=============================================================================
