---------------------------- MODULE MCConfigStore ----------------------------
(***************************************************************************)
(* ConfigStore with two requests, two onboards and one repository, which    *)
(* alice, bob and the local caller want with different configs.             *)
(***************************************************************************)
EXTENDS ConfigStore, TLC

CONSTANTS p1, p2, o1, o2, repo, x, y, alice, bob, root

Job(c, caller) == [repo |-> repo, config |-> c, caller |-> caller]
Remote == {Job(x, alice), Job(y, bob)}
Admin == {<<root, Admins>>}

\* The two onboards are interchangeable, so o1 leaves bob's job to o2.
Of(active, jobs, maxEdits, maxFaults) ==
    [active |-> active, jobs |-> [p \in Procs |-> IF p = o1 THEN jobs \ {Job(y, bob)} ELSE jobs],
     maxEdits |-> maxEdits, maxFaults |-> maxFaults]

Requests == [requests |-> Of({p1, p2}, Remote \cup {Job(y, Local)}, 0, 1)]
Outside == [outside |-> Of({o1, o2}, Remote, 0, 1)]
Operator == [operator |-> Of({o1}, {Job(x, alice), Job(x, Local)}, 2, 1)]
Separate == Requests @@ Outside @@ Operator
Short == Requests @@ [operator |-> Of({o1}, {Job(x, alice)}, 1, 1)]
Mixed == [mixed |-> Of({p1, o1}, Remote, 0, 0)]
=============================================================================
