---------------------------- MODULE MCBurninLoop ----------------------------
(***************************************************************************)
(* Small instances of BurninLoop for TLC: process ids and dump threads are *)
(* model values, interchangeable in the runs without liveness.             *)
(***************************************************************************)
EXTENDS BurninLoop, TLC

CONSTANTS p1, p2, p3, t1, t2

NoFault == {}
ExecFault == {"exec"}
AllFaults == {"fork", "exec", "pipe", "fdopen"}

\* What the next steps depend on: without the verdicts and leaked, which no
\* guard reads, and without the pid of a test that is not waited for.
Steering ==
  <<running, fp, pc, cur, dump, copy, children, pipe,
    [s \in Slots |-> IF running[s] = 1 /\ fp[s] # "null" THEN pid[s] ELSE 0]>>

AnyPid == Permutations(Pids)
=============================================================================
