------------------------------ MODULE TestBench ------------------------------
(***************************************************************************)
(* What breakin promises of its burn-in tests, without processes, pipes or *)
(* wait calls: a test is run again and again, each run ends in one of four *)
(* ways, and the way a run ended decides what is recorded of that test and *)
(* of no other.  BurninLoop is shown to implement this.                    *)
(***************************************************************************)
EXTENDS Naturals

CONSTANTS
  Tests,     \* the tests on the bench
  MaxCount   \* bound: a counter stops there

VARIABLES
  phase,     \* where each test is
  last,      \* the last result shown for it: 0 good, 1 bad
  passes,    \* runs counted as passed
  fails      \* runs counted as failed

benchVars == <<phase, last, passes, fails>>

Endings == {"exit_0", "exit_other", "exit_255", "signal"}

More(n) == IF n < MaxCount THEN n + 1 ELSE n

BenchInit ==
  /\ phase = [t \in Tests |-> "idle"]
  /\ last = [t \in Tests |-> 0]
  /\ passes = [t \in Tests |-> 0]
  /\ fails = [t \in Tests |-> 0]

Begin(t) ==
  /\ phase[t] = "idle"
  /\ phase' = [phase EXCEPT ![t] = "busy"]
  /\ UNCHANGED <<last, passes, fails>>

\* The run ends by itself, in a way the bench does not choose.
Finish(t) ==
  /\ phase[t] = "busy"
  /\ \E e \in Endings : phase' = [phase EXCEPT ![t] = e]
  /\ UNCHANGED <<last, passes, fails>>

\* A good run: 0 lets the test go on, 255 retires it.
JudgePass(t) ==
  /\ phase[t] \in {"exit_0", "exit_255"}
  /\ phase' = [phase EXCEPT ![t] = IF @ = "exit_0" THEN "idle" ELSE "disabled"]
  /\ last' = [last EXCEPT ![t] = 0]
  /\ passes' = [passes EXCEPT ![t] = More(@)]
  /\ UNCHANGED fails

JudgeFail(t) ==
  /\ phase[t] = "exit_other"
  /\ phase' = [phase EXCEPT ![t] = "idle"]
  /\ last' = [last EXCEPT ![t] = 1]
  /\ fails' = [fails EXCEPT ![t] = More(@)]
  /\ UNCHANGED passes

\* A killed run retires the test without a verdict.
JudgeKilled(t) ==
  /\ phase[t] = "signal"
  /\ phase' = [phase EXCEPT ![t] = "disabled"]
  /\ UNCHANGED <<last, passes, fails>>

Judge(t) == JudgePass(t) \/ JudgeFail(t) \/ JudgeKilled(t)

BenchNext == \E t \in Tests : Begin(t) \/ Finish(t) \/ Judge(t)

BenchSafety == BenchInit /\ [][BenchNext]_benchVars

\* No test is left out of the rotation and every run is judged.
BenchFairness ==
  \A t \in Tests : WF_benchVars(Begin(t)) /\ WF_benchVars(Finish(t)) /\ WF_benchVars(Judge(t))

BenchSpec == BenchSafety /\ BenchFairness
==============================================================================
