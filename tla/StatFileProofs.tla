--------------------------- MODULE StatFileProofs ---------------------------
(***************************************************************************)
(* Proofs about StatFile for any number of tests of any kinds.             *)
(***************************************************************************)
EXTENDS StatFile, NatFacts

SomeFailure == \E s \in Slots : fail_count[s] > 0

\* Wherever a count above 0 is on its way to the light, some test has failed.
Traced ==
  /\ total_failed > 0 => SomeFailure
  /\ file.total > 0 => SomeFailure
  /\ \A s \in Slots : seen[s] > 0 => SomeFailure
  /\ light = "on" => SomeFailure

LInv == TypeOK /\ Traced

LEMMA NoFailures == Zeros \in Counts
BY BoundAssumption DEF Zeros, Counts

LEMMA NoFailureAtFirst == Init => LInv
<1> SUFFICES ASSUME Init PROVE LInv
  OBVIOUS
<1>1. Zeros \in Counts /\ Zeros \in [Slots -> {-1, 0, 1}]
  BY BoundAssumption DEF Zeros, Counts
<1>2. TypeOK
  <2>1. seen \in [Slots -> {Unread, NoTotal} \cup Nat]
    BY DEF Init
  <2>2. writer \in 0..(Count + 1) /\ total_failed \in Nat
    BY CountAssumption DEF Init
  <2>3. file \in [state : {"absent", "complete", "truncated"}, shown : Counts, total : {NoTotal} \cup Nat]
    BY <1>1 DEF Init
  <2> QED
    BY <1>1, <2>1, <2>2, <2>3 DEF Init, TypeOK
<1>3. Traced
  BY DEF Init, Traced, Unread, NoTotal
<1> QED
  BY <1>2, <1>3 DEF LInv

LEMMA JudgeType ==
  ASSUME TypeOK, NEW s \in Slots, NEW failed \in BOOLEAN, Judge(s, failed)
  PROVE  /\ running' \in [Slots -> {-1, 0, 1}]
         /\ fail_count' \in Counts
         /\ \A r \in Slots : fail_count'[r] >= fail_count[r]
BY BoundAssumption DEF TypeOK, Judge, Counts

LEMMA TypeStep == TypeOK /\ [Next]_vars => TypeOK'
<1> SUFFICES ASSUME TypeOK, [Next]_vars PROVE TypeOK'
  OBVIOUS
<1> USE DEF TypeOK
<1>1. CASE OpenTmp
  BY <1>1, CountAssumption, BoundAssumption DEF OpenTmp, ResetTotal, tests, failid, Zeros, Counts
<1>2. CASE PrintFailures
  BY <1>2 DEF PrintFailures, tests, failid, Counts
<1>3. CASE Add
  <2>1. fail_count[writer] \in Nat
    <3>1. writer \in Slots /\ fail_count[writer] \in 0..MaxFail
      BY <1>3 DEF Add, Counts
    <3> QED
      BY <3>1, BoundAssumption
  <2>2. writer + 1 \in 0..(Count + 1)
    BY <1>3, CountAssumption DEF Add, Slots
  <2>3. total_failed' \in Nat
    BY <1>3, <2>1 DEF Add, Failures
  <2>4. UNCHANGED <<faults, running, fail_count, FOUND_ERROR, errors, seen, light, shown, file, told>>
    BY <1>3 DEF Add, tests, failid
  <2> QED
    BY <1>3, <2>2, <2>3, <2>4 DEF Add
<1>4. CASE Rename
  BY <1>4, CountAssumption, NoFailures DEF Rename, Publish, tests, failid
<1>5. ASSUME NEW s \in Slots, Start(s) PROVE TypeOK'
  BY <1>5 DEF Start, dump, Unread
<1>6. ASSUME NEW s \in Slots, FindError(s) \/ QuitCheck(s) \/ NoBmc(s) PROVE TypeOK'
  BY <1>6 DEF FindError, QuitCheck, NoBmc, failid, dump
<1>7. ASSUME NEW s \in Slots, EndCheck(s) PROVE TypeOK'
  <2>1. running' \in [Slots -> {-1, 0, 1}] /\ fail_count' \in Counts
    BY <1>7, JudgeType DEF EndCheck, Failed
  <2> QED
    BY <1>7, <2>1 DEF EndCheck, failid, dump
<1>8. ASSUME NEW s \in Slots, ReadStats(s) PROVE TypeOK'
  BY <1>8 DEF ReadStats, tests, dump, NoTotal
<1>9. ASSUME NEW s \in Slots, BadStats(s) PROVE TypeOK'
  <2>1. running' \in [Slots -> {-1, 0, 1}] /\ fail_count' \in Counts
    BY <1>9, JudgeType DEF BadStats
  <2> QED
    BY <1>9, <2>1 DEF BadStats, failid, dump
<1>10. ASSUME NEW s \in Slots, TurnOn(s) PROVE TypeOK'
  BY <1>10 DEF TurnOn, dump
<1>11. ASSUME NEW s \in Slots, Blink(s) PROVE TypeOK'
  <2>1. running' \in [Slots -> {-1, 0, 1}] /\ fail_count' \in Counts
    BY <1>11, JudgeType DEF Blink
  <2> QED
    BY <1>11, <2>1 DEF Blink, dump
<1>12. CASE UNCHANGED vars
  BY <1>12 DEF vars, tests, failid, dump
<1> QED
  BY <1>1, <1>2, <1>3, <1>4, <1>5, <1>6, <1>7, <1>8, <1>9, <1>10, <1>11, <1>12 DEF Next, Dump

\* No step takes a failure back.
LEMMA FailuresGrow == TypeOK /\ [Next]_vars => \A r \in Slots : fail_count'[r] >= fail_count[r]
<1> SUFFICES ASSUME TypeOK, [Next]_vars
             PROVE  \A r \in Slots : fail_count'[r] >= fail_count[r]
  OBVIOUS
<1>1. CASE UNCHANGED fail_count
  BY <1>1, BoundAssumption DEF TypeOK, Counts
<1>2. ASSUME NEW s \in Slots, EndCheck(s) PROVE \A r \in Slots : fail_count'[r] >= fail_count[r]
  BY <1>2, JudgeType DEF EndCheck, Failed, TypeOK
<1>3. ASSUME NEW s \in Slots, BadStats(s) \/ Blink(s)
      PROVE  \A r \in Slots : fail_count'[r] >= fail_count[r]
  BY <1>3, JudgeType DEF BadStats, Blink
<1> QED
  BY <1>1, <1>2, <1>3
     DEF Next, Dump, OpenTmp, PrintFailures, Add, Rename, Start, FindError, QuitCheck, ReadStats, TurnOn, NoBmc,
         tests, failid, dump, vars

LEMMA FailuresStay == TypeOK /\ TypeOK' /\ [Next]_vars => (SomeFailure => SomeFailure')
BY FailuresGrow, BoundAssumption DEF SomeFailure, TypeOK, Counts

LEMMA TracedStep == LInv /\ [Next]_vars => Traced'
<1> SUFFICES ASSUME LInv, [Next]_vars PROVE Traced'
  OBVIOUS
<1>0. SomeFailure => SomeFailure'
  BY FailuresStay, TypeStep DEF LInv
<1> USE DEF LInv
<1>1. CASE Add
  <2>1. total_failed' > 0 => SomeFailure
    BY <1>1 DEF Add, Failures, SomeFailure, Traced, TypeOK, Counts
  <2> QED
    BY <1>0, <1>1, <2>1 DEF Add, failid, Traced
<1>2. CASE OpenTmp \/ PrintFailures \/ Rename
  BY <1>0, <1>2 DEF OpenTmp, ResetTotal, PrintFailures, Rename, Publish, NoTotal, failid, Traced
<1>3. ASSUME NEW s \in Slots, Start(s) PROVE Traced'
  BY <1>0, <1>3 DEF Start, dump, Unread, Traced, TypeOK
<1>4. ASSUME NEW s \in Slots, FindError(s) \/ EndCheck(s) \/ QuitCheck(s) \/ BadStats(s) \/ NoBmc(s)
      PROVE  Traced'
  BY <1>0, <1>4 DEF FindError, EndCheck, QuitCheck, BadStats, NoBmc, failid, dump, Traced
<1>5. ASSUME NEW s \in Slots, ReadStats(s) PROVE Traced'
  BY <1>0, <1>5 DEF ReadStats, dump, Traced, TypeOK
<1>6. ASSUME NEW s \in Slots, TurnOn(s) \/ Blink(s) PROVE Traced'
  BY <1>0, <1>6 DEF TurnOn, Alarming, Blink, dump, Traced
<1>7. CASE UNCHANGED vars
  BY <1>0, <1>7 DEF vars, failid, dump, Traced
<1> QED
  BY <1>1, <1>2, <1>3, <1>4, <1>5, <1>6, <1>7 DEF Next, Dump

\* The counters, the file and failid's variables keep their types, whatever fails.
THEOREM TypeCorrect == Spec => []TypeOK
<1>1. Init => TypeOK
  BY NoFailureAtFirst DEF LInv
<1> QED
  BY <1>1, TypeStep, PTL DEF Spec

LEMMA NextLInv == LInv /\ [Next]_vars => LInv'
BY TypeStep, TracedStep DEF LInv

\* The light on the chassis is never turned on for a machine whose tests have
\* all passed, however main and dump_stats interleave and whatever becomes of
\* the file.
THEOREM LightMeansFailureAlways == Spec => []LightMeansFailure
<1>1. LInv => LightMeansFailure
  BY DEF LInv, Traced, SomeFailure, LightMeansFailure
<1> QED
  BY NoFailureAtFirst, NextLInv, <1>1, PTL DEF Spec

-----------------------------------------------------------------------------
\* The recursion that defines SumTo has a solution, as far as m and as far as Count.
Sums(f, m, sum) ==
  /\ sum \in [0..m -> Nat] /\ sum[0] = 0
  /\ \A n \in 1..m : sum[n] = sum[n - 1] + f[n]

LEMMA SumExists ==
  ASSUME NEW f \in [Slots -> Nat]
  PROVE  \E sum \in [0..Count -> Nat] :
           sum = [n \in 0..Count |-> IF n = 0 THEN 0 ELSE sum[n - 1] + f[n]]
<1> USE CountAssumption DEF Slots
<1> DEFINE T == {m \in Nat : m <= Count => \E sum : Sums(f, m, sum)}
<1>1. 0 \in T
  <2>1. Sums(f, 0, [n \in 0..0 |-> 0])
    BY DEF Sums
  <2> QED
    BY <2>1
<1>2. ASSUME NEW m \in T PROVE m + 1 \in T
  <2> SUFFICES ASSUME m + 1 <= Count PROVE \E sum : Sums(f, m + 1, sum)
    OBVIOUS
  <2>0. m \in Nat /\ m <= Count
    OBVIOUS
  <2>1. PICK sum : Sums(f, m, sum)
    BY <2>0
  <2> DEFINE longer == [n \in 0..(m + 1) |-> IF n = m + 1 THEN sum[m] + f[m + 1] ELSE sum[n]]
  <2>2. f[m + 1] \in Nat /\ sum[m] \in Nat
    BY <2>0, <2>1 DEF Sums
  <2>3. longer \in [0..(m + 1) -> Nat] /\ longer[0] = 0
    BY <2>0, <2>1, <2>2 DEF Sums
  <2>4. ASSUME NEW n \in 1..(m + 1) PROVE longer[n] = longer[n - 1] + f[n]
    <3>1. CASE n = m + 1
      BY <2>0, <3>1
    <3>2. CASE n # m + 1
      <4>1. n \in 1..m /\ n - 1 \in 0..m /\ n \in 0..(m + 1) /\ n - 1 \in 0..(m + 1) /\ n - 1 # m + 1
        BY <2>0, <3>2
      <4> QED
        BY <2>1, <3>2, <4>1 DEF Sums
    <3> QED
      BY <3>1, <3>2
  <2> QED
    BY <2>3, <2>4 DEF Sums
<1>3. T = Nat
  <2> HIDE DEF T
  <2>1. T \in SUBSET Nat
    BY DEF T
  <2> QED
    BY <1>1, <1>2, <2>1, SetInduction
<1>4. PICK sum : Sums(f, Count, sum)
  <2>1. Count \in T
    BY <1>3
  <2>2. Count <= Count
    OBVIOUS
  <2> QED
    BY <2>1, <2>2
<1>5. \A n \in 0..Count : sum[n] = IF n = 0 THEN 0 ELSE sum[n - 1] + f[n]
  BY <1>4 DEF Sums
<1> QED
  BY <1>4, <1>5 DEF Sums

LEMMA SumSteps ==
  ASSUME NEW f \in [Slots -> Nat]
  PROVE  /\ SumTo(f)[0] = 0
         /\ \A n \in Slots : SumTo(f)[n] = SumTo(f)[n - 1] + f[n]
         /\ SumTo(f) \in [0..Count -> Nat]
<1>1. SumTo(f) = [n \in 0..Count |-> IF n = 0 THEN 0 ELSE SumTo(f)[n - 1] + f[n]]
  BY SumExists DEF SumTo
<1>2. \A n \in 0..Count : SumTo(f)[n] = IF n = 0 THEN 0 ELSE SumTo(f)[n - 1] + f[n]
  BY <1>1
<1>3. SumTo(f)[0] = 0 /\ \A n \in Slots : SumTo(f)[n] = SumTo(f)[n - 1] + f[n]
  BY <1>2, CountAssumption DEF Slots
<1> DEFINE T == {m \in Nat : m <= Count => SumTo(f)[m] \in Nat}
<1>4. 0 \in T
  BY <1>3
<1>5. ASSUME NEW m \in T, m + 1 <= Count PROVE SumTo(f)[m + 1] \in Nat
  <2>1. m \in Nat /\ SumTo(f)[m] \in Nat /\ m + 1 \in Slots /\ (m + 1) - 1 = m
    BY <1>5, CountAssumption DEF Slots
  <2>2. SumTo(f)[m + 1] = SumTo(f)[m] + f[m + 1]
    BY <1>3, <2>1
  <2>3. f[m + 1] \in Nat
    BY <2>1
  <2> QED
    BY <2>1, <2>2, <2>3
<1>6. \A m \in T : m + 1 \in T
  BY <1>5
<1>7. T = Nat
  <2> HIDE DEF T
  <2>1. T \in SUBSET Nat
    BY DEF T
  <2> QED
    BY <1>4, <1>6, <2>1, SetInduction
<1>8. \A n \in 0..Count : SumTo(f)[n] \in Nat
  <2> TAKE n \in 0..Count
  <2>1. n \in T /\ n <= Count
    BY <1>7, CountAssumption
  <2> QED
    BY <2>1
<1> QED
  BY <1>1, <1>3, <1>8

\* Counts that are no greater have no greater sums, as far as they go.
LEMMA SumsGrow ==
  ASSUME NEW f \in [Slots -> Nat], NEW g \in [Slots -> Nat], NEW n \in 0..Count,
         \A s \in 1..n : f[s] <= g[s]
  PROVE  SumTo(f)[n] <= SumTo(g)[n]
<1> USE CountAssumption
<1> DEFINE T == {m \in Nat : m <= n => SumTo(f)[m] <= SumTo(g)[m]}
<1>1. 0 \in T
  BY SumSteps
<1>2. ASSUME NEW m \in T, m + 1 <= n PROVE SumTo(f)[m + 1] <= SumTo(g)[m + 1]
  <2>1. m \in Nat /\ SumTo(f)[m] <= SumTo(g)[m] /\ m + 1 \in Slots /\ (m + 1) - 1 = m
        /\ m \in 0..Count /\ m + 1 \in 1..n
    BY <1>2 DEF Slots
  <2>2. SumTo(f)[m + 1] = SumTo(f)[m] + f[m + 1] /\ SumTo(g)[m + 1] = SumTo(g)[m] + g[m + 1]
    BY <2>1, SumSteps
  <2>3. f[m + 1] \in Nat /\ g[m + 1] \in Nat /\ f[m + 1] <= g[m + 1]
    BY <2>1
  <2>4. SumTo(f)[m] \in Nat /\ SumTo(g)[m] \in Nat
    BY <2>1, SumSteps
  <2> QED
    BY <2>1, <2>2, <2>3, <2>4
<1>3. \A m \in T : m + 1 \in T
  BY <1>2
<1>4. T = Nat
  <2> HIDE DEF T
  <2>1. T \in SUBSET Nat
    BY DEF T
  <2> QED
    BY <1>1, <1>3, <2>1, SetInduction
<1>5. n \in Nat /\ n <= n
  OBVIOUS
<1> QED
  BY <1>4, <1>5

\* There are counts c, as they were when they were added to the last total told,
\* and counts d, as they were when this dump added them, and none of them has
\* been greater than it is now; what is printed was read no later than it was
\* added, and this dump has read everything later than the last one.
SummedFrom(c, d) ==
  /\ c \in Counts /\ d \in Counts
  /\ told = Sum(c)
  /\ \A s \in Slots : c[s] <= fail_count[s]
  /\ file.state = "complete" => file.total = told /\ \A s \in Slots : file.shown[s] <= c[s]
  /\ writer > 0 =>
       /\ total_failed = SumTo(d)[writer - 1]
       /\ \A s \in 1..(writer - 1) : shown[s] <= d[s] /\ c[s] <= d[s] /\ d[s] <= fail_count[s]
  /\ printed = TRUE => writer \in Slots /\ shown[writer] <= fail_count[writer]

Summed == \E c, d : SummedFrom(c, d)

LEMMA CountsAreNat == \A c \in Counts : c \in [Slots -> Nat]
BY BoundAssumption DEF Counts

LEMMA SumOfZeros == Zeros \in Counts /\ Sum(Zeros) = 0
<1> USE CountAssumption
<1>1. Zeros \in Counts /\ \A s \in Slots : Zeros[s] = 0
  BY BoundAssumption DEF Zeros, Counts
<1> DEFINE T == {m \in Nat : m <= Count => SumTo(Zeros)[m] = 0}
<1>2. 0 \in T
  BY <1>1, SumSteps, CountsAreNat
<1>3. ASSUME NEW m \in T, m + 1 <= Count PROVE SumTo(Zeros)[m + 1] = 0
  <2>1. m \in Nat /\ SumTo(Zeros)[m] = 0 /\ m + 1 \in Slots /\ (m + 1) - 1 = m
    BY <1>3 DEF Slots
  <2> QED
    BY <1>1, <2>1, SumSteps, CountsAreNat
<1>4. \A m \in T : m + 1 \in T
  BY <1>3
<1>5. T = Nat
  <2> HIDE DEF T
  <2>1. T \in SUBSET Nat
    BY DEF T
  <2> QED
    BY <1>2, <1>4, <2>1, SetInduction
<1>6. Count \in T /\ Count <= Count
  BY <1>5
<1> QED
  BY <1>1, <1>6 DEF Sum

LEMMA InitSummed == Init => Summed
<1> SUFFICES ASSUME Init PROVE SummedFrom(Zeros, Zeros)
  BY DEF Summed
<1>1. \A s \in Slots : Zeros[s] = 0
  BY DEF Zeros
<1>2. ~ (printed = TRUE) /\ writer = 0
  BY DEF Init
<1> QED
  BY <1>1, <1>2, SumOfZeros DEF Init, SummedFrom

\* main counts further, or nothing happens to the counts and to the file.
LEMMA MainSummed ==
  ASSUME LInv, Summed, UNCHANGED dump,
         fail_count' \in Counts, \A s \in Slots : fail_count[s] <= fail_count'[s]
  PROVE  Summed'
<1>1. PICK c, d : SummedFrom(c, d)
  BY DEF Summed
<1>2. UNCHANGED <<writer, printed, shown, total_failed, file, told>>
  BY DEF dump
<1>3. \A s \in Slots : /\ fail_count[s] \in Nat /\ fail_count'[s] \in Nat
                       /\ c[s] \in Nat /\ d[s] \in Nat /\ shown[s] \in Nat
  BY <1>1, CountsAreNat DEF SummedFrom, LInv, TypeOK
<1>4. \A s \in Slots : c[s] <= fail_count'[s]
  BY <1>1, <1>3 DEF SummedFrom
<1>5. writer > 0 => \A s \in 1..(writer - 1) : s \in Slots /\ d[s] <= fail_count'[s]
  <2> SUFFICES ASSUME writer > 0, NEW s \in 1..(writer - 1) PROVE s \in Slots /\ d[s] <= fail_count'[s]
    OBVIOUS
  <2>1. s \in Slots
    BY CountAssumption DEF Slots, LInv, TypeOK
  <2> QED
    BY <1>1, <1>3, <2>1 DEF SummedFrom
<1>6. printed = TRUE => writer \in Slots /\ shown[writer] <= fail_count'[writer]
  BY <1>1, <1>3 DEF SummedFrom
<1>7. SummedFrom(c, d)'
  BY <1>1, <1>2, <1>4, <1>5, <1>6 DEF SummedFrom
<1> QED
  BY <1>7 DEF Summed

LEMMA OpenSummed == LInv /\ Summed /\ OpenTmp => Summed'
<1> SUFFICES ASSUME LInv, Summed, OpenTmp PROVE Summed'
  OBVIOUS
<1>1. PICK c, d : SummedFrom(c, d)
  BY DEF Summed
<1>2. /\ writer = 0 /\ writer' = 1 /\ total_failed' = 0
      /\ UNCHANGED <<fail_count, printed, file, told>>
  BY DEF OpenTmp, ResetTotal, tests
<1>3. ~ (printed = TRUE)
  BY <1>1, <1>2, CountAssumption DEF SummedFrom, Slots
<1>4. SumTo(Zeros)[0] = 0 /\ Zeros \in Counts
  BY SumSteps, SumOfZeros, CountsAreNat
<1>5. SummedFrom(c, Zeros)'
  BY <1>1, <1>2, <1>3, <1>4 DEF SummedFrom
<1> QED
  BY <1>5 DEF Summed

LEMMA PrintSummed == LInv /\ Summed /\ PrintFailures => Summed'
<1> SUFFICES ASSUME LInv, Summed, PrintFailures PROVE Summed'
  OBVIOUS
<1>1. PICK c, d : SummedFrom(c, d)
  BY DEF Summed
<1>2. /\ writer \in Slots
      /\ shown' = [shown EXCEPT ![writer] = fail_count[writer]]
      /\ UNCHANGED <<fail_count, writer, total_failed, file, told>>
  BY DEF PrintFailures, tests
<1>3. shown'[writer] = fail_count[writer] /\ fail_count[writer] \in Nat
  BY <1>2, CountsAreNat DEF LInv, TypeOK, Counts
<1>4. \A s \in 1..(writer - 1) : shown'[s] = shown[s]
  BY <1>2, CountAssumption DEF LInv, TypeOK, Counts, Slots
<1>5. SummedFrom(c, d)'
  BY <1>1, <1>2, <1>3, <1>4 DEF SummedFrom
<1> QED
  BY <1>5 DEF Summed

LEMMA AddSummed == LInv /\ Summed /\ Add => Summed'
<1> SUFFICES ASSUME LInv, Summed, Add PROVE Summed'
  OBVIOUS
<1>1. PICK c, d : SummedFrom(c, d)
  BY DEF Summed
<1>2. /\ writer \in Slots /\ writer' = writer + 1
      /\ total_failed' = total_failed + fail_count[writer]
      /\ UNCHANGED <<fail_count, shown, file, told>>
  BY DEF Add, Failures, tests
<1>3. ~ (printed' = TRUE) /\ shown[writer] <= fail_count[writer]
  BY <1>1 DEF Add, SummedFrom
<1>0. PICK e : e = [d EXCEPT ![writer] = fail_count[writer]]
  OBVIOUS
<1>4. fail_count \in Counts /\ d \in Counts /\ c \in Counts
  BY <1>1 DEF SummedFrom, LInv, TypeOK
<1>5. e \in Counts /\ e[writer] = fail_count[writer] /\ \A s \in Slots : s # writer => e[s] = d[s]
  BY <1>0, <1>2, <1>4 DEF Counts
<1>6. writer \in Nat \ {0} /\ writer - 1 \in 0..Count
  BY <1>2, CountAssumption DEF Slots
<1>7. \A s \in 1..(writer - 1) : s \in Slots /\ s # writer
  BY <1>2, CountAssumption DEF Slots
<1>8. SumTo(e)[writer] = total_failed'
  <2>1. SumTo(e)[writer - 1] = SumTo(d)[writer - 1]
    <3>1. \A s \in 1..(writer - 1) : e[s] = d[s] /\ d[s] \in Nat
      BY <1>4, <1>5, <1>7, CountsAreNat
    <3>2. SumTo(e)[writer - 1] <= SumTo(d)[writer - 1] /\ SumTo(d)[writer - 1] <= SumTo(e)[writer - 1]
      <4>1. PICK n \in 0..Count : n = writer - 1
        BY <1>6
      <4>2. \A s \in 1..n : e[s] <= d[s] /\ d[s] <= e[s]
        BY <3>1, <4>1
      <4>3. e \in [Slots -> Nat] /\ d \in [Slots -> Nat]
        BY <1>4, <1>5, CountsAreNat
      <4>4. SumTo(e)[n] <= SumTo(d)[n] /\ SumTo(d)[n] <= SumTo(e)[n]
        BY <4>2, <4>3, SumsGrow
      <4> QED
        BY <4>1, <4>4
    <3>3. SumTo(e)[writer - 1] \in Nat /\ SumTo(d)[writer - 1] \in Nat
      BY <1>4, <1>5, <1>6, SumSteps, CountsAreNat
    <3> QED
      BY <3>2, <3>3
  <2>2. SumTo(e)[writer] = SumTo(e)[writer - 1] + e[writer]
    BY <1>2, <1>5, SumSteps, CountsAreNat
  <2>3. total_failed = SumTo(d)[writer - 1]
    BY <1>1, <1>6 DEF SummedFrom
  <2> QED
    BY <1>2, <1>5, <2>1, <2>2, <2>3
<1>9. ASSUME NEW s \in 1..writer PROVE shown[s] <= e[s] /\ c[s] <= e[s] /\ e[s] <= fail_count[s]
  <2>1. CASE s = writer
    BY <1>1, <1>2, <1>3, <1>4, <1>5, <2>1, CountsAreNat DEF SummedFrom
  <2>2. CASE s # writer
    <3>1. s \in 1..(writer - 1)
      BY <1>6, <2>2
    <3> QED
      BY <1>1, <1>5, <1>6, <1>7, <3>1 DEF SummedFrom
  <2> QED
    BY <2>1, <2>2
<1>10. writer' > 0 /\ writer' - 1 = writer
  BY <1>2, <1>6
<1>11. /\ total_failed' = SumTo(e)[writer' - 1]
       /\ \A s \in 1..(writer' - 1) : shown'[s] <= e[s] /\ c[s] <= e[s] /\ e[s] <= fail_count'[s]
  BY <1>2, <1>8, <1>9, <1>10
<1>12. file' = file /\ told' = told /\ fail_count' = fail_count
  BY <1>2
<1>13. SummedFrom(c, e)'
  BY <1>1, <1>3, <1>5, <1>11, <1>12 DEF SummedFrom
<1> QED
  BY <1>13 DEF Summed

\* All counts are added: the file gets their sum, which is no less than the last
\* total told, or it is truncated and has none.
LEMMA RenameSummed ==
  LInv /\ Summed /\ Rename => Summed' /\ (file'.state = "complete" => file'.total >= told)
<1> SUFFICES ASSUME LInv, Summed, Rename
             PROVE  Summed' /\ (file'.state = "complete" => file'.total >= told)
  OBVIOUS
<1>1. PICK c, d : SummedFrom(c, d)
  BY DEF Summed
<1>2. \/ file' = [state |-> "complete", shown |-> shown, total |-> total_failed] /\ told' = total_failed
      \/ file' = [state |-> "truncated", shown |-> Zeros, total |-> NoTotal] /\ told' = told
  BY DEF Rename, Publish
<1>3. writer = Count + 1 /\ writer' = 0 /\ UNCHANGED <<fail_count, printed, shown, total_failed>>
  BY DEF Rename, tests
<1>4. writer > 0 /\ writer - 1 = Count /\ writer \notin Slots /\ 1..Count = Slots
  BY <1>3, CountAssumption DEF Slots
<1>5. ~ (printed = TRUE)
  BY <1>1, <1>4 DEF SummedFrom
<1>6. total_failed = Sum(d) /\ \A s \in Slots : shown[s] <= d[s] /\ c[s] <= d[s] /\ d[s] <= fail_count[s]
  BY <1>1, <1>4 DEF SummedFrom, Sum
<1>7. ~ (writer' > 0)
  BY <1>3
<1>8. CASE file'.state = "complete"
  <2>1. file'.total = Sum(d) /\ file'.shown = shown /\ told' = Sum(d)
    BY <1>2, <1>6, <1>8
  <2>2. SummedFrom(d, d)'
    BY <1>1, <1>3, <1>5, <1>6, <1>7, <2>1 DEF SummedFrom
  <2>3. c \in Counts /\ d \in Counts /\ Count \in 0..Count
    BY <1>1, CountAssumption DEF SummedFrom
  <2>4. Sum(c) <= Sum(d)
    BY <1>4, <1>6, <2>3, SumsGrow, CountsAreNat DEF Sum
  <2>5. told = Sum(c) /\ Sum(c) \in Nat /\ Sum(d) \in Nat
    BY <1>1, <2>3, SumSteps, CountsAreNat DEF SummedFrom, Sum
  <2> QED
    BY <2>1, <2>2, <2>4, <2>5 DEF Summed
<1>9. CASE file'.state # "complete"
  <2>1. told' = told
    BY <1>2, <1>9
  <2>2. SummedFrom(c, d)'
    BY <1>1, <1>3, <1>5, <1>7, <1>9, <2>1 DEF SummedFrom
  <2> QED
    BY <1>9, <2>2 DEF Summed
<1> QED
  BY <1>8, <1>9

LEMMA NextSummed ==
  LInv /\ Summed /\ [Next]_vars => Summed' /\ (file'.state = "complete" => file'.total >= told)
<1> SUFFICES ASSUME LInv, Summed, [Next]_vars
             PROVE  Summed' /\ (file'.state = "complete" => file'.total >= told)
  OBVIOUS
<1>0. UNCHANGED <<file, told>> => (file'.state = "complete" => file'.total >= told)
  BY DEF Summed, SummedFrom, LInv, TypeOK
<1>1. CASE OpenTmp \/ PrintFailures \/ Add
  <2>1. Summed'
    BY <1>1, OpenSummed, PrintSummed, AddSummed
  <2> QED
    BY <1>0, <1>1, <2>1 DEF OpenTmp, PrintFailures, Add
<1>2. CASE Rename
  BY <1>2, RenameSummed
<1>3. CASE UNCHANGED dump
  <2>1. fail_count' \in Counts /\ \A s \in Slots : fail_count'[s] >= fail_count[s]
    <3>1. fail_count' \in Counts
      BY TypeStep DEF LInv, TypeOK
    <3>2. \A s \in Slots : fail_count'[s] >= fail_count[s]
      BY <1>3, FailuresGrow DEF LInv
    <3> QED
      BY <3>1, <3>2
  <2>2. \A s \in Slots : fail_count[s] <= fail_count'[s]
    BY <2>1, CountsAreNat DEF LInv, TypeOK
  <2>3. Summed'
    BY <1>3, <2>1, <2>2, MainSummed
  <2> QED
    BY <1>0, <1>3, <2>3 DEF dump
<1>4. [Next]_vars => OpenTmp \/ PrintFailures \/ Add \/ Rename \/ UNCHANGED dump
  BY DEF Next, Dump, Start, FindError, EndCheck, QuitCheck, BadStats, ReadStats, TurnOn, Blink, NoBmc, vars
<1> QED
  BY <1>1, <1>2, <1>3, <1>4

\* A complete breakin.dat never shows more failures than its total, and its total
\* is never more than main has counted, though main counts while dump_stats
\* reads each counter twice.
THEOREM TotalCoversShownAlways == Spec => []TotalCoversShown
<1>1. LInv /\ Summed => TotalCoversShown
  <2> SUFFICES ASSUME LInv, Summed, file.state = "complete"
               PROVE  Sum(file.shown) <= file.total /\ file.total <= Sum(fail_count)
    BY DEF TotalCoversShown
  <2>1. PICK c, d : SummedFrom(c, d)
    BY DEF Summed
  <2>2. /\ c \in [Slots -> Nat] /\ file.shown \in [Slots -> Nat] /\ fail_count \in [Slots -> Nat]
        /\ Count \in 0..Count /\ 1..Count = Slots
    <3>1. c \in Counts /\ file.shown \in Counts /\ fail_count \in Counts
      BY <2>1 DEF SummedFrom, LInv, TypeOK
    <3>2. Count \in 0..Count /\ 1..Count = Slots
      BY CountAssumption DEF Slots
    <3> QED
      BY <3>1, <3>2, CountsAreNat
  <2>3. \A s \in 1..Count : file.shown[s] <= c[s] /\ c[s] <= fail_count[s]
    BY <2>1, <2>2 DEF SummedFrom
  <2>4. PICK b : b = file.shown
    OBVIOUS
  <2>5. Sum(b) <= Sum(c) /\ Sum(c) <= Sum(fail_count)
    BY <2>2, <2>3, <2>4, SumsGrow DEF Sum
  <2> QED
    BY <2>1, <2>4, <2>5 DEF SummedFrom
<1> QED
  BY NoFailureAtFirst, NextLInv, InitSummed, NextSummed, <1>1, PTL DEF Spec

\* Whatever truncated files come between, no breakin.dat with a total says less
\* than the one with a total before it (dump_stats, rename).
THEOREM TotalsNeverDropAlways == Spec => TotalsNeverDrop
<1>1. LInv /\ Summed /\ [Next]_vars => [file'.state = "complete" => file'.total >= told]_vars
  BY NextSummed
<1> QED
  BY NoFailureAtFirst, NextLInv, InitSummed, NextSummed, <1>1, PTL DEF Spec, TotalsNeverDrop
=============================================================================
