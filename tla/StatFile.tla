------------------------------ MODULE StatFile ------------------------------
(***************************************************************************)
(* How a failure gets from a test to the light on the chassis.  main       *)
(* counts the failures, the update thread writes the counts to             *)
(* breakin.dat.tmp and renames it to breakin.dat (dump_stats), and the     *)
(* test failid reads breakin.dat and turns the identify light on or lets   *)
(* it blink.  main and the update thread share burnin_scripts without a    *)
(* lock.                                                                   *)
(*                                                                         *)
(* A run of a test, from its fork to the judgement of its exit status, is  *)
(* one start and one end here: BurninLoop has the detail.  Of the file     *)
(* only the failure counts matter.                                         *)
(***************************************************************************)
EXTENDS Integers

CONSTANTS
  Count,     \* burnin_script_count
  Kind,      \* what each test is: failid, or a script that looks for errors
             \* and exits with FOUND_ERROR ("exits") or forgets to ("forgets")
  MaxFail    \* bound: fail_count stops there

Slots == 1..Count
Kinds == {"failid", "exits", "forgets"}

\* The file system of breakin.dat may be full; ipmitool may fail.
Faults == {"nospace", "nobmc"}

ASSUME CountAssumption == Count \in Nat \ {0}
ASSUME KindAssumption == Kind \in [Slots -> Kinds]
ASSUME BoundAssumption == MaxFail \in Nat \ {0}

VARIABLES
  faults,       \* what may fail on this machine
  running,      \* 0 idle, 1 running, -1 disabled
  fail_count,
  FOUND_ERROR,  \* of the script's present run
  errors,       \* tests that have printed an error line in some run
  seen,         \* what failid read: the total, NoTotal, or Unread
  light,        \* "off", "blink" or "on"
  writer,       \* dump_stats: the index i, 0 outside
  printed,      \* the count of test i is printed, and not yet added
  shown,        \* BURNIN_i_FAIL_QTY in breakin.dat.tmp
  total_failed,
  file,         \* breakin.dat: "absent", "complete" or "truncated", and its counts
  told          \* history: the total of the last breakin.dat that was complete

tests == <<running, fail_count, FOUND_ERROR, errors>>
failid == <<seen, light>>
dump == <<writer, printed, shown, total_failed, file, told>>
vars == <<faults, tests, failid, dump>>

NoTotal == -1
Unread == -2
Zeros == [s \in Slots |-> 0]

Init ==
  /\ faults \in SUBSET Faults
  /\ running = Zeros
  /\ fail_count = Zeros
  /\ FOUND_ERROR = [s \in Slots |-> FALSE]
  /\ errors = {}
  /\ seen = [s \in Slots |-> Unread]
  /\ light = "off"
  /\ writer = 0
  /\ printed = FALSE
  /\ shown = Zeros
  /\ total_failed = 0
  /\ file = [state |-> "absent", shown |-> Zeros, total |-> NoTotal]
  /\ told = 0

-----------------------------------------------------------------------------
(***************************************************************************)
(* The loop in main and the scripts it runs                                *)
(***************************************************************************)

Start(s) ==
  /\ running[s] = 0
  /\ running' = [running EXCEPT ![s] = 1]
  /\ FOUND_ERROR' = [FOUND_ERROR EXCEPT ![s] = FALSE]
  /\ seen' = [seen EXCEPT ![s] = Unread]
  /\ UNCHANGED <<faults, fail_count, errors, light, dump>>

Checks(s) == Kind[s] # "failid" /\ running[s] = 1

\* hpl, ecc, mcelog, badblocks or hdhealth meets an error and prints it.
FindError(s) ==
  /\ Checks(s) /\ ~FOUND_ERROR[s]
  /\ FOUND_ERROR' = [FOUND_ERROR EXCEPT ![s] = TRUE]
  /\ errors' = errors \cup {s}
  /\ UNCHANGED <<faults, running, fail_count, failid, dump>>

\* The script ends; badblocks and hdhealth have no "exit" at their end, and
\* the if before it leaves 0.
Failed(s) == FOUND_ERROR[s] /\ Kind[s] = "exits"

Judge(s, failed) ==
  /\ running' = [running EXCEPT ![s] = 0]
  /\ fail_count' = IF failed /\ fail_count[s] < MaxFail
                   THEN [fail_count EXCEPT ![s] = @ + 1] ELSE fail_count

EndCheck(s) ==
  /\ Checks(s)
  /\ Judge(s, Failed(s))
  /\ UNCHANGED <<faults, FOUND_ERROR, errors, failid, dump>>

\* exit 255: there is nothing to check on this machine.
QuitCheck(s) ==
  /\ Checks(s) /\ ~FOUND_ERROR[s]
  /\ running' = [running EXCEPT ![s] = -1]
  /\ UNCHANGED <<faults, fail_count, FOUND_ERROR, errors, failid, dump>>

\* The scripts (mcelog excepted) begin with ". /var/run/breakin.dat".  A file
\* that ends inside a quoted value is a syntax error: the shell exits with 2, a
\* failure of the test.
BadStats(s) ==
  /\ running[s] = 1 /\ seen[s] = Unread /\ ~FOUND_ERROR[s]
  /\ file.state = "truncated"
  /\ Judge(s, TRUE)
  /\ UNCHANGED <<faults, FOUND_ERROR, errors, failid, dump>>

-----------------------------------------------------------------------------
(***************************************************************************)
(* failid                                                                  *)
(***************************************************************************)

Asks(s) == Kind[s] = "failid" /\ running[s] = 1

\* The shell reads breakin.dat, if there is one.  The renamed file is never
\* written again, so the read is one step.
ReadStats(s) ==
  /\ Asks(s) /\ seen[s] = Unread
  /\ seen' = [seen EXCEPT ![s] = file.total]
  /\ UNCHANGED <<faults, tests, light, dump>>

\* Mutant: -ge for -gt.
AlarmingOrZero(n) == n >= 0

\* [ ${BURNIN_TOTAL_FAIL_QTY} -gt 0 ], which an empty value does not satisfy.
Alarming(n) == n > 0

\* ipmitool chassis identify force, exit 255 whether it worked or not
TurnOn(s) ==
  /\ Asks(s) /\ seen[s] # Unread /\ Alarming(seen[s])
  /\ light' = "on" \/ ("nobmc" \in faults /\ light' = light)
  /\ running' = [running EXCEPT ![s] = -1]
  /\ UNCHANGED <<faults, fail_count, FOUND_ERROR, errors, seen, dump>>

\* ipmitool chassis identify 1, exit 0
Blink(s) ==
  /\ Asks(s) /\ seen[s] # Unread /\ ~Alarming(seen[s])
  /\ light' = "blink"
  /\ Judge(s, FALSE)
  /\ UNCHANGED <<faults, FOUND_ERROR, errors, seen, dump>>

\* "No IPMI on this system.", exit 255
NoBmc(s) ==
  /\ Asks(s) /\ seen[s] # Unread /\ ~Alarming(seen[s]) /\ "nobmc" \in faults
  /\ running' = [running EXCEPT ![s] = -1]
  /\ UNCHANGED <<faults, fail_count, FOUND_ERROR, errors, failid, dump>>

-----------------------------------------------------------------------------
(***************************************************************************)
(* dump_stats in the update thread                                         *)
(***************************************************************************)

\* Mutant: total_failed is not initialised.
GarbageTotal == total_failed' \in {-1, 0, 1}

ResetTotal == total_failed' = 0

\* fopen(STAT_FILE_TMP, "w+"); nothing changes when it fails.
OpenTmp ==
  /\ writer = 0
  /\ writer' = 1
  /\ shown' = Zeros
  /\ ResetTotal
  /\ UNCHANGED <<faults, tests, failid, printed, file, told>>

\* fail_count is read once to be printed ...
PrintFailures ==
  /\ writer \in Slots /\ ~printed
  /\ shown' = [shown EXCEPT ![writer] = fail_count[writer]]
  /\ printed' = TRUE
  /\ UNCHANGED <<faults, tests, failid, writer, total_failed, file, told>>

\* Mutant: the failures of a disabled test are forgotten.
EnabledFailures(s) == IF running[s] = -1 THEN 0 ELSE fail_count[s]

\* Mutant: failed tests are counted instead of failures.
FailedTests(s) == IF fail_count[s] > 0 THEN 1 ELSE 0

\* ... and once more to be added.
Failures(s) == fail_count[s]

Add ==
  /\ writer \in Slots /\ printed
  /\ total_failed' = total_failed + Failures(writer)
  /\ printed' = FALSE
  /\ writer' = writer + 1
  /\ UNCHANGED <<faults, tests, failid, shown, file, told>>

\* Mutant: the old file stays when there is one.
PublishOnce(state) ==
  IF file.state = "absent"
  THEN file' = [state |-> state, shown |-> shown, total |-> total_failed] /\ told' = total_failed
  ELSE UNCHANGED <<file, told>>

\* fclose and rename, neither of which is told that a write has failed.  The
\* total is the last line, which a truncated file does not have.
Publish(state) ==
  IF state = "complete"
  THEN file' = [state |-> state, shown |-> shown, total |-> total_failed] /\ told' = total_failed
  ELSE file' = [state |-> state, shown |-> Zeros, total |-> NoTotal] /\ UNCHANGED told

Rename ==
  /\ writer = Count + 1
  /\ \E state \in {"complete"} \cup (IF "nospace" \in faults THEN {"truncated"} ELSE {}) :
       Publish(state)
  /\ writer' = 0
  /\ UNCHANGED <<faults, tests, failid, printed, shown, total_failed>>

Dump == OpenTmp \/ PrintFailures \/ Add \/ Rename

Next ==
  \/ Dump
  \/ \E s \in Slots : \/ Start(s) \/ FindError(s) \/ EndCheck(s) \/ QuitCheck(s)
                      \/ BadStats(s) \/ ReadStats(s) \/ TurnOn(s) \/ Blink(s) \/ NoBmc(s)

\* The update thread and the loop in main are scheduled and every run of a
\* test ends; nobody promises an error.
Fairness ==
  /\ WF_vars(Dump)
  /\ \A s \in Slots :
       /\ WF_vars(Start(s))
       /\ WF_vars(EndCheck(s) \/ QuitCheck(s))
       /\ WF_vars(ReadStats(s) \/ TurnOn(s) \/ Blink(s) \/ NoBmc(s))

Spec == Init /\ [][Next]_vars

FairSpec == Spec /\ Fairness

-----------------------------------------------------------------------------
Counts == [Slots -> 0..MaxFail]

\* The sum of the first n counts, as dump_stats adds them up, and of all.
SumTo(f) == LET sum[n \in 0..Count] == IF n = 0 THEN 0 ELSE sum[n - 1] + f[n] IN sum
Sum(f) == SumTo(f)[Count]

TypeOK ==
  /\ faults \subseteq Faults
  /\ running \in [Slots -> {-1, 0, 1}]
  /\ fail_count \in Counts
  /\ FOUND_ERROR \in [Slots -> BOOLEAN]
  /\ errors \subseteq Slots
  /\ seen \in [Slots -> {Unread, NoTotal} \cup Nat]
  /\ light \in {"off", "blink", "on"}
  /\ writer \in 0..(Count + 1)
  /\ printed \in BOOLEAN
  /\ shown \in Counts
  /\ total_failed \in Nat
  /\ file \in [state : {"absent", "complete", "truncated"}, shown : Counts, total : {NoTotal} \cup Nat]
  /\ told \in Nat

\* The file never shows more failures than its total says, and its total never
\* says more than main has counted, although main counts while dump_stats
\* reads every counter twice.
TotalCoversShown ==
  file.state = "complete" => Sum(file.shown) <= file.total /\ file.total <= Sum(fail_count)

\* A breakin.dat that has a total says no less than the last one that had, whatever
\* truncated files without a total came between; those make failid blink again.
TotalsNeverDrop == [][file'.state = "complete" => file'.total >= told]_vars

\* The light is turned on only when some test has failed.
LightMeansFailure == light = "on" => \E s \in Slots : fail_count[s] > 0

\* "Other tests have errors, turning on ID light": an error that a test has
\* found ends in the light that stays on where ipmitool and the file system
\* work; the light blinks only "if everything is fine".
ErrorsLight == faults = {} /\ errors # {} ~> [](light = "on")
=============================================================================
