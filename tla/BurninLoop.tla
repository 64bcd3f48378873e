----------------------------- MODULE BurninLoop -----------------------------
(***************************************************************************)
(* The burn-in loop of breakin.c: run_burnin_tests forks every test that   *)
(* is not running, the loop in main reads what the tests print and waits   *)
(* for them, and each press of F3 starts a thread (dump_log) that forks    *)
(* dumplog.sh and waits for it in the same process.  fork_cmd is common to *)
(* both.  A test's child whose execve fails stays in this program: it goes *)
(* on with the loop as a copy of main, from a copy of main's variables.    *)
(* The kernel's part (children, exit statuses, waitpid) is as small as the *)
(* code's use of it needs.                                                 *)
(*                                                                         *)
(* The text of the output is abstracted to a count of unread lines, and an *)
(* exit status to the four classes the loop distinguishes.                 *)
(***************************************************************************)
EXTENDS Integers, FiniteSets

CONSTANTS
  Count,        \* burnin_script_count
  Pids,         \* the process ids the kernel hands out; a reaped one is free again
  DumpThreads,  \* the threads F3 may start
  PipeLines,    \* bound: unread lines in a pipe
  MaxCount,     \* bound: pass_count and fail_count stop there
  Copies,       \* bound: copies of the loop at one time
  Faults        \* the calls of fork_cmd that may fail

ASSUME CountAssumption == Count \in Nat \ {0}
ASSUME PidsAssumption == -1 \notin Pids /\ 0 \notin Pids
ASSUME BoundsAssumption == PipeLines \in Nat /\ MaxCount \in Nat /\ Copies \in Nat
ASSUME FaultsAssumption == Faults \subseteq {"fork", "exec", "pipe", "fdopen"}

VARIABLES
  \* burnin_scripts[s]
  running,      \* 0 idle, 1 running, -1 disabled
  pid,          \* what fork returned for the latest run
  fp,           \* fp_stdout: "null", "open" or "closed" (a dangling pointer)
  last_result,  \* 0 good, 1 bad
  pass_count,
  fail_count,
  \* main
  pc,           \* "launch" (run_burnin_tests), "drain" (fgets) or "wait" (waitpid)
  cur,          \* the loop index i
  \* dump_log threads
  dump,         \* the pid a thread waits for, 0 when there is no such thread
  \* the copies
  copy,         \* for a "clone": its view of the tests, its index, its half of the loop
  \* the kernel
  owner,        \* what a child was forked for: a test, or 0 for dumplog.sh
  parent,       \* 0 breakin itself, the pid of a copy, or -1 when that copy is gone
  status,       \* "free", "alive", "clone" (exec failed) or how the child exited
  pipe,         \* unread lines of a test's pipe
  leaked        \* 1 when there is a descriptor that no pointer reaches any more

scripts == <<running, pid, fp, last_result, pass_count, fail_count>>
children == <<owner, parent, status>>
kernel == <<children, pipe, leaked>>
vars == <<scripts, pc, cur, dump, copy, kernel>>

Slots == 1..Count
Exits == {"exit_0", "exit_other", "exit_255", "signal"}
More(n) == IF n < MaxCount THEN n + 1 ELSE n

\* The children of breakin itself, the only ones its waitpid calls know.
Child(p) == status[p] # "free" /\ parent[p] = 0
ChildOf(s, p) == Child(p) /\ owner[p] = s

\* What a copy knows of a test is the part of burnin_scripts[s] that steers its
\* loop: "idle" or "off" (running 0 or -1), "unheard" (running without a
\* stream: never waited for), or the pid it waits for, "any" for 0 and -1.
Known == {"idle", "off", "unheard", "any"} \cup Pids
CopyStates == [test : [Slots -> Known], at : Slots, half : {"launch", "drain"}]
NoCopy == [test |-> [s \in Slots |-> "idle"], at |-> 1, half |-> "launch"]

Init ==
  /\ running = [s \in Slots |-> 0]
  /\ pid = [s \in Slots |-> 0]
  /\ fp = [s \in Slots |-> "null"]
  /\ last_result = [s \in Slots |-> 0]
  /\ pass_count = [s \in Slots |-> 0]
  /\ fail_count = [s \in Slots |-> 0]
  /\ pc = "launch"
  /\ cur = 1
  /\ dump = [t \in DumpThreads |-> 0]
  /\ copy = [p \in Pids |-> NoCopy]
  /\ owner = [p \in Pids |-> 0]
  /\ parent = [p \in Pids |-> 0]
  /\ status = [p \in Pids |-> "free"]
  /\ pipe = [s \in Slots |-> 0]
  /\ leaked = 0

-----------------------------------------------------------------------------
(***************************************************************************)
(* fork_cmd                                                                *)
(***************************************************************************)

\* The stream fork_cmd returns: NULL early when the pipe could not be made
\* ("nopipe": returnpid is not written), NULL late when fdopen fails ("nofile").
Stream ==
  {"open"} \cup (IF "pipe" \in Faults THEN {"nopipe"} ELSE {})
           \cup (IF "fdopen" \in Faults THEN {"nofile"} ELSE {})

\* A child whose execve fails runs on in the parent's program: a test's child
\* in the burn-in loop, one of dump_log to the end of that thread, which is
\* its only one.
Started(o) ==
  {"alive"} \cup (IF /\ "exec" \in Faults /\ o # 0
                    /\ Cardinality({p \in Pids : status[p] = "clone"}) < Copies
                 THEN {"clone"} ELSE {})

\* by is 0 for breakin itself, or the copy that forks.
fork_cmd(by, o, ret) ==
  \/ /\ ret = -1 /\ "fork" \in Faults
     /\ UNCHANGED children
  \/ /\ ret \in Pids /\ status[ret] = "free"
     /\ owner' = [owner EXCEPT ![ret] = o]
     /\ parent' = [parent EXCEPT ![ret] = by]
     /\ \E st \in Started(o) : status' = [status EXCEPT ![ret] = st]

\* A child that is a clone begins in the state start; copies: the others.
CloneBegins(ret, start, copies) ==
  copy' = IF ret \in Pids /\ status'[ret] = "clone" THEN [copies EXCEPT ![ret] = start] ELSE copies

\* The children waitpid(w) may report: of -1 any child, and of 0 too, since
\* nothing leaves the process group.
WaitableBy(by, w) == {p \in Pids : status[p] # "free" /\ parent[p] = by /\ (w = p \/ w \notin Pids)}
Waitable(w) == WaitableBy(0, w)

\* waitpid(w) returns p and the child is gone.
Collect(p) ==
  /\ status[p] \in Exits
  /\ status' = [status EXCEPT ![p] = "free"]
  /\ owner' = [owner EXCEPT ![p] = 0]
  /\ parent' = [parent EXCEPT ![p] = 0]

\* WNOHANG, and no child asked for has exited.
NoneExited(waitable) == waitable # {} /\ \A p \in waitable : status[p] \notin Exits

-----------------------------------------------------------------------------
(***************************************************************************)
(* main: run_burnin_tests, then one pass over the tests                    *)
(***************************************************************************)

\* Mutant: one test too many.
AdvanceTooFar(half, other) ==
  IF cur < Count + 1 THEN cur' = cur + 1 /\ pc' = half
                     ELSE cur' = 1 /\ pc' = other

\* Mutant: the loop polls for ever and does not come back to run_burnin_tests.
AdvanceOnlyPolls(half, other) ==
  IF cur < Count THEN cur' = cur + 1 /\ pc' = half
                 ELSE cur' = 1 /\ pc' = IF half = "launch" THEN other ELSE half

\* The index moves on; after the last test the other half of the loop begins.
Advance(half, other) ==
  IF cur < Count THEN cur' = cur + 1 /\ pc' = half
                 ELSE cur' = 1 /\ pc' = other

\* Mutant: only disabled tests are left alone.
NotDisabled(s) == running[s] >= 0

Idle(s) == running[s] = 0

\* Mutant: a NULL stream is not stored.
StreamKept(s, stream) == IF stream = "open" THEN "open" ELSE fp[s]

StreamOf(s, stream) == IF stream = "open" THEN "open" ELSE "null"

\* burnin_scripts[s] as the child of a fork finds it.
Copied(s) ==
  CASE running[s] = 0 -> "idle"
    [] running[s] = -1 -> "off"
    [] running[s] = 1 -> IF fp[s] = "null" THEN "unheard"
                         ELSE IF pid[s] \in Pids THEN pid[s] ELSE "any"

\* What the clone itself returns from fork_cmd with: a stream of its own,
\* unless its fcntl or fdopen fails, and 0 for a pid.
ClonesOwn(stream) ==
  (IF stream # "nopipe" THEN {"any"} ELSE {})
    \cup (IF stream = "nopipe" \/ "fdopen" \in Faults THEN {"unheard"} ELSE {})

\* The state of a loop behind test i, in the same half or at the start of the other.
Behind(test, i, half, other) ==
  [test |-> test, at |-> IF i < Count THEN i + 1 ELSE 1, half |-> IF i < Count THEN half ELSE other]

Launch ==
  /\ pc = "launch" /\ Idle(cur)
  /\ \E ret \in Pids \cup {-1}, stream \in Stream :
       /\ fork_cmd(0, cur, ret)
       /\ \E own \in ClonesOwn(stream) :
            CloneBegins(ret, Behind([[s \in Slots |-> Copied(s)] EXCEPT ![cur] = own],
                                    cur, "launch", "drain"), copy)
       /\ pid' = IF stream = "nopipe" THEN pid ELSE [pid EXCEPT ![cur] = ret]
       /\ fp' = [fp EXCEPT ![cur] = StreamOf(cur, stream)]
       /\ leaked' = IF fp[cur] = "open" \/ stream = "nofile" THEN 1 ELSE leaked
  /\ running' = [running EXCEPT ![cur] = 1]
  /\ pipe' = [pipe EXCEPT ![cur] = 0]
  /\ Advance("launch", "drain")
  /\ UNCHANGED <<last_result, pass_count, fail_count, dump>>

SkipLaunch ==
  /\ pc = "launch" /\ ~Idle(cur)
  /\ Advance("launch", "drain")
  /\ UNCHANGED <<scripts, dump, copy, kernel>>

\* Not running, or nothing to read from: the loop goes to the next test, in
\* the second case without ever waiting for this one.
SkipPoll ==
  /\ pc = "drain" /\ (running[cur] # 1 \/ fp[cur] = "null")
  /\ Advance("drain", "launch")
  /\ UNCHANGED <<scripts, dump, copy, kernel>>

Polling == running[cur] = 1 /\ fp[cur] # "null"

ReadLine ==
  /\ pc = "drain" /\ Polling /\ pipe[cur] > 0
  /\ pipe' = [pipe EXCEPT ![cur] = @ - 1]
  /\ UNCHANGED <<scripts, pc, cur, dump, copy, children, leaked>>

\* fgets returns NULL: the pipe is empty at this moment.
Drained ==
  /\ pc = "drain" /\ Polling /\ pipe[cur] = 0
  /\ pc' = "wait"
  /\ UNCHANGED <<scripts, cur, dump, copy, kernel>>

WaitPending ==
  /\ pc = "wait" /\ NoneExited(Waitable(pid[cur]))
  /\ Advance("drain", "launch")
  /\ UNCHANGED <<scripts, dump, copy, kernel>>

\* waitpid returns -1: taken for a pass, and the stream is not closed.
WaitNoChild ==
  /\ pc = "wait" /\ Waitable(pid[cur]) = {}
  /\ running' = [running EXCEPT ![cur] = 0]
  /\ last_result' = [last_result EXCEPT ![cur] = 0]
  /\ pass_count' = [pass_count EXCEPT ![cur] = More(@)]
  /\ Advance("drain", "launch")
  /\ UNCHANGED <<pid, fp, fail_count, dump, copy, kernel>>

\* Mutant: 255 is one more way to pass.
RunningAgain(st) == IF st = "signal" THEN -1 ELSE 0

\* A killed run and one that exits with 255 disable the test.
RunningAfter(st) == IF st \in {"exit_255", "signal"} THEN -1 ELSE 0

\* Mutant: a pass does not take back the failure before it.
ResultSticks(st, r) == IF st = "exit_other" THEN 1 ELSE r

\* A killed run has no verdict: the result r before it remains.
ResultAfter(st, r) ==
  CASE st \in {"exit_0", "exit_255"} -> 0
    [] st = "exit_other" -> 1
    [] st = "signal" -> r

\* What the status of the child that waitpid returned does to the test.
Judge(st) ==
  /\ running' = [running EXCEPT ![cur] = RunningAfter(st)]
  /\ last_result' = [last_result EXCEPT ![cur] = ResultAfter(st, @)]
  /\ pass_count' = [pass_count EXCEPT ![cur] = IF st \in {"exit_0", "exit_255"} THEN More(@) ELSE @]
  /\ fail_count' = [fail_count EXCEPT ![cur] = IF st = "exit_other" THEN More(@) ELSE @]

\* Mutant: the stream is left open.
NoClose == UNCHANGED fp

\* fclose discards what is still unread.
CloseStream == fp' = [fp EXCEPT ![cur] = "closed"]

Reap(p) ==
  /\ pc = "wait" /\ p \in Waitable(pid[cur])
  /\ Collect(p)
  /\ CloseStream
  /\ Judge(status[p])
  /\ Advance("drain", "launch")
  /\ UNCHANGED <<pid, dump, copy, pipe, leaked>>

Main ==
  \/ Launch \/ SkipLaunch \/ SkipPoll \/ ReadLine \/ Drained
  \/ WaitPending \/ WaitNoChild \/ \E p \in Pids : Reap(p)

-----------------------------------------------------------------------------
(***************************************************************************)
(* dump_log, one thread for each press of F3                               *)
(***************************************************************************)

\* Without a stream the thread ends at once and nobody waits for the child.
PressF3(t) ==
  /\ dump[t] = 0
  /\ \E ret \in Pids \cup {-1}, stream \in Stream :
       /\ fork_cmd(0, 0, ret)
       /\ dump' = IF stream = "open" THEN [dump EXCEPT ![t] = ret] ELSE dump
       /\ leaked' = IF stream = "nofile" THEN 1 ELSE leaked
  /\ UNCHANGED <<scripts, pc, cur, copy, pipe>>

\* Mutant: the thread waits for any child.
DumpWaitAny(t) ==
  /\ dump[t] # 0
  /\ \/ /\ Waitable(-1) = {}
        /\ UNCHANGED children
     \/ \E p \in Waitable(-1) : Collect(p)
  /\ dump' = [dump EXCEPT ![t] = 0]
  /\ UNCHANGED <<scripts, pc, cur, copy, pipe, leaked>>

\* Mutant: a dumplog.sh that was killed is not taken for finished.
DumpWaitForExit(t) ==
  /\ dump[t] # 0
  /\ \E p \in Waitable(dump[t]) : status[p] # "signal" /\ Collect(p)
  /\ dump' = [dump EXCEPT ![t] = 0]
  /\ UNCHANGED <<scripts, pc, cur, copy, pipe, leaked>>

\* Any answer of waitpid but 0 ends the thread.
DumpWait(t) ==
  /\ dump[t] # 0
  /\ \/ /\ Waitable(dump[t]) = {}
        /\ UNCHANGED children
     \/ \E p \in Waitable(dump[t]) : Collect(p)
  /\ dump' = [dump EXCEPT ![t] = 0]
  /\ UNCHANGED <<scripts, pc, cur, copy, pipe, leaked>>

-----------------------------------------------------------------------------
(***************************************************************************)
(* The children                                                            *)
(***************************************************************************)

\* The children of breakin print, and a clone's messages go where they do; the
\* children of a copy have pipes of their own.
Write(p) ==
  /\ Child(p) /\ status[p] \in {"alive", "clone"}
  /\ owner[p] # 0 /\ fp[owner[p]] = "open" /\ pipe[owner[p]] < PipeLines
  /\ pipe' = [pipe EXCEPT ![owner[p]] = @ + 1]
  /\ UNCHANGED <<scripts, pc, cur, dump, copy, children, leaked>>

\* p ends with status st.  The children it leaves fall to init, which reaps them.
End(p, st) ==
  LET reaped(q) == IF q = p THEN parent[p] = -1 ELSE parent[q] = p /\ status[q] \in Exits
  IN  /\ status' = [q \in Pids |-> IF reaped(q) THEN "free" ELSE IF q = p THEN st ELSE status[q]]
      /\ owner' = [q \in Pids |-> IF reaped(q) THEN 0 ELSE owner[q]]
      /\ parent' = [q \in Pids |-> IF reaped(q) THEN 0 ELSE IF parent[q] = p THEN -1 ELSE parent[q]]
      /\ copy' = [copy EXCEPT ![p] = NoCopy]

\* A test ends in any way; a clone, which is in a loop without an end, is killed.
Exit(p) ==
  /\ \/ status[p] = "alive" /\ \E st \in Exits : End(p, st)
     \/ status[p] = "clone" /\ End(p, "signal")
  /\ UNCHANGED <<scripts, pc, cur, dump, pipe, leaked>>

-----------------------------------------------------------------------------
(***************************************************************************)
(* The copies: the same loop on the copied variables.  Their counters and  *)
(* messages are left out, since nothing reads them.                        *)
(***************************************************************************)

mainState == <<scripts, pc, cur, dump, pipe, leaked>>

CopyAt(c, half) == status[c] = "clone" /\ copy[c].half = half

CopyTest(c) == copy[c].test[copy[c].at]

\* The copy c leaves the test it is at in the state now.
CopyMoves(c, now) ==
  Behind([copy[c].test EXCEPT ![copy[c].at] = now], copy[c].at, copy[c].half,
         IF copy[c].half = "launch" THEN "drain" ELSE "launch")

CopyLaunch(c) ==
  /\ CopyAt(c, "launch") /\ CopyTest(c) = "idle"
  /\ \E ret \in Pids \cup {-1}, stream \in Stream :
       /\ fork_cmd(c, copy[c].at, ret)
       /\ \E own \in ClonesOwn(stream) :
            CloneBegins(ret, CopyMoves(c, own),
              [copy EXCEPT ![c] = CopyMoves(c, IF stream # "open" THEN "unheard"
                                               ELSE IF ret \in Pids THEN ret ELSE "any")])
  /\ UNCHANGED mainState

CopyWaits(c) == CopyAt(c, "drain") /\ CopyTest(c) \in Pids \cup {"any"}

\* Nothing to start, nothing to wait for, or no answer yet.
CopySkip(c) ==
  /\ \/ CopyAt(c, "launch") /\ CopyTest(c) # "idle"
     \/ CopyAt(c, "drain") /\ CopyTest(c) \in {"idle", "off", "unheard"}
     \/ CopyWaits(c) /\ NoneExited(WaitableBy(c, CopyTest(c)))
  /\ copy' = [copy EXCEPT ![c] = CopyMoves(c, CopyTest(c))]
  /\ UNCHANGED <<mainState, children>>

\* waitpid knows no such child, a child of breakin for instance: the copy takes
\* the test for passed and will start it.
CopyNoChild(c) ==
  /\ CopyWaits(c) /\ WaitableBy(c, CopyTest(c)) = {}
  /\ copy' = [copy EXCEPT ![c] = CopyMoves(c, "idle")]
  /\ UNCHANGED <<mainState, children>>

CopyReap(c, p) ==
  /\ CopyWaits(c) /\ p \in WaitableBy(c, CopyTest(c))
  /\ Collect(p)
  /\ copy' = [copy EXCEPT ![c] = CopyMoves(c, IF RunningAfter(status[p]) = -1 THEN "off" ELSE "idle")]
  /\ UNCHANGED mainState

Copy(c) == CopyLaunch(c) \/ CopySkip(c) \/ CopyNoChild(c) \/ \E p \in Pids : CopyReap(c, p)

Next ==
  \/ Main
  \/ \E t \in DumpThreads : PressF3(t) \/ DumpWait(t)
  \/ \E p \in Pids : Write(p) \/ Exit(p) \/ Copy(p)

Spec == Init /\ [][Next]_vars

\* main, the dump threads and the copies are scheduled, and a program that was
\* started ends one day; nobody promises that a clone is killed or F3 pressed.
Fairness ==
  /\ WF_vars(Main)
  /\ \A t \in DumpThreads : WF_vars(DumpWait(t))
  /\ \A p \in Pids : WF_vars(status[p] = "alive" /\ Exit(p)) /\ WF_vars(Copy(p))

FairSpec == Spec /\ Fairness

-----------------------------------------------------------------------------
TypeOK ==
  /\ running \in [Slots -> {-1, 0, 1}]
  /\ pid \in [Slots -> Pids \cup {-1, 0}]
  /\ fp \in [Slots -> {"null", "open", "closed"}]
  /\ last_result \in [Slots -> {0, 1}]
  /\ pass_count \in [Slots -> 0..MaxCount]
  /\ fail_count \in [Slots -> 0..MaxCount]
  /\ pc \in {"launch", "drain", "wait"}
  /\ cur \in Slots
  /\ dump \in [DumpThreads -> Pids \cup {-1, 0}]
  /\ owner \in [Pids -> 0..Count]
  /\ parent \in [Pids -> Pids \cup {-1, 0}]
  /\ status \in [Pids -> {"free", "alive", "clone"} \cup Exits]
  /\ pipe \in [Slots -> 0..PipeLines]
  /\ leaked \in {0, 1}
  /\ copy \in [Pids -> CopyStates]

\* A test's child that is not reaped keeps the test marked as running, and a
\* test has one child of breakin at most, whatever fails.  Only the copies that
\* a failing execve leaves start a test a second time: without that fault two
\* badblocks or hpl never compete for the same disks and memory, whoever
\* forked them.
OneInstance ==
  /\ \A p \in Pids : Child(p) /\ owner[p] # 0 => running[owner[p]] = 1
  /\ \A p, q \in Pids : ChildOf(owner[p], q) /\ Child(p) /\ owner[p] # 0 => p = q
  /\ "exec" \notin Faults =>
       \A p, q \in Pids : /\ status[p] # "free" /\ status[q] # "free"
                         /\ owner[p] = owner[q] /\ owner[p] # 0 => p = q

\* A test that the loop polls never has the stream that was closed when its
\* previous run was reaped: fgets and fclose never see a dangling fp_stdout.
NoUseAfterClose == \A s \in Slots : running[s] = 1 => fp[s] # "closed"

\* Who waits for a child finds it: no other waitpid of the process (the
\* loop's for another test, a dump_log thread's) has taken it away, although
\* pids are used again.  Fails only with a fork that failed.
OwnChild ==
  "fork" \notin Faults =>
    /\ \A s \in Slots : running[s] = 1 /\ fp[s] # "null" => pid[s] \in Pids /\ ChildOf(s, pid[s])
    /\ \A t \in DumpThreads : dump[t] # 0 => dump[t] \in Pids /\ ChildOf(0, dump[t])

\* As long as fork and fdopen succeed every descriptor fork_cmd opens is
\* closed before the test's next run replaces fp_stdout.
NoStreamLeak ==
  Faults \cap {"fork", "fdopen"} = {} =>
    /\ leaked = 0
    /\ \A s \in Slots : fp[s] = "open" => running[s] = 1

\* A test that asked not to be run again (255) or was killed is disabled by
\* the very step that collects its child, and stays disabled.
QuitStep ==
  /\ \A p \in Pids :
       Child(p) /\ status[p] \in {"exit_255", "signal"} /\ owner[p] # 0 /\ status'[p] = "free"
         => running'[owner[p]] = -1
  /\ \A s \in Slots : running[s] = -1 => running'[s] = -1
QuitMeansNever == [][QuitStep]_vars

\* "Execution failed on '%s', disabling.": a test that cannot be executed is
\* disabled.
ExecFailureDisables ==
  \A s \in Slots :
    (\E p \in Pids : ChildOf(s, p) /\ status[p] = "clone") ~> running[s] = -1

-----------------------------------------------------------------------------
\* The loop as a test bench: the phase of a test is that of its own child,
\* whatever pid the loop waits for.
Phase(s) ==
  CASE running[s] = -1 -> "disabled"
    [] running[s] = 0 -> "idle"
    [] running[s] = 1 ->
         IF \E p \in Pids : ChildOf(s, p) /\ status[p] \in Exits
         THEN status[CHOOSE p \in Pids : ChildOf(s, p)]
         ELSE "busy"

Bench == INSTANCE TestBench
           WITH Tests <- Slots, phase <- [s \in Slots |-> Phase(s)],
                last <- last_result, passes <- pass_count, fails <- fail_count

\* As long as fork succeeds every run of a test is judged by the status of
\* its own child, once, and recorded for that test alone ("fork" \notin Faults).
ImplementsBench == Bench!BenchSafety

\* And when nothing fails, every test is run again and again until it is
\* disabled, and every run is judged, in spite of a talkative test.
ImplementsBenchFully == Bench!BenchSpec

\* A press of F3 does not leave its thread waiting for good.
DumpEnds == \A t \in DumpThreads : dump[t] # 0 ~> dump[t] = 0
=============================================================================
