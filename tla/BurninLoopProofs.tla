-------------------------- MODULE BurninLoopProofs --------------------------
(***************************************************************************)
(* Proofs about BurninLoop for any number of tests, pids and dump threads, *)
(* any bounds and any set of faults.                                       *)
(***************************************************************************)
EXTENDS BurninLoop, TLAPS

\* The child of a test is why the test is marked as running, and when there is
\* a stream to poll the pid waited for is that child's.
Claimed ==
  \A p \in Pids : Child(p) /\ owner[p] # 0 =>
    /\ running[owner[p]] = 1
    /\ fp[owner[p]] # "null" => pid[owner[p]] = p

Single ==
  \A p, q \in Pids : Child(p) /\ Child(q) /\ owner[p] # 0 /\ owner[p] = owner[q] => p = q

\* main gets to waitpid only for a running test that has a stream.
AtWait == pc = "wait" => running[cur] = 1 /\ fp[cur] # "null"

\* Without a failing execve there are no copies, and everyone is breakin's child.
NoCopies == "exec" \notin Faults => \A p \in Pids : parent[p] = 0 /\ status[p] # "clone"

\* Two dump threads never wait for the same child.
DumpsApart ==
  "fork" \notin Faults =>
    \A t, u \in DumpThreads : dump[t] # 0 /\ dump[t] = dump[u] => t = u

IInv ==
  /\ TypeOK
  /\ Claimed
  /\ Single
  /\ NoUseAfterClose
  /\ AtWait
  /\ OwnChild
  /\ DumpsApart
  /\ NoStreamLeak
  /\ NoCopies

-----------------------------------------------------------------------------
LEMMA MoreType == \A n \in 0..MaxCount : More(n) \in 0..MaxCount
BY BoundsAssumption DEF More

LEMMA FirstSlot == 1 \in Slots
BY CountAssumption DEF Slots

\* Steps that leave running, the streams and the kernel's children alone.
LEMMA AdvanceType ==
  ASSUME TypeOK, NEW half \in {"launch", "drain"}, NEW other \in {"launch", "drain"},
         Advance(half, other)
  PROVE  cur' \in Slots /\ pc' \in {"launch", "drain"}
BY CountAssumption DEF TypeOK, Advance, Slots

LEMMA StartedAs ==
  ASSUME NEW o
  PROVE  Started(o) \subseteq {"alive", "clone"} /\ ("exec" \notin Faults => Started(o) = {"alive"})
BY DEF Started

LEMMA ForkType ==
  ASSUME TypeOK, NEW by \in Pids \cup {0}, NEW o \in 0..Count, NEW ret, fork_cmd(by, o, ret)
  PROVE  /\ owner' \in [Pids -> 0..Count] /\ parent' \in [Pids -> Pids \cup {-1, 0}]
         /\ status' \in [Pids -> {"free", "alive", "clone"} \cup Exits]
<1>1. CASE UNCHANGED children
  BY <1>1 DEF TypeOK, children
<1>2. CASE ret \in Pids /\ ~UNCHANGED children
  <2>1. PICK st \in {"alive", "clone"} : status' = [status EXCEPT ![ret] = st]
    BY <1>2, StartedAs DEF fork_cmd
  <2>2. owner' = [owner EXCEPT ![ret] = o] /\ parent' = [parent EXCEPT ![ret] = by]
    BY <1>2 DEF fork_cmd
  <2> QED
    BY <1>2, <2>1, <2>2 DEF TypeOK
<1> QED
  BY <1>1, <1>2 DEF fork_cmd

LEMMA BehindType ==
  ASSUME NEW test \in [Slots -> Known], NEW i \in Slots,
         NEW half \in {"launch", "drain"}, NEW other \in {"launch", "drain"}
  PROVE  Behind(test, i, half, other) \in CopyStates
BY CountAssumption DEF Behind, CopyStates, Slots

LEMMA CloneType ==
  ASSUME NEW ret, NEW start \in CopyStates, NEW copies \in [Pids -> CopyStates],
         CloneBegins(ret, start, copies)
  PROVE  copy' \in [Pids -> CopyStates]
BY DEF CloneBegins

LEMMA CopiedType == ASSUME TypeOK, NEW s \in Slots PROVE Copied(s) \in Known
BY DEF TypeOK, Copied, Known

LEMMA CopyMovesType ==
  ASSUME TypeOK, NEW c \in Pids, NEW now \in Known
  PROVE  copy[c].at \in Slots /\ CopyTest(c) \in Known /\ CopyMoves(c, now) \in CopyStates
<1>1. /\ copy[c].at \in Slots /\ copy[c].half \in {"launch", "drain"}
      /\ copy[c].test \in [Slots -> Known]
  BY DEF TypeOK, CopyStates
<1>2. [copy[c].test EXCEPT ![copy[c].at] = now] \in [Slots -> Known]
  BY <1>1
<1> QED
  BY <1>1, <1>2, BehindType DEF CopyMoves, CopyTest

\* A wait for a real pid reports that child and no other.
LEMMA WaitableOwn ==
  ASSUME NEW w \in Pids, NEW p \in Waitable(w)
  PROVE  p = w /\ Child(w)
BY PidsAssumption DEF Waitable, WaitableBy, Child

-----------------------------------------------------------------------------
LEMMA InitIInv == Init => IInv
<1> SUFFICES ASSUME Init PROVE IInv
  OBVIOUS
<1> USE DEF Init
<1>1. TypeOK
  BY CountAssumption, BoundsAssumption, FirstSlot DEF TypeOK, Slots, Exits, NoCopy, CopyStates, Known
<1>2. Claimed /\ Single
  BY DEF Claimed, Single, Child
<1>3. NoUseAfterClose /\ AtWait
  BY DEF NoUseAfterClose, AtWait
<1>4. OwnChild /\ DumpsApart /\ NoStreamLeak /\ NoCopies
  BY DEF OwnChild, DumpsApart, NoStreamLeak, NoCopies
<1> QED
  BY <1>1, <1>2, <1>3, <1>4 DEF IInv

\* Every step keeps the types.
LEMMA TypeStep == TypeOK /\ [Next]_vars => TypeOK'
<1> SUFFICES ASSUME TypeOK, [Next]_vars PROVE TypeOK'
  OBVIOUS
<1> USE DEF TypeOK
<1>1. CASE Launch
  <2>1. cur' \in Slots /\ pc' \in {"launch", "drain"}
    BY <1>1, AdvanceType DEF Launch
  <2>2. /\ owner' \in [Pids -> 0..Count] /\ parent' \in [Pids -> Pids \cup {-1, 0}]
        /\ status' \in [Pids -> {"free", "alive", "clone"} \cup Exits]
    <3>1. PICK ret : fork_cmd(0, cur, ret)
      BY <1>1 DEF Launch
    <3>2. cur \in 0..Count
      BY CountAssumption DEF Slots
    <3> QED
      BY <3>1, <3>2, ForkType
  <2>5. copy' \in [Pids -> CopyStates]
    <3>0. PICK ret \in Pids \cup {-1}, stream \in Stream : \E own \in ClonesOwn(stream) :
            CloneBegins(ret, Behind([[s \in Slots |-> Copied(s)] EXCEPT ![cur] = own],
                                    cur, "launch", "drain"), copy)
      BY <1>1 DEF Launch
    <3>1. PICK own \in ClonesOwn(stream) :
            CloneBegins(ret, Behind([[s \in Slots |-> Copied(s)] EXCEPT ![cur] = own],
                                    cur, "launch", "drain"), copy)
      BY <3>0
    <3>2. own \in Known
      BY <3>1 DEF ClonesOwn, Known
    <3>3. [[s \in Slots |-> Copied(s)] EXCEPT ![cur] = own] \in [Slots -> Known]
      BY <3>2, CopiedType
    <3>4. Behind([[s \in Slots |-> Copied(s)] EXCEPT ![cur] = own], cur, "launch", "drain") \in CopyStates
      BY <3>3, BehindType
    <3> QED
      BY <3>1, <3>4, CloneType
  <2>3. pid' \in [Slots -> Pids \cup {-1, 0}] /\ fp' \in [Slots -> {"null", "open", "closed"}]
    BY <1>1 DEF Launch, StreamOf
  <2>4. leaked' \in {0, 1}
    BY <1>1, MoreType DEF Launch
  <2> QED
    BY <1>1, <2>1, <2>2, <2>3, <2>4, <2>5, BoundsAssumption DEF Launch
<1>2. CASE SkipLaunch
  BY <1>2, AdvanceType DEF SkipLaunch, scripts, kernel, children
<1>3. CASE SkipPoll
  BY <1>3, AdvanceType DEF SkipPoll, scripts, kernel, children
<1>4. CASE ReadLine
  BY <1>4, BoundsAssumption DEF ReadLine, scripts, children
<1>5. CASE Drained
  BY <1>5 DEF Drained, scripts, kernel, children
<1>6. CASE WaitPending
  BY <1>6, AdvanceType DEF WaitPending, scripts, kernel, children
<1>7. CASE WaitNoChild
  BY <1>7, AdvanceType, MoreType DEF WaitNoChild, kernel, children
<1>8. ASSUME NEW p \in Pids, Reap(p) PROVE TypeOK'
  <2>1. cur' \in Slots /\ pc' \in {"launch", "drain"}
    BY <1>8, AdvanceType DEF Reap
  <2>2. /\ owner' \in [Pids -> 0..Count] /\ parent' \in [Pids -> Pids \cup {-1, 0}]
        /\ status' \in [Pids -> {"free", "alive", "clone"} \cup Exits]
    BY <1>8, CountAssumption DEF Reap, Collect
  <2>3. running' \in [Slots -> {-1, 0, 1}] /\ fp' \in [Slots -> {"null", "open", "closed"}]
    BY <1>8 DEF Reap, Judge, RunningAfter, CloseStream
  <2>4. last_result' \in [Slots -> {0, 1}]
    BY <1>8 DEF Reap, Collect, Judge, ResultAfter, Exits
  <2>5. pass_count' \in [Slots -> 0..MaxCount] /\ fail_count' \in [Slots -> 0..MaxCount]
    BY <1>8, MoreType DEF Reap, Judge
  <2> QED
    BY <1>8, <2>1, <2>2, <2>3, <2>4, <2>5 DEF Reap
<1>9. ASSUME NEW t \in DumpThreads, PressF3(t) PROVE TypeOK'
  <2>1. /\ owner' \in [Pids -> 0..Count] /\ parent' \in [Pids -> Pids \cup {-1, 0}]
        /\ status' \in [Pids -> {"free", "alive", "clone"} \cup Exits]
    <3>1. PICK ret : fork_cmd(0, 0, ret)
      BY <1>9 DEF PressF3
    <3>2. 0 \in Pids \cup {0} /\ 0 \in 0..Count
      BY CountAssumption
    <3> QED
      BY <3>1, <3>2, ForkType
  <2>2. dump' \in [DumpThreads -> Pids \cup {-1, 0}] /\ leaked' \in {0, 1}
    BY <1>9, MoreType DEF PressF3
  <2> QED
    BY <1>9, <2>1, <2>2 DEF PressF3, scripts
<1>10. ASSUME NEW t \in DumpThreads, DumpWait(t) PROVE TypeOK'
  BY <1>10, CountAssumption DEF DumpWait, Collect, Waitable, WaitableBy, scripts, children, Child
<1>11. ASSUME NEW p \in Pids, Write(p) PROVE TypeOK'
  BY <1>11, BoundsAssumption DEF Write, scripts, Slots, children
<1>12. ASSUME NEW p \in Pids, Exit(p) PROVE TypeOK'
  <2>1. PICK st \in Exits : End(p, st)
    BY <1>12 DEF Exit, Exits
  <2>2. NoCopy \in CopyStates
    BY FirstSlot DEF NoCopy, CopyStates, Known
  <2>3. copy' \in [Pids -> CopyStates]
    BY <2>1, <2>2 DEF End
  <2>4. /\ owner' \in [Pids -> 0..Count] /\ parent' \in [Pids -> Pids \cup {-1, 0}]
        /\ status' \in [Pids -> {"free", "alive", "clone"} \cup Exits]
    BY <2>1, CountAssumption DEF End
  <2> QED
    BY <1>12, <2>3, <2>4 DEF Exit, scripts
<1>14. ASSUME NEW c \in Pids, CopyLaunch(c) PROVE TypeOK'
  <2>0. PICK ret \in Pids \cup {-1}, stream \in Stream :
          /\ fork_cmd(c, copy[c].at, ret)
          /\ \E own \in ClonesOwn(stream) : CloneBegins(ret, CopyMoves(c, own),
               [copy EXCEPT ![c] = CopyMoves(c, IF stream # "open" THEN "unheard"
                                                ELSE IF ret \in Pids THEN ret ELSE "any")])
    BY <1>14 DEF CopyLaunch
  <2>1. PICK own \in ClonesOwn(stream) : CloneBegins(ret, CopyMoves(c, own),
               [copy EXCEPT ![c] = CopyMoves(c, IF stream # "open" THEN "unheard"
                                                ELSE IF ret \in Pids THEN ret ELSE "any")])
    BY <2>0
  <2>2. own \in Known /\ (IF stream # "open" THEN "unheard" ELSE IF ret \in Pids THEN ret ELSE "any") \in Known
    BY <2>1 DEF ClonesOwn, Known
  <2>3. copy[c].at \in 0..Count
    <3>1. copy[c].at \in Slots
      BY <2>2, CopyMovesType
    <3> QED
      BY <3>1, CountAssumption DEF Slots
  <2>4. /\ owner' \in [Pids -> 0..Count] /\ parent' \in [Pids -> Pids \cup {-1, 0}]
        /\ status' \in [Pids -> {"free", "alive", "clone"} \cup Exits]
    BY <2>0, <2>3, ForkType
  <2>5. copy' \in [Pids -> CopyStates]
    <3> DEFINE now == IF stream # "open" THEN "unheard" ELSE IF ret \in Pids THEN ret ELSE "any"
    <3>1. CopyMoves(c, own) \in CopyStates /\ CopyMoves(c, now) \in CopyStates
      BY <2>2, CopyMovesType
    <3>2. [copy EXCEPT ![c] = CopyMoves(c, now)] \in [Pids -> CopyStates]
      BY <3>1
    <3> QED
      BY <2>1, <3>1, <3>2, CloneType
  <2> QED
    BY <1>14, <2>4, <2>5 DEF CopyLaunch, mainState, scripts
<1>15. ASSUME NEW c \in Pids, CopySkip(c) \/ CopyNoChild(c) PROVE TypeOK'
  <2>1. "idle" \in Known
    BY DEF Known
  <2>2. CopyMoves(c, "idle") \in CopyStates /\ CopyMoves(c, CopyTest(c)) \in CopyStates
    BY <2>1, CopyMovesType
  <2> QED
    BY <1>15, <2>2 DEF CopySkip, CopyNoChild, mainState, scripts, children
<1>16. ASSUME NEW c \in Pids, NEW p \in Pids, CopyReap(c, p) PROVE TypeOK'
  <2>1. "idle" \in Known /\ "off" \in Known
    BY DEF Known
  <2>2. CopyMoves(c, IF RunningAfter(status[p]) = -1 THEN "off" ELSE "idle") \in CopyStates
    BY <2>1, CopyMovesType
  <2> QED
    BY <1>16, <2>2, CountAssumption DEF CopyReap, Collect, mainState, scripts
<1>13. CASE UNCHANGED vars
  BY <1>13 DEF vars, scripts, kernel, children
<1> QED
  BY <1>1, <1>2, <1>3, <1>4, <1>5, <1>6, <1>7, <1>8, <1>9, <1>10, <1>11, <1>12, <1>13,
     <1>14, <1>15, <1>16 DEF Next, Main, Copy
-----------------------------------------------------------------------------
\* What the kernel's part of a step does to the children.

\* A new child takes an id that was free and every other child stays as it is.
LEMMA Forked ==
  ASSUME TypeOK, NEW o \in 0..Count, NEW ret, fork_cmd(0, o, ret)
  PROVE  /\ \A p \in Pids : p # ret => owner'[p] = owner[p] /\ parent'[p] = parent[p] /\ status'[p] = status[p]
         /\ ret \in Pids => ~Child(ret) /\ Child(ret)' /\ owner'[ret] = o
         /\ ret \in Pids \/ (ret = -1 /\ "fork" \in Faults)
BY PidsAssumption, StartedAs DEF TypeOK, fork_cmd, Child, children

LEMMA Collected ==
  ASSUME TypeOK, NEW p \in Pids, Collect(p)
  PROVE  /\ \A q \in Pids : q # p => owner'[q] = owner[q] /\ parent'[q] = parent[q] /\ status'[q] = status[q]
         /\ status[p] # "free" /\ ~Child(p)'
BY DEF TypeOK, Collect, Child, Exits

\* A copy forks and waits for children of its own: breakin's stay as they are.
LEMMA CopyApart ==
  ASSUME TypeOK, NEW c \in Pids, Copy(c), NEW q \in Pids
  PROVE  /\ Child(q)' <=> Child(q)
         /\ Child(q) => owner'[q] = owner[q] /\ status'[q] = status[q]
<1>1. CASE CopyLaunch(c)
  <2>1. PICK ret : fork_cmd(c, copy[c].at, ret)
    BY <1>1 DEF CopyLaunch
  <2> QED
    BY <2>1, PidsAssumption, StartedAs DEF fork_cmd, TypeOK, Child, children
<1>2. CASE CopySkip(c) \/ CopyNoChild(c)
  BY <1>2 DEF CopySkip, CopyNoChild, children, Child
<1>3. ASSUME NEW p \in Pids, CopyReap(c, p)
      PROVE  /\ Child(q)' <=> Child(q)
             /\ Child(q) => owner'[q] = owner[q] /\ status'[q] = status[q]
  <2>1. parent[p] = c /\ c # 0
    BY <1>3, PidsAssumption DEF CopyReap, WaitableBy
  <2> QED
    BY <1>3, <2>1 DEF CopyReap, Collect, TypeOK, Child
<1> QED
  BY <1>1, <1>2, <1>3 DEF Copy

LEMMA CopyKeepsMain == ASSUME NEW c \in Pids, Copy(c) PROVE UNCHANGED mainState
BY DEF Copy, CopyLaunch, CopySkip, CopyNoChild, CopyReap

\* Only the child that ends changes its status, among breakin's; and a copy's end
\* gives nobody to breakin.
LEMMA Ended ==
  ASSUME TypeOK, NEW p \in Pids, Exit(p), NEW q \in Pids
  PROVE  /\ Child(q)' <=> Child(q)
         /\ Child(q) => owner'[q] = owner[q]
         /\ Child(q) /\ q # p => status'[q] = status[q]
         /\ Child(q) /\ q = p => status[q] \in {"alive", "clone"} /\ status'[q] \in Exits
<1>1. PICK st \in Exits : End(p, st)
  BY DEF Exit, Exits
<1>2. p # 0 /\ p # -1 /\ status[p] \in {"alive", "clone"}
  BY PidsAssumption DEF Exit
<1> QED
  BY <1>1, <1>2 DEF End, Child, TypeOK, Exits

\* The claims of the tests on their children, whatever fails.
LEMMA ClaimStep ==
  TypeOK /\ Claimed /\ Single /\ NoUseAfterClose /\ AtWait /\ [Next]_vars
    => Claimed' /\ Single' /\ NoUseAfterClose' /\ AtWait'
<1> SUFFICES ASSUME TypeOK, Claimed, Single, NoUseAfterClose, AtWait, [Next]_vars
             PROVE  Claimed' /\ Single' /\ NoUseAfterClose' /\ AtWait'
  OBVIOUS
<1>0. TypeOK'
  BY TypeStep
<1>1. CASE Launch
  <2>1. PICK ret \in Pids \cup {-1}, stream \in Stream :
          /\ fork_cmd(0, cur, ret)
          /\ pid' = IF stream = "nopipe" THEN pid ELSE [pid EXCEPT ![cur] = ret]
          /\ fp' = [fp EXCEPT ![cur] = StreamOf(cur, stream)]
    BY <1>1 DEF Launch
  <2>2. cur \in Slots /\ cur # 0 /\ cur \in 0..Count
    BY CountAssumption DEF TypeOK, Slots
  <2>3. running' = [running EXCEPT ![cur] = 1] /\ running[cur] = 0 /\ pc' \in {"launch", "drain"}
    BY <1>1, AdvanceType DEF Launch, Idle
  <2>4. /\ \A p \in Pids : p # ret => owner'[p] = owner[p] /\ parent'[p] = parent[p] /\ status'[p] = status[p]
        /\ ret \in Pids => ~Child(ret) /\ owner'[ret] = cur
    BY <2>1, <2>2, Forked
  <2>5. \A p \in Pids : Child(p) /\ owner[p] # 0 => owner[p] # cur /\ owner[p] \in Slots
    BY <2>2, <2>3, CountAssumption DEF Claimed, TypeOK, Slots
  <2>6. fp'[cur] # "null" => fp'[cur] = "open" /\ stream = "open" /\ pid'[cur] = ret
    BY <2>1, <2>2 DEF TypeOK, StreamOf
  <2>7. \A s \in Slots : s # cur => running'[s] = running[s] /\ fp'[s] = fp[s] /\ pid'[s] = pid[s]
    BY <2>1, <2>2, <2>3 DEF TypeOK
  <2>8. Claimed'
    <3> SUFFICES ASSUME NEW p \in Pids, Child(p)', owner'[p] # 0
                 PROVE  running'[owner'[p]] = 1 /\ (fp'[owner'[p]] # "null" => pid'[owner'[p]] = p)
      BY DEF Claimed
    <3>1. CASE p = ret
      BY <3>1, <2>2, <2>3, <2>4, <2>6 DEF TypeOK
    <3>2. CASE p # ret
      BY <3>2, <2>4, <2>5, <2>7 DEF Claimed, Child
    <3> QED
      BY <3>1, <3>2
  <2>9. Single'
    BY <2>4, <2>5 DEF Single, Child
  <2>10. NoUseAfterClose'
    BY <2>6, <2>7 DEF NoUseAfterClose
  <2> QED
    BY <2>3, <2>8, <2>9, <2>10 DEF AtWait
<1>2. CASE SkipLaunch \/ SkipPoll \/ WaitPending
  <2>1. pc' \in {"launch", "drain"}
    BY <1>2, AdvanceType DEF SkipLaunch, SkipPoll, WaitPending
  <2> QED
    BY <1>2, <2>1 DEF SkipLaunch, SkipPoll, WaitPending, scripts, kernel, children,
                      Claimed, Single, NoUseAfterClose, AtWait, Child
<1>3. CASE ReadLine
  BY <1>3 DEF children, ReadLine, scripts, Claimed, Single, NoUseAfterClose, AtWait, Child
<1>4. CASE Drained
  BY <1>4 DEF Drained, Polling, scripts, kernel, children, Claimed, Single, NoUseAfterClose, AtWait, Child
<1>5. CASE WaitNoChild
  <2>1. pc' \in {"launch", "drain"} /\ running' = [running EXCEPT ![cur] = 0] /\ cur \in Slots
    BY <1>5, AdvanceType DEF WaitNoChild, TypeOK
  <2>2. \A p \in Pids : Child(p) /\ owner[p] # 0 => owner[p] # cur
    BY <1>5 DEF WaitNoChild, Waitable, WaitableBy, Claimed, AtWait, Child
  <2> QED
    BY <1>5, <2>1, <2>2 DEF WaitNoChild, kernel, children, TypeOK, Claimed, Single, NoUseAfterClose, AtWait, Child
<1>6. ASSUME NEW r \in Pids, Reap(r) PROVE Claimed' /\ Single' /\ NoUseAfterClose' /\ AtWait'
  <2>1. pc' \in {"launch", "drain"} /\ cur \in Slots
    BY <1>6, AdvanceType DEF Reap, TypeOK
  <2>2. /\ \A q \in Pids : q # r => owner'[q] = owner[q] /\ parent'[q] = parent[q] /\ status'[q] = status[q]
        /\ ~Child(r)'
    BY <1>6, Collected DEF Reap
  <2>3. /\ running'[cur] \in {-1, 0}
        /\ \A s \in Slots : s # cur => running'[s] = running[s] /\ fp'[s] = fp[s]
        /\ pid' = pid
    BY <1>6, <2>1 DEF Reap, Judge, RunningAfter, CloseStream, TypeOK
  <2>4. \A p \in Pids : p # r /\ Child(p) /\ owner[p] # 0 => owner[p] # cur /\ owner[p] \in Slots
    BY <1>6, PidsAssumption, CountAssumption
       DEF Reap, Waitable, WaitableBy, Claimed, Single, AtWait, TypeOK, Slots, Child
  <2>5. Claimed' /\ Single'
    BY <2>2, <2>3, <2>4 DEF Claimed, Single, Child
  <2>6. NoUseAfterClose'
    BY <2>3 DEF NoUseAfterClose
  <2> QED
    BY <2>1, <2>5, <2>6 DEF AtWait
<1>7. ASSUME NEW t \in DumpThreads, PressF3(t)
      PROVE  Claimed' /\ Single' /\ NoUseAfterClose' /\ AtWait'
  <2>1. PICK ret \in Pids \cup {-1} : fork_cmd(0, 0, ret)
    BY <1>7 DEF PressF3
  <2>2. /\ \A p \in Pids : p # ret => owner'[p] = owner[p] /\ parent'[p] = parent[p] /\ status'[p] = status[p]
        /\ ret \in Pids => owner'[ret] = 0
    BY <2>1, CountAssumption, Forked
  <2> QED
    BY <1>7, <2>2 DEF PressF3, scripts, Claimed, Single, NoUseAfterClose, AtWait, Child
<1>8. ASSUME NEW t \in DumpThreads, DumpWait(t)
      PROVE  Claimed' /\ Single' /\ NoUseAfterClose' /\ AtWait'
  <2>1. CASE UNCHANGED children
    BY <1>8, <2>1 DEF children, DumpWait, scripts, Claimed, Single, NoUseAfterClose, AtWait, Child
  <2>2. ASSUME NEW r \in Pids, Collect(r)
        PROVE  Claimed' /\ Single' /\ NoUseAfterClose' /\ AtWait'
    BY <1>8, <2>2, Collected DEF children, DumpWait, scripts, Claimed, Single, NoUseAfterClose, AtWait, Child
  <2> QED
    BY <1>8, <2>1, <2>2 DEF DumpWait, Waitable, WaitableBy
<1>9. ASSUME NEW p \in Pids, Write(p) PROVE Claimed' /\ Single' /\ NoUseAfterClose' /\ AtWait'
  BY <1>9 DEF children, Write, scripts, Claimed, Single, NoUseAfterClose, AtWait, Child
<1>10. ASSUME NEW p \in Pids, Exit(p) PROVE Claimed' /\ Single' /\ NoUseAfterClose' /\ AtWait'
  <2>1. UNCHANGED <<running, pid, fp, pc, cur>>
    BY <1>10 DEF Exit, scripts
  <2>2. ASSUME NEW q \in Pids
        PROVE  (Child(q)' <=> Child(q)) /\ (Child(q) => owner'[q] = owner[q])
    BY <1>10, Ended
  <2> QED
    BY <2>1, <2>2 DEF Claimed, Single, NoUseAfterClose, AtWait
<1>12. ASSUME NEW c \in Pids, Copy(c) PROVE Claimed' /\ Single' /\ NoUseAfterClose' /\ AtWait'
  <2>1. UNCHANGED <<running, pid, fp, pc, cur>>
    BY <1>12, CopyKeepsMain DEF mainState, scripts
  <2>2. ASSUME NEW q \in Pids
        PROVE  (Child(q)' <=> Child(q)) /\ (Child(q) => owner'[q] = owner[q])
    BY <1>12, CopyApart
  <2> QED
    BY <2>1, <2>2 DEF Claimed, Single, NoUseAfterClose, AtWait
<1>11. CASE UNCHANGED vars
  BY <1>11 DEF vars, scripts, kernel, children, Claimed, Single, NoUseAfterClose, AtWait, Child
<1> QED
  BY <1>1, <1>2, <1>3, <1>4, <1>5, <1>6, <1>7, <1>8, <1>9, <1>10, <1>11, <1>12 DEF Next, Main

\* Without a failed fork, nobody takes away the child another one waits for.
LEMMA OwnStep == IInv /\ [Next]_vars => OwnChild' /\ DumpsApart'
<1> SUFFICES ASSUME IInv, [Next]_vars, "fork" \notin Faults PROVE OwnChild' /\ DumpsApart'
  BY DEF OwnChild, DumpsApart
<1> DEFINE Kept == {p \in Pids : Child(p) => Child(p)' /\ owner'[p] = owner[p]}
<1> USE DEF IInv
\* A step that keeps every child that someone waits for keeps both facts.
<1>0. ASSUME UNCHANGED <<pid, dump>>,
             \A s \in Slots : running'[s] = 1 /\ fp'[s] # "null" =>
               running[s] = 1 /\ fp[s] # "null" /\ pid[s] \in Kept,
             \A t \in DumpThreads : dump[t] # 0 => dump[t] \in Kept
      PROVE  OwnChild' /\ DumpsApart'
  BY <1>0 DEF OwnChild, DumpsApart, ChildOf, Child
<1>1. CASE Launch
  <2>1. PICK ret \in Pids \cup {-1}, stream \in Stream :
          /\ fork_cmd(0, cur, ret)
          /\ pid' = IF stream = "nopipe" THEN pid ELSE [pid EXCEPT ![cur] = ret]
          /\ fp' = [fp EXCEPT ![cur] = StreamOf(cur, stream)]
    BY <1>1 DEF Launch
  <2>2. cur \in Slots /\ cur \in 0..Count
    BY CountAssumption DEF TypeOK, Slots
  <2>3. running' = [running EXCEPT ![cur] = 1] /\ dump' = dump
    BY <1>1 DEF Launch
  <2>4. /\ ret \in Pids /\ ~Child(ret) /\ Child(ret)' /\ owner'[ret] = cur
        /\ \A p \in Pids : p # ret => p \in Kept
    BY <2>1, <2>2, Forked DEF Child
  <2>5. fp'[cur] # "null" => pid'[cur] = ret
    BY <2>1, <2>2 DEF TypeOK, StreamOf
  <2>6. \A s \in Slots : s # cur => running'[s] = running[s] /\ fp'[s] = fp[s] /\ pid'[s] = pid[s]
    BY <2>1, <2>2, <2>3 DEF TypeOK
  <2>7. ASSUME NEW s \in Slots, running'[s] = 1, fp'[s] # "null"
        PROVE  (pid[s] \in Pids /\ ChildOf(s, pid[s]))'
    <3>1. CASE s = cur
      BY <2>4, <2>5, <2>7, <3>1 DEF ChildOf, Child
    <3>2. CASE s # cur
      BY <2>4, <2>6, <2>7, <3>2 DEF OwnChild, ChildOf, Child
    <3> QED
      BY <3>1, <3>2
  <2>8. ASSUME NEW t \in DumpThreads, dump[t] # 0 PROVE (dump[t] \in Pids /\ ChildOf(0, dump[t]))'
    BY <2>3, <2>4, <2>8 DEF OwnChild, ChildOf, Child
  <2> QED
    BY <2>3, <2>7, <2>8 DEF OwnChild, DumpsApart
<1>2. CASE SkipLaunch \/ SkipPoll \/ WaitPending
  BY <1>2 DEF SkipLaunch, SkipPoll, WaitPending, scripts, kernel, children, OwnChild, DumpsApart, ChildOf, Child
<1>3. CASE ReadLine \/ Drained
  BY <1>3 DEF ReadLine, Drained, scripts, kernel, children, OwnChild, DumpsApart, ChildOf, Child
<1>4. CASE WaitNoChild
  \* There is a child to wait for.
  BY <1>4 DEF WaitNoChild, Waitable, WaitableBy, OwnChild, AtWait, TypeOK, ChildOf, Child
<1>5. ASSUME NEW r \in Pids, Reap(r) PROVE OwnChild' /\ DumpsApart'
  <2>1. cur \in Slots /\ cur # 0 /\ running[cur] = 1 /\ fp[cur] # "null"
    BY <1>5, CountAssumption DEF Reap, AtWait, TypeOK, Slots
  <2>2. r = pid[cur] /\ ChildOf(cur, r)
    BY <1>5, <2>1, WaitableOwn DEF Reap, OwnChild
  <2>3. /\ running'[cur] # 1
        /\ \A s \in Slots : s # cur => running'[s] = running[s] /\ fp'[s] = fp[s]
        /\ UNCHANGED <<pid, dump>>
    BY <1>5, <2>1 DEF Reap, Judge, RunningAfter, CloseStream, TypeOK
  <2>4. \A q \in Pids : q # r => q \in Kept
    BY <1>5, Collected DEF Reap, Child
  <2>5. \A s \in Slots : s # cur /\ running[s] = 1 /\ fp[s] # "null" => pid[s] \in Pids /\ pid[s] # r
    BY <2>2 DEF OwnChild, ChildOf
  <2>6. \A t \in DumpThreads : dump[t] # 0 => dump[t] \in Pids /\ dump[t] # r
    BY <2>1, <2>2 DEF OwnChild, ChildOf
  <2> QED
    BY <1>0, <2>3, <2>4, <2>5, <2>6
<1>6. ASSUME NEW t \in DumpThreads, PressF3(t) PROVE OwnChild' /\ DumpsApart'
  <2>1. PICK ret \in Pids \cup {-1}, stream \in Stream :
          /\ fork_cmd(0, 0, ret)
          /\ dump' = IF stream = "open" THEN [dump EXCEPT ![t] = ret] ELSE dump
    BY <1>6 DEF PressF3
  <2>2. /\ ret \in Pids /\ ~Child(ret) /\ Child(ret)' /\ owner'[ret] = 0
        /\ \A p \in Pids : p # ret => p \in Kept
    BY <2>1, CountAssumption, Forked DEF Child
  <2>3. ASSUME NEW s \in Slots, running'[s] = 1, fp'[s] # "null"
        PROVE  (pid[s] \in Pids /\ ChildOf(s, pid[s]))'
    BY <1>6, <2>2, <2>3 DEF PressF3, scripts, OwnChild, ChildOf, Child
  <2>4. ASSUME NEW u \in DumpThreads, dump'[u] # 0
        PROVE  /\ (dump[u] \in Pids /\ ChildOf(0, dump[u]))'
               /\ u # t => dump'[u] = dump[u] /\ dump[u] # ret
    BY <2>1, <2>2, <2>4 DEF TypeOK, OwnChild, ChildOf, Child
  <2>5. ASSUME NEW u \in DumpThreads, NEW v \in DumpThreads, dump'[u] # 0, dump'[u] = dump'[v]
        PROVE  u = v
    BY <1>6, <2>1, <2>4, <2>5 DEF PressF3, TypeOK, DumpsApart
  <2> QED
    BY <2>3, <2>4, <2>5 DEF OwnChild, DumpsApart
<1>7. ASSUME NEW t \in DumpThreads, DumpWait(t) PROVE OwnChild' /\ DumpsApart'
  <2>1. dump[t] \in Pids /\ ChildOf(0, dump[t]) /\ Waitable(dump[t]) # {}
    BY <1>7 DEF children, DumpWait, OwnChild, Waitable, WaitableBy, ChildOf, Child
  <2>2. Collect(dump[t])
    BY <1>7, <2>1, WaitableOwn DEF children, DumpWait
  <2>3. \A q \in Pids : q # dump[t] => q \in Kept
    BY <2>1, <2>2, Collected DEF Child
  <2>4. dump' = [dump EXCEPT ![t] = 0] /\ UNCHANGED scripts
    BY <1>7 DEF children, DumpWait
  <2>5. ASSUME NEW s \in Slots, running[s] = 1, fp[s] # "null"
        PROVE  (pid[s] \in Pids /\ ChildOf(s, pid[s]))'
    <3>1. pid[s] \in Pids /\ ChildOf(s, pid[s]) /\ s # 0
      BY <2>5, CountAssumption DEF OwnChild, Slots
    <3> QED
      BY <2>1, <2>3, <2>4, <3>1 DEF scripts, ChildOf, Child
  <2>6. ASSUME NEW u \in DumpThreads, dump'[u] # 0
        PROVE  u # t /\ dump'[u] = dump[u] /\ (dump[u] \in Pids /\ ChildOf(0, dump[u]))'
    BY <1>7, <2>3, <2>4, <2>6 DEF children, DumpWait, TypeOK, OwnChild, DumpsApart, ChildOf, Child
  <2> QED
    BY <2>4, <2>5, <2>6 DEF scripts, OwnChild, DumpsApart
<1>8. ASSUME NEW p \in Pids, Write(p) PROVE OwnChild' /\ DumpsApart'
  BY <1>8 DEF children, Write, scripts, OwnChild, DumpsApart, ChildOf, Child
<1>9. ASSUME NEW p \in Pids, Exit(p) PROVE OwnChild' /\ DumpsApart'
  <2>1. ASSUME NEW q \in Pids PROVE q \in Kept
    BY <1>9, Ended DEF Child
  <2>2. UNCHANGED <<running, pid, fp, dump>>
    BY <1>9 DEF Exit, scripts
  <2>3. UNCHANGED <<pid, dump>> /\ \A s \in Slots : running'[s] = running[s] /\ fp'[s] = fp[s]
    BY <2>2
  <2> QED
    BY <1>0, <2>1, <2>3 DEF OwnChild
<1>11. ASSUME NEW c \in Pids, Copy(c) PROVE OwnChild' /\ DumpsApart'
  <2>1. ASSUME NEW q \in Pids PROVE q \in Kept
    BY <1>11, CopyApart DEF Child
  <2>2. UNCHANGED <<running, pid, fp, dump>>
    BY <1>11, CopyKeepsMain DEF mainState, scripts
  <2>3. UNCHANGED <<pid, dump>> /\ \A s \in Slots : running'[s] = running[s] /\ fp'[s] = fp[s]
    BY <2>2
  <2> QED
    BY <1>0, <2>1, <2>3 DEF OwnChild
<1>10. CASE UNCHANGED vars
  BY <1>10 DEF vars, scripts, kernel, children, OwnChild, DumpsApart, ChildOf, Child
<1> QED
  BY <1>1, <1>2, <1>3, <1>4, <1>5, <1>6, <1>7, <1>8, <1>9, <1>10, <1>11 DEF Next, Main

\* As long as fork and fdopen succeed, a stream is closed when its test stops.
LEMMA LeakStep == IInv /\ [Next]_vars => NoStreamLeak'
<1> SUFFICES ASSUME IInv, [Next]_vars, Faults \cap {"fork", "fdopen"} = {} PROVE NoStreamLeak'
  BY DEF NoStreamLeak
<1> USE DEF IInv
<1>0. "fork" \notin Faults /\ "nofile" \notin Stream
  BY DEF Stream
<1>1. CASE Launch
  <2>1. cur \in Slots /\ fp[cur] # "open"
    BY <1>1 DEF Launch, Idle, NoStreamLeak, TypeOK
  <2> QED
    BY <1>0, <1>1, <2>1 DEF Launch, NoStreamLeak, TypeOK
<1>2. CASE SkipLaunch \/ SkipPoll \/ WaitPending \/ ReadLine \/ Drained
  BY <1>2 DEF SkipLaunch, SkipPoll, WaitPending, ReadLine, Drained, scripts, kernel, children, NoStreamLeak
<1>3. CASE WaitNoChild
  BY <1>0, <1>3 DEF WaitNoChild, Waitable, WaitableBy, OwnChild, AtWait, TypeOK, ChildOf, Child
<1>4. ASSUME NEW p \in Pids, Reap(p) PROVE NoStreamLeak'
  BY <1>4 DEF Reap, Judge, CloseStream, NoStreamLeak, TypeOK
<1>5. ASSUME NEW t \in DumpThreads, PressF3(t) \/ DumpWait(t) PROVE NoStreamLeak'
  BY <1>0, <1>5 DEF children, PressF3, DumpWait, scripts, NoStreamLeak
<1>6. ASSUME NEW p \in Pids, Write(p) \/ Exit(p) PROVE NoStreamLeak'
  BY <1>6 DEF children, Write, Exit, scripts, NoStreamLeak
<1>7. CASE UNCHANGED vars
  BY <1>7 DEF vars, scripts, kernel, children, NoStreamLeak
<1>8. ASSUME NEW c \in Pids, Copy(c) PROVE NoStreamLeak'
  BY <1>8, CopyKeepsMain DEF mainState, scripts, NoStreamLeak
<1> QED
  BY <1>1, <1>2, <1>3, <1>4, <1>5, <1>6, <1>7, <1>8 DEF Next, Main

\* As long as execve succeeds nobody but breakin forks.
LEMMA CopiesStep == TypeOK /\ NoCopies /\ [Next]_vars => NoCopies'
<1> SUFFICES ASSUME TypeOK, NoCopies, [Next]_vars, "exec" \notin Faults
             PROVE  \A p \in Pids : parent'[p] = 0 /\ status'[p] # "clone"
  BY DEF NoCopies
<1>0. \A p \in Pids : parent[p] = 0 /\ status[p] # "clone"
  BY DEF NoCopies
<1>1. ASSUME NEW o \in 0..Count, NEW ret, fork_cmd(0, o, ret)
      PROVE  \A p \in Pids : parent'[p] = 0 /\ status'[p] # "clone"
  BY <1>0, <1>1, StartedAs DEF fork_cmd, TypeOK, children
<1>2. ASSUME NEW p \in Pids, Collect(p)
      PROVE  \A q \in Pids : parent'[q] = 0 /\ status'[q] # "clone"
  BY <1>0, <1>2 DEF Collect, TypeOK
<1>3. ASSUME UNCHANGED children
      PROVE  \A p \in Pids : parent'[p] = 0 /\ status'[p] # "clone"
  BY <1>0, <1>3 DEF children
<1>4. CASE Launch
  BY <1>1, <1>4, CountAssumption DEF Launch, TypeOK, Slots
<1>5. CASE SkipLaunch \/ SkipPoll \/ ReadLine \/ Drained \/ WaitPending \/ WaitNoChild \/ UNCHANGED vars
  BY <1>3, <1>5 DEF SkipLaunch, SkipPoll, ReadLine, Drained, WaitPending, WaitNoChild, vars, kernel, children
<1>6. ASSUME NEW p \in Pids, Reap(p) PROVE \A q \in Pids : parent'[q] = 0 /\ status'[q] # "clone"
  BY <1>2, <1>6 DEF Reap
<1>7. ASSUME NEW t \in DumpThreads, PressF3(t) PROVE \A p \in Pids : parent'[p] = 0 /\ status'[p] # "clone"
  BY <1>1, <1>7, CountAssumption DEF PressF3
<1>8. ASSUME NEW t \in DumpThreads, DumpWait(t) PROVE \A p \in Pids : parent'[p] = 0 /\ status'[p] # "clone"
  BY <1>2, <1>3, <1>8 DEF children, DumpWait, Waitable, WaitableBy, Child
<1>9. ASSUME NEW p \in Pids, Write(p) PROVE \A q \in Pids : parent'[q] = 0 /\ status'[q] # "clone"
  BY <1>3, <1>9 DEF children, Write
<1>10. ASSUME NEW p \in Pids, Exit(p) PROVE \A q \in Pids : parent'[q] = 0 /\ status'[q] # "clone"
  <2>1. PICK st \in Exits : End(p, st)
    BY <1>10 DEF Exit, Exits
  <2> QED
    BY <1>0, <2>1, PidsAssumption DEF End, Exits
<1>11. ASSUME NEW c \in Pids PROVE ~Copy(c)
  BY <1>0, <1>11 DEF Copy, CopyLaunch, CopySkip, CopyNoChild, CopyReap, CopyWaits, CopyAt
<1> QED
  BY <1>4, <1>5, <1>6, <1>7, <1>8, <1>9, <1>10, <1>11 DEF Next, Main

LEMMA NextIInv == IInv /\ [Next]_vars => IInv'
BY TypeStep, ClaimStep, OwnStep, LeakStep, CopiesStep DEF IInv

LEMMA InvariantIInv == Spec => []IInv
<1> QED
  BY InitIInv, NextIInv, PTL DEF Spec

-----------------------------------------------------------------------------
\* The loop's variables keep their types, whatever fails.
THEOREM TypeCorrect == Spec => []TypeOK
<1>1. IInv => TypeOK
  BY DEF IInv
<1> QED
  BY <1>1, InvariantIInv, PTL

\* Whatever fails, breakin has one child at most for a test; and as long as
\* execve succeeds there is one process at most for a test on the machine.
THEOREM OneInstanceAlways == Spec => []OneInstance
<1>1. IInv => OneInstance
  BY DEF IInv, Claimed, Single, NoCopies, OneInstance, ChildOf, Child
<1> QED
  BY <1>1, InvariantIInv, PTL

\* A stream that was closed is not polled, whatever fails.
THEOREM NoUseAfterCloseAlways == Spec => []NoUseAfterClose
<1>1. IInv => NoUseAfterClose
  BY DEF IInv
<1> QED
  BY <1>1, InvariantIInv, PTL

\* Every waitpid is for a child that is there and that is the caller's own.
THEOREM OwnChildAlways == Spec => []OwnChild
<1>1. IInv => OwnChild
  BY DEF IInv
<1> QED
  BY <1>1, InvariantIInv, PTL

\* No descriptor is lost as long as fork and fdopen succeed.
THEOREM NoStreamLeakAlways == Spec => []NoStreamLeak
<1>1. IInv => NoStreamLeak
  BY DEF IInv
<1> QED
  BY <1>1, InvariantIInv, PTL

-----------------------------------------------------------------------------
\* As long as fork succeeds, the step that collects a test's child is main's
\* wait for that very child.
LEMMA CollectOwn ==
  ASSUME IInv, "fork" \notin Faults, NEW p \in Pids, Reap(p)
  PROVE  /\ cur \in Slots /\ cur # 0 /\ running[cur] = 1
         /\ ChildOf(cur, p) /\ status[p] \in Exits
<1>1. cur \in Slots /\ cur # 0 /\ running[cur] = 1 /\ fp[cur] # "null"
  BY CountAssumption DEF IInv, Reap, AtWait, TypeOK, Slots
<1>2. p = pid[cur] /\ ChildOf(cur, p)
  BY <1>1, WaitableOwn DEF IInv, Reap, OwnChild
<1> QED
  BY <1>1, <1>2 DEF Reap, Collect

\* As long as fork succeeds, a test that exits with 255 or is killed is disabled
\* when its child is collected, and stays disabled.
THEOREM QuitMeansNeverAlways == ASSUME "fork" \notin Faults PROVE Spec => QuitMeansNever
<1>1. IInv /\ [Next]_vars => [QuitStep]_vars
  <2> SUFFICES ASSUME IInv, Next PROVE QuitStep
    OBVIOUS
  <2> USE DEF IInv
  <2>1. CASE Launch
    <3>1. PICK ret : fork_cmd(0, cur, ret)
      BY <2>1 DEF Launch
    <3>2. \A p \in Pids : status[p] # "free" => status'[p] # "free"
      BY <3>1, StartedAs DEF fork_cmd, TypeOK, children
    <3> QED
      BY <2>1, <3>2 DEF Launch, Idle, QuitStep, TypeOK
  <2>2. CASE SkipLaunch \/ SkipPoll \/ ReadLine \/ Drained \/ WaitPending
    BY <2>2 DEF SkipLaunch, SkipPoll, ReadLine, Drained, WaitPending, scripts, kernel, children, QuitStep
  <2>3. CASE WaitNoChild
    BY <2>3 DEF WaitNoChild, kernel, children, AtWait, QuitStep, TypeOK
  <2>4. ASSUME NEW r \in Pids, Reap(r) PROVE QuitStep
    <3>1. cur \in Slots /\ running[cur] = 1 /\ owner[r] = cur
      BY <2>4, CollectOwn DEF ChildOf
    <3>2. running' = [running EXCEPT ![cur] = RunningAfter(status[r])]
      BY <2>4 DEF Reap, Judge
    <3>3. status' = [status EXCEPT ![r] = "free"]
      BY <2>4 DEF Reap, Collect
    <3> QED
      BY <3>1, <3>2, <3>3 DEF RunningAfter, QuitStep, TypeOK
  <2>5. ASSUME NEW t \in DumpThreads, PressF3(t) PROVE QuitStep
    <3>1. PICK ret : fork_cmd(0, 0, ret)
      BY <2>5 DEF PressF3
    <3>2. \A p \in Pids : status[p] # "free" => status'[p] # "free"
      BY <3>1, StartedAs DEF fork_cmd, TypeOK, children
    <3> QED
      BY <2>5, <3>2 DEF PressF3, scripts, QuitStep
  <2>6. ASSUME NEW t \in DumpThreads, DumpWait(t) PROVE QuitStep
    <3>1. dump[t] \in Pids /\ owner[dump[t]] = 0 /\ Waitable(dump[t]) # {}
      BY <2>6 DEF DumpWait, OwnChild, ChildOf, Waitable, WaitableBy, Child
    <3>2. status' = [status EXCEPT ![dump[t]] = "free"]
      BY <2>6, <3>1, WaitableOwn DEF children, DumpWait, Collect
    <3> QED
      BY <2>6, <3>1, <3>2 DEF children, DumpWait, scripts, QuitStep, TypeOK
  <2>7. ASSUME NEW p \in Pids, Write(p) PROVE QuitStep
    BY <2>7 DEF Write, scripts, children, QuitStep
  <2>8. ASSUME NEW p \in Pids, Exit(p) PROVE QuitStep
    <3>1. running' = running
      BY <2>8 DEF Exit, scripts
    <3>2. ASSUME NEW q \in Pids, Child(q) PROVE status'[q] # "free"
      BY <2>8, <3>2, Ended DEF Child, Exits
    <3> QED
      BY <3>1, <3>2 DEF QuitStep
  <2>9. ASSUME NEW c \in Pids, Copy(c) PROVE QuitStep
    <3>1. running' = running
      BY <2>9, CopyKeepsMain DEF mainState, scripts
    <3>2. ASSUME NEW q \in Pids, Child(q) PROVE status'[q] # "free"
      BY <2>9, <3>2, CopyApart DEF Child
    <3> QED
      BY <3>1, <3>2 DEF QuitStep
  <2> QED
    BY <2>1, <2>2, <2>3, <2>4, <2>5, <2>6, <2>7, <2>8, <2>9 DEF Next, Main
<1> QED
  BY <1>1, InvariantIInv, PTL DEF Spec, QuitMeansNever

-----------------------------------------------------------------------------
(***************************************************************************)
(* The loop implements the bench.                                          *)
(***************************************************************************)

\* What Phase is, without the choice in its definition.
PhaseTable ==
  \A s \in Slots :
    /\ running[s] = -1 => Phase(s) = "disabled"
    /\ running[s] = 0 => Phase(s) = "idle"
    /\ running[s] = 1 => \A p \in Pids : ChildOf(s, p) /\ status[p] \in Exits => Phase(s) = status[p]
    /\ running[s] = 1 /\ (\A p \in Pids : ChildOf(s, p) => status[p] \notin Exits) => Phase(s) = "busy"

LEMMA PhaseTableHolds == IInv => PhaseTable
<1> SUFFICES ASSUME IInv, NEW s \in Slots
             PROVE  /\ running[s] = -1 => Phase(s) = "disabled"
                    /\ running[s] = 0 => Phase(s) = "idle"
                    /\ running[s] = 1 => \A p \in Pids : ChildOf(s, p) /\ status[p] \in Exits => Phase(s) = status[p]
                    /\ running[s] = 1 /\ (\A p \in Pids : ChildOf(s, p) => status[p] \notin Exits) => Phase(s) = "busy"
  BY DEF PhaseTable
<1>1. s # 0
  BY CountAssumption DEF Slots
<1>2. ASSUME NEW p \in Pids, ChildOf(s, p) PROVE p = CHOOSE q \in Pids : ChildOf(s, q)
  BY <1>1, <1>2 DEF IInv, Single, ChildOf
<1>3. ASSUME running[s] = 1, NEW p \in Pids, ChildOf(s, p), status[p] \in Exits
      PROVE  Phase(s) = status[p]
  <2>1. p = CHOOSE q \in Pids : ChildOf(s, q)
    BY <1>2, <1>3
  <2>2. Phase(s) = status[CHOOSE q \in Pids : ChildOf(s, q)]
    BY <1>3 DEF Phase
  <2> QED
    BY <2>1, <2>2
<1>4. running[s] # 1 \/ (\A p \in Pids : ChildOf(s, p) => status[p] \notin Exits)
        => /\ running[s] = -1 => Phase(s) = "disabled"
           /\ running[s] = 0 => Phase(s) = "idle"
           /\ running[s] = 1 => Phase(s) = "busy"
  BY DEF Phase
<1> QED
  BY <1>3, <1>4

LEMMA PhaseTableNext == IInv' => PhaseTable'
BY PhaseTableHolds, PTL

\* A test whose flag and children do not change has the same phase.
LEMMA PhaseSame ==
  ASSUME IInv, IInv', NEW s \in Slots, running'[s] = running[s],
         \A p \in Pids : /\ ChildOf(s, p)' <=> ChildOf(s, p)
                         /\ ChildOf(s, p) => status'[p] = status[p]
  PROVE  Phase(s)' = Phase(s)
<1>1. PhaseTable /\ PhaseTable'
  BY PhaseTableHolds, PhaseTableNext
<1>2. running[s] \in {-1, 0, 1}
  BY DEF IInv, TypeOK
<1> QED
  BY <1>1, <1>2 DEF PhaseTable

LEMMA BenchInitial == Init => Bench!BenchInit
<1> SUFFICES ASSUME Init PROVE Bench!BenchInit
  OBVIOUS
<1>1. \A s \in Slots : Phase(s) = "idle"
  BY DEF Init, Phase
<1> QED
  BY <1>1 DEF Init, Bench!BenchInit

\* A step that moves no test is a stutter of the bench.
LEMMA BenchStutters ==
  ASSUME IInv, IInv', UNCHANGED <<running, last_result, pass_count, fail_count>>,
         \A s \in Slots, p \in Pids : /\ ChildOf(s, p)' <=> ChildOf(s, p)
                                      /\ ChildOf(s, p) => status'[p] = status[p]
  PROVE  Bench!benchVars' = Bench!benchVars
<1>1. \A s \in Slots : Phase(s)' = Phase(s)
  BY PhaseSame
<1> QED
  BY <1>1 DEF Bench!benchVars

\* run_burnin_tests begins a run.
LEMMA LaunchBegins ==
  ASSUME IInv, IInv', "fork" \notin Faults, Launch
  PROVE  \E c \in Slots : Bench!Begin(c)
<1>1. PICK c \in Slots : c = cur /\ c # 0 /\ c \in 0..Count
  BY CountAssumption DEF IInv, TypeOK, Slots
<1>2. PICK ret \in Pids : fork_cmd(0, c, ret)
  BY <1>1, Forked DEF IInv, Launch
<1>3. /\ \A p \in Pids : p # ret => owner'[p] = owner[p] /\ parent'[p] = parent[p] /\ status'[p] = status[p]
      /\ ~Child(ret) /\ owner'[ret] = c /\ status'[ret] \notin Exits
  <2>1. TypeOK
    BY DEF IInv
  <2>2. status'[ret] \notin Exits
    BY <1>2, <2>1, StartedAs DEF fork_cmd, children, Exits, TypeOK
  <2> QED
    BY <1>1, <1>2, <2>1, <2>2, Forked
<1>4. running[c] = 0 /\ running' = [running EXCEPT ![c] = 1]
  BY <1>1 DEF Launch, Idle
<1>5. ASSUME NEW s \in Slots, s # c PROVE Phase(s)' = Phase(s)
  <2>1. running'[s] = running[s]
    BY <1>4, <1>5 DEF IInv, TypeOK
  <2>2. \A p \in Pids : /\ ChildOf(s, p)' <=> ChildOf(s, p)
                        /\ ChildOf(s, p) => status'[p] = status[p]
    BY <1>3, <1>5 DEF ChildOf, Child
  <2> QED
    BY <2>1, <2>2, PhaseSame
<1>6. Phase(c) = "idle"
  BY <1>4, PhaseTableHolds DEF PhaseTable
<1>7. Phase(c)' = "busy"
  <2>1. \A p \in Pids : ~ChildOf(c, p)
    BY <1>1, <1>4 DEF IInv, Claimed, ChildOf
  <2>2. \A p \in Pids : ChildOf(c, p)' => status'[p] \notin Exits
    BY <1>3, <2>1 DEF ChildOf, Child
  <2>3. running'[c] = 1
    BY <1>4 DEF IInv, TypeOK
  <2> QED
    BY <2>2, <2>3, PhaseTableNext DEF PhaseTable
<1>8. [s \in Slots |-> Phase(s)]' = [[s \in Slots |-> Phase(s)] EXCEPT ![c] = "busy"]
  BY <1>5, <1>7
<1> QED
  BY <1>6, <1>8 DEF Launch, Bench!Begin

\* A child that exits finishes the run of its test.
LEMMA ExitFinishes ==
  ASSUME IInv, IInv', NEW p \in Pids, Exit(p)
  PROVE  (\E s \in Slots : Bench!Finish(s)) \/ Bench!benchVars' = Bench!benchVars
<1>0. TypeOK /\ UNCHANGED <<running, last_result, pass_count, fail_count>>
  BY DEF IInv, Exit, scripts
<1>1. ASSUME NEW q \in Pids
      PROVE  /\ Child(q)' <=> Child(q)
             /\ Child(q) => owner'[q] = owner[q]
             /\ Child(q) /\ q # p => status'[q] = status[q]
             /\ Child(q) /\ q = p => status[q] \in {"alive", "clone"} /\ status'[q] \in Exits
  BY <1>0, Ended
<1>2. \A s \in Slots, q \in Pids : ChildOf(s, q)' <=> ChildOf(s, q)
  BY <1>1 DEF ChildOf
<1>3. CASE ~Child(p) \/ owner[p] = 0
  <2>1. \A s \in Slots, q \in Pids : ChildOf(s, q) => q # p
    BY <1>3, CountAssumption DEF ChildOf, Slots
  <2>2. \A s \in Slots, q \in Pids : /\ ChildOf(s, q)' <=> ChildOf(s, q)
                                     /\ ChildOf(s, q) => status'[q] = status[q]
    BY <1>1, <1>2, <2>1 DEF ChildOf
  <2>3. Bench!benchVars' = Bench!benchVars
    BY <1>0, <2>2, BenchStutters
  <2> QED
    BY <2>3
<1>4. CASE Child(p) /\ owner[p] # 0
  <2>0. owner[p] \in Slots
    <3>1. owner[p] \in 0..Count
      BY DEF IInv, TypeOK
    <3> QED
      BY <1>4, <3>1, CountAssumption DEF Slots
  <2>1. PICK s \in Slots : s = owner[p]
    BY <2>0
  <2>2. ChildOf(s, p) /\ ChildOf(s, p)' /\ running[s] = 1 /\ running'[s] = 1
    <3>1. ChildOf(s, p) /\ running[s] = 1
      BY <1>4, <2>1 DEF IInv, Claimed, ChildOf
    <3> QED
      BY <1>0, <1>2, <3>1
  <2>3. \A q \in Pids : ChildOf(s, q) => q = p
    BY <1>4, <2>1, <2>2 DEF IInv, Single, ChildOf
  <2>4. Phase(s) = "busy"
    <3>1. status[p] \notin Exits
      BY <1>1, <1>4 DEF Exits
    <3> QED
      BY <2>2, <2>3, <3>1, PhaseTableHolds DEF PhaseTable
  <2>5. Phase(s)' = status'[p]
    BY <1>1, <1>4, <2>2, PhaseTableNext DEF PhaseTable
  <2>6. ASSUME NEW r \in Slots, r # s PROVE Phase(r)' = Phase(r)
    <3>1. \A q \in Pids : ChildOf(r, q) => status'[q] = status[q]
      BY <1>1, <2>1, <2>6 DEF ChildOf
    <3> QED
      BY <1>0, <1>2, <3>1, PhaseSame
  <2>7. [r \in Slots |-> Phase(r)]' = [[r \in Slots |-> Phase(r)] EXCEPT ![s] = status'[p]]
    BY <2>5, <2>6
  <2>8. Bench!Finish(s)
    BY <1>0, <1>1, <1>4, <2>4, <2>7 DEF Bench!Finish, Bench!Endings, Exits
  <2> QED
    BY <2>8
<1> QED
  BY <1>3, <1>4

\* The step that collects a test's child judges the test by how it exited.
LEMMA ReapJudges ==
  ASSUME IInv, IInv', "fork" \notin Faults, NEW p \in Pids, Reap(p)
  PROVE  \E s \in Slots : Bench!Judge(s)
<1>1. PICK s \in Slots : s = cur /\ s # 0 /\ running[s] = 1 /\ ChildOf(s, p) /\ status[p] \in Exits
  BY CollectOwn
<1>2. /\ \A q \in Pids : q # p => owner'[q] = owner[q] /\ parent'[q] = parent[q] /\ status'[q] = status[q]
      /\ ~Child(p)'
  BY Collected DEF Reap, IInv
<1>3. /\ running' = [running EXCEPT ![s] = RunningAfter(status[p])]
      /\ last_result' = [last_result EXCEPT ![s] = ResultAfter(status[p], @)]
      /\ pass_count' = [pass_count EXCEPT ![s] = IF status[p] \in {"exit_0", "exit_255"} THEN More(@) ELSE @]
      /\ fail_count' = [fail_count EXCEPT ![s] = IF status[p] = "exit_other" THEN More(@) ELSE @]
  BY <1>1 DEF Reap, Judge
<1>4. Phase(s) = status[p]
  BY <1>1, PhaseTableHolds DEF PhaseTable
<1>5. Phase(s)' = IF status[p] \in {"exit_255", "signal"} THEN "disabled" ELSE "idle"
  <2>1. running'[s] = IF status[p] \in {"exit_255", "signal"} THEN -1 ELSE 0
    BY <1>3 DEF RunningAfter, IInv, TypeOK
  <2> QED
    BY <2>1, PhaseTableNext DEF PhaseTable
<1>6. ASSUME NEW r \in Slots, r # s PROVE Phase(r)' = Phase(r)
  <2>1. running'[r] = running[r]
    BY <1>3, <1>6 DEF IInv, TypeOK
  <2>2. \A q \in Pids : /\ ChildOf(r, q)' <=> ChildOf(r, q)
                        /\ ChildOf(r, q) => status'[q] = status[q]
    BY <1>1, <1>2, <1>6 DEF ChildOf, Child
  <2> QED
    BY <2>1, <2>2, PhaseSame
<1>7. [r \in Slots |-> Phase(r)]' =
        [[r \in Slots |-> Phase(r)] EXCEPT
           ![s] = IF status[p] \in {"exit_255", "signal"} THEN "disabled" ELSE "idle"]
  BY <1>5, <1>6
<1>8. CASE status[p] \in {"exit_0", "exit_255"}
  <2>1. /\ last_result' = [last_result EXCEPT ![s] = 0]
        /\ pass_count' = [pass_count EXCEPT ![s] = More(@)]
        /\ fail_count' = fail_count
    BY <1>3, <1>8 DEF ResultAfter, IInv, TypeOK
  <2> QED
    BY <1>4, <1>7, <1>8, <2>1 DEF Bench!Judge, Bench!JudgePass, Bench!More, More
<1>9. CASE status[p] = "exit_other"
  <2>1. /\ last_result' = [last_result EXCEPT ![s] = 1]
        /\ fail_count' = [fail_count EXCEPT ![s] = More(@)]
        /\ pass_count' = pass_count
    BY <1>3, <1>9 DEF ResultAfter, IInv, TypeOK
  <2> QED
    BY <1>4, <1>7, <1>9, <2>1 DEF Bench!Judge, Bench!JudgeFail, Bench!More, More
<1>10. CASE status[p] = "signal"
  <2>1. UNCHANGED <<last_result, pass_count, fail_count>>
    BY <1>3, <1>10 DEF ResultAfter, IInv, TypeOK
  <2> QED
    BY <1>4, <1>7, <1>10, <2>1 DEF Bench!Judge, Bench!JudgeKilled
<1> QED
  BY <1>1, <1>8, <1>9, <1>10 DEF Exits

\* As long as fork succeeds, the loop does what a test bench promises: every run
\* of a test is judged once, by the status of its own child.
THEOREM LoopImplementsBench == ASSUME "fork" \notin Faults PROVE Spec => ImplementsBench
<1>1. IInv /\ IInv' /\ [Next]_vars => [Bench!BenchNext]_(Bench!benchVars)
  <2> SUFFICES ASSUME IInv, IInv', [Next]_vars
               PROVE  Bench!BenchNext \/ Bench!benchVars' = Bench!benchVars
    OBVIOUS
  <2>1. CASE Launch
    BY <2>1, LaunchBegins DEF Bench!BenchNext
  <2>2. CASE SkipLaunch \/ SkipPoll \/ ReadLine \/ Drained \/ WaitPending \/ UNCHANGED vars
    <3>1. UNCHANGED <<running, last_result, pass_count, fail_count, owner, parent, status>>
      BY <2>2 DEF SkipLaunch, SkipPoll, ReadLine, Drained, WaitPending, vars, scripts, kernel, children
    <3>2. \A s \in Slots, p \in Pids : /\ ChildOf(s, p)' <=> ChildOf(s, p)
                                       /\ ChildOf(s, p) => status'[p] = status[p]
      BY <3>1 DEF ChildOf, Child
    <3> QED
      BY <3>1, <3>2, BenchStutters
  <2>3. CASE WaitNoChild
    \* Without a failed fork this step is not taken.
    BY <2>3 DEF WaitNoChild, Waitable, WaitableBy, IInv, OwnChild, AtWait, TypeOK, ChildOf, Child
  <2>4. ASSUME NEW p \in Pids, Reap(p) PROVE Bench!BenchNext
    BY <2>4, ReapJudges DEF Bench!BenchNext
  <2>5. ASSUME NEW t \in DumpThreads, PressF3(t) PROVE Bench!benchVars' = Bench!benchVars
    <3>1. PICK ret : fork_cmd(0, 0, ret)
      BY <2>5 DEF PressF3
    <3>2. /\ \A p \in Pids : p # ret => owner'[p] = owner[p] /\ parent'[p] = parent[p] /\ status'[p] = status[p]
          /\ ret \in Pids => ~Child(ret) /\ owner'[ret] = 0
      BY <3>1, Forked, CountAssumption DEF IInv
    <3>3. \A s \in Slots, p \in Pids : /\ ChildOf(s, p)' <=> ChildOf(s, p)
                                       /\ ChildOf(s, p) => status'[p] = status[p]
      BY <3>2, CountAssumption DEF ChildOf, Child, Slots
    <3>4. UNCHANGED <<running, last_result, pass_count, fail_count>>
      BY <2>5 DEF PressF3, scripts
    <3> QED
      BY <3>3, <3>4, BenchStutters
  <2>6. ASSUME NEW t \in DumpThreads, DumpWait(t) PROVE Bench!benchVars' = Bench!benchVars
    <3>1. dump[t] \in Pids /\ ChildOf(0, dump[t]) /\ Waitable(dump[t]) # {}
      BY <2>6 DEF children, DumpWait, IInv, OwnChild, Waitable, WaitableBy, ChildOf, Child
    <3>2. Collect(dump[t])
      BY <2>6, <3>1, WaitableOwn DEF children, DumpWait
    <3>3. /\ \A q \in Pids : q # dump[t] => owner'[q] = owner[q] /\ parent'[q] = parent[q] /\ status'[q] = status[q]
          /\ ~(status'[dump[t]] # "free")
      BY <3>1, <3>2 DEF Collect, IInv, TypeOK
    <3>4. \A s \in Slots, p \in Pids : /\ ChildOf(s, p)' <=> ChildOf(s, p)
                                       /\ ChildOf(s, p) => status'[p] = status[p]
      BY <3>1, <3>3, CountAssumption DEF ChildOf, Child, Slots
    <3>5. UNCHANGED <<running, last_result, pass_count, fail_count>>
      BY <2>6 DEF children, DumpWait, scripts
    <3> QED
      BY <3>4, <3>5, BenchStutters
  <2>7. ASSUME NEW p \in Pids, Write(p) PROVE Bench!benchVars' = Bench!benchVars
    <3>1. UNCHANGED <<running, last_result, pass_count, fail_count, owner, parent, status>>
      BY <2>7 DEF children, Write, scripts
    <3>2. \A s \in Slots, q \in Pids : /\ ChildOf(s, q)' <=> ChildOf(s, q)
                                       /\ ChildOf(s, q) => status'[q] = status[q]
      BY <3>1 DEF ChildOf, Child
    <3> QED
      BY <3>1, <3>2, BenchStutters
  <2>8. ASSUME NEW p \in Pids, Exit(p) PROVE Bench!BenchNext \/ Bench!benchVars' = Bench!benchVars
    BY <2>8, ExitFinishes DEF Bench!BenchNext
  <2>9. ASSUME NEW c \in Pids, Copy(c) PROVE Bench!benchVars' = Bench!benchVars
    <3>0. TypeOK /\ UNCHANGED <<running, last_result, pass_count, fail_count>>
      BY <2>9, CopyKeepsMain DEF IInv, mainState, scripts
    <3>1. ASSUME NEW p \in Pids
          PROVE  /\ Child(p)' <=> Child(p)
                 /\ Child(p) => owner'[p] = owner[p] /\ status'[p] = status[p]
      BY <2>9, <3>0, CopyApart
    <3>2. \A s \in Slots, p \in Pids : /\ ChildOf(s, p)' <=> ChildOf(s, p)
                                       /\ ChildOf(s, p) => status'[p] = status[p]
      BY <3>1 DEF ChildOf
    <3> QED
      BY <3>0, <3>2, BenchStutters
  <2> QED
    BY <2>1, <2>2, <2>3, <2>4, <2>5, <2>6, <2>7, <2>8, <2>9 DEF Next, Main
<1> QED
  BY <1>1, BenchInitial, InvariantIInv, PTL DEF Spec, ImplementsBench, Bench!BenchSafety
=============================================================================
