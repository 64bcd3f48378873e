--------------------------- MODULE DumpLogProofs ---------------------------
(***************************************************************************)
(* Proofs about DumpLog for any number of scripts, of partitions and of    *)
(* mounts.                                                                 *)
(***************************************************************************)
EXTENDS DumpLog, TLAPS

-----------------------------------------------------------------------------
LEMMA LastMount ==
  ASSUME NEW S, NEW stack \in Seq(S), stack # <<>>
  PROVE  /\ Last(stack) \in S
         /\ Len(stack) \in DOMAIN stack /\ Last(stack) = stack[Len(stack)]
BY DEF Last

LEMMA FrontMounts ==
  ASSUME NEW S, NEW stack \in Seq(S), stack # <<>>
  PROVE  /\ Front(stack) \in Seq(S)
         /\ DOMAIN Front(stack) \subseteq DOMAIN stack
         /\ \A n \in DOMAIN Front(stack) : Front(stack)[n] = stack[n] /\ n # Len(stack)
         /\ Len(stack) = 1 => Front(stack) = <<>>
<1>1. Len(stack) \in Nat \ {0} /\ DOMAIN stack = 1..Len(stack)
  OBVIOUS
<1>2. Front(stack) = [n \in 1..(Len(stack) - 1) |-> stack[n]]
  BY <1>1 DEF Front
<1>3. Front(stack) \in Seq(S)
  BY <1>1, <1>2
<1>4. Len(stack) = 1 => Front(stack) = <<>>
  BY <1>2
<1> QED
  BY <1>1, <1>2, <1>3, <1>4

LEMMA PushMount ==
  ASSUME NEW S, NEW stack \in Seq(S), NEW p \in S
  PROVE  /\ Append(stack, p) # <<>> /\ Last(Append(stack, p)) = p
         /\ Len(Append(stack, p)) = Len(stack) + 1
         /\ \A n \in DOMAIN Append(stack, p) :
              \/ n = Len(stack) + 1 /\ Append(stack, p)[n] = p
              \/ n \in DOMAIN stack /\ Append(stack, p)[n] = stack[n]
<1>1. DOMAIN Append(stack, p) = 1..(Len(stack) + 1)
  OBVIOUS
<1>2. Len(Append(stack, p)) = Len(stack) + 1 /\ Append(stack, p)[Len(stack) + 1] = p
  OBVIOUS
<1>3. Append(stack, p) # <<>> /\ Last(Append(stack, p)) = p
  BY <1>2 DEF Last
<1>4. ASSUME NEW n \in 1..(Len(stack) + 1), n # Len(stack) + 1
      PROVE  n \in DOMAIN stack /\ Append(stack, p)[n] = stack[n]
  BY <1>4
<1> QED
  BY <1>1, <1>2, <1>3, <1>4

LEMMA Turn ==
  ASSUME TypeOK, NEW s \in Scripts, NextTurn(s)
  PROVE  /\ pc' \in [Scripts -> Steps] /\ at' \in [Scripts -> Partitions]
         /\ pc'[s] \in {"loop", "ended"}
         /\ \A t \in Scripts \ {s} : pc'[t] = pc[t] /\ at'[t] = at[t]
<1> USE PartsAssumption DEF TypeOK, NextTurn, Goto, Partitions, Steps
<1>1. CASE at[s] < Parts
  <2>1. at[s] + 1 \in 1..Parts
    BY <1>1
  <2> QED
    BY <1>1, <2>1
<1>2. CASE ~(at[s] < Parts)
  BY <1>2
<1> QED
  BY <1>1, <1>2

LEMMA InitTypeOK == Init => TypeOK
<1>1. 1 \in Partitions
  BY PartsAssumption DEF Partitions
<1>2. <<>> \in Seq(Partitions)
  OBVIOUS
<1>3. {"own"} \in SUBSET Contents
  BY DEF Contents
<1> QED
  BY <1>1, <1>2, <1>3 DEF Init, TypeOK, Steps

LEMMA NextTypeOK == TypeOK /\ [Next]_vars => TypeOK'
<1> SUFFICES ASSUME TypeOK, [Next]_vars PROVE TypeOK'
  OBVIOUS
<1> USE DEF TypeOK, history
<1>1. ASSUME NEW s \in Scripts, PressF3(s) PROVE TypeOK'
  BY <1>1, PartsAssumption DEF PressF3, Goto, Steps, Partitions
<1>2. ASSUME NEW s \in Scripts, Loop(s) PROVE TypeOK'
  BY <1>2, Turn DEF Loop, Goto, Steps
<1>3. ASSUME NEW s \in Scripts, Mkdir(s) PROVE TypeOK'
  BY <1>3 DEF Mkdir, Goto, Steps
<1>4. ASSUME NEW s \in Scripts, Mount(s) PROVE TypeOK'
  BY <1>4 DEF Mount, Goto, Steps
<1>5. ASSUME NEW s \in Scripts, RemoveAfterError(s) PROVE TypeOK'
  BY <1>5, Turn DEF RemoveAfterError, RemoveTree
<1>6. ASSUME NEW s \in Scripts, WriteHead(s) PROVE TypeOK'
  <2>1. files' \in [Partitions -> SUBSET Contents]
    BY <1>6 DEF WriteHead, Holds, Contents
  <2>2. unsaved' \in [Scripts -> BOOLEAN]
    BY <1>6 DEF WriteHead, Saved, NotSaved
  <2>3. pc' \in [Scripts -> Steps]
    BY <1>6 DEF WriteHead, Goto, Steps
  <2> QED
    BY <1>6, <2>1, <2>2, <2>3 DEF WriteHead
<1>7. ASSUME NEW s \in Scripts, WriteTail(s) PROVE TypeOK'
  BY <1>7 DEF WriteTail, Holds, NotSaved, Goto, Steps, Contents
<1>8. ASSUME NEW s \in Scripts, Umount(s) PROVE TypeOK'
  <2>1. mounts' \in Seq(Partitions)
    BY <1>8, FrontMounts DEF Umount, Unmounts
  <2>2. stuck' \subseteq Partitions
    BY <1>8, LastMount DEF Umount, Unmounts, OnTop
  <2> QED
    BY <1>8, <2>1, <2>2 DEF Umount, Goto, Steps
<1>9. ASSUME NEW s \in Scripts, RemoveDir(s) PROVE TypeOK'
  BY <1>9 DEF RemoveDir, RemoveTree, Goto, Steps
<1>10. ASSUME NEW s \in Scripts, Tell(s) PROVE TypeOK'
  BY <1>10 DEF Tell, Goto, Steps
<1>11. CASE UNCHANGED vars
  BY <1>11 DEF vars, history
<1> QED
  BY <1>1, <1>2, <1>3, <1>4, <1>5, <1>6, <1>7, <1>8, <1>9, <1>10, <1>11 DEF Next, Run

\* No script ever tries a partition that is not there, and the stack of mounts
\* holds partitions only (the loop of dumplog.sh).
THEOREM DumpLogTypeCorrect == Spec => []TypeOK
BY InitTypeOK, NextTypeOK, PTL DEF Spec

-----------------------------------------------------------------------------
\* Only what is on a USB device is ever mounted, or about to be.
OnlyUsbMounted ==
  /\ \A n \in DOMAIN mounts : Usb(mounts[n])
  /\ \A s \in Scripts : pc[s] \in {"mkdir", "mount"} => Usb(at[s])

FixedInv == OnlyUsbMounted /\ FixedUntouched

LEMMA InitFixed == Init => FixedInv
BY DEF Init, FixedInv, OnlyUsbMounted, FixedUntouched, Partitions

LEMMA TopIsUsb ==
  ASSUME TypeOK, OnlyUsbMounted PROVE \A p \in OnTop : Usb(p)
BY LastMount DEF TypeOK, OnlyUsbMounted, OnTop

LEMMA NextFixed == TypeOK /\ FixedInv /\ [Next]_vars => FixedInv'
<1> SUFFICES ASSUME TypeOK, FixedInv, [Next]_vars PROVE FixedInv'
  OBVIOUS
<1> USE DEF FixedInv, OnlyUsbMounted, FixedUntouched, Usb, history
<1>1. ASSUME NEW s \in Scripts, PressF3(s) PROVE FixedInv'
  BY <1>1 DEF PressF3, Goto, TypeOK
<1>2. ASSUME NEW s \in Scripts, Loop(s) PROVE FixedInv'
  BY <1>2, Turn DEF Loop, Goto, TypeOK
<1>3. ASSUME NEW s \in Scripts, Mkdir(s) PROVE FixedInv'
  BY <1>3 DEF Mkdir, Goto, TypeOK
<1>4. ASSUME NEW s \in Scripts, Mount(s) PROVE FixedInv'
  <2>1. \A n \in DOMAIN mounts' : Usb(mounts'[n])
    <3>1. at[s] \in Partitions /\ Usb(at[s])
      BY <1>4 DEF Mount, TypeOK
    <3>2. CASE mounts' = Append(mounts, at[s])
      BY <3>1, <3>2, PushMount DEF TypeOK
    <3>3. CASE mounts' = mounts
      BY <3>3
    <3> QED
      BY <1>4, <3>2, <3>3 DEF Mount
  <2> QED
    BY <1>4, <2>1 DEF Mount, Goto, TypeOK
<1>5. ASSUME NEW s \in Scripts, RemoveAfterError(s) PROVE FixedInv'
  BY <1>5, Turn, TopIsUsb DEF RemoveAfterError, RemoveTree, TypeOK
<1>6. ASSUME NEW s \in Scripts, WriteHead(s) PROVE FixedInv'
  BY <1>6, TopIsUsb DEF WriteHead, Holds, Goto, TypeOK
<1>7. ASSUME NEW s \in Scripts, WriteTail(s) PROVE FixedInv'
  BY <1>7, TopIsUsb DEF WriteTail, Holds, Goto, TypeOK
<1>8. ASSUME NEW s \in Scripts, Umount(s) PROVE FixedInv'
  BY <1>8, FrontMounts DEF Umount, Unmounts, Goto, TypeOK
<1>9. ASSUME NEW s \in Scripts, RemoveDir(s) PROVE FixedInv'
  BY <1>9, TopIsUsb DEF RemoveDir, RemoveTree, Goto, TypeOK
<1>10. ASSUME NEW s \in Scripts, Tell(s) PROVE FixedInv'
  BY <1>10 DEF Tell, Goto, TypeOK
<1>11. CASE UNCHANGED vars
  BY <1>11 DEF vars, history
<1> QED
  BY <1>1, <1>2, <1>3, <1>4, <1>5, <1>6, <1>7, <1>8, <1>9, <1>10, <1>11 DEF Next, Run

\* However many scripts meet on the mount point, and in whatever order they
\* mount, write, unmount and remove there, no fixed disk loses or gains a file
\* (dumplog.sh asks for usb in the path of the device first).
THEOREM FixedNeverTouched == Spec => []FixedUntouched
<1>1. FixedInv => FixedUntouched
  BY DEF FixedInv
<1> QED
  BY InitTypeOK, NextTypeOK, InitFixed, NextFixed, <1>1, PTL DEF Spec

-----------------------------------------------------------------------------
\* While no two scripts meet: the mount point is used by the one that runs, who
\* has its own partition on top from mount to umount; everything else on the
\* stack was left there by an umount that failed.  A partition that was not left
\* there has its owner's files, and what the script has written to it.
Using(s) == pc[s] \in {"head", "tail", "umount"}

Written(s, part) == ~unsaved[s] /\ at[s] \notin stuck => part \in files[at[s]]

Stack ==
  /\ \A s \in Scripts : Using(s) => mounts # <<>> /\ Last(mounts) = at[s]
  /\ \A n \in DOMAIN mounts : mounts[n] \in stuck \/ (n = Len(mounts) /\ \E s \in Scripts : Using(s))

AloneInv ==
  ~met =>
    /\ \A s, t \in Scripts : pc[s] # "ended" /\ pc[t] # "ended" => s = t
    /\ Stack
    /\ \A p \in Partitions \ stuck : "own" \in files[p]
    /\ \A s \in Scripts : pc[s] \in {"tail", "umount", "rm", "tell"} => Written(s, "head")
    /\ \A s \in Scripts : pc[s] \in {"umount", "rm", "tell"} => Written(s, "tail")

LEMMA InitAlone == Init => AloneInv
BY DEF Init, AloneInv, Stack, Using

\* Between two uses only partitions that were left mounted can be on top.
LEMMA TopIsStuck ==
  ASSUME TypeOK, Stack, \A s \in Scripts : ~Using(s) PROVE OnTop \subseteq stuck
BY LastMount DEF TypeOK, Stack, OnTop

LEMMA TopIsOwn ==
  ASSUME Stack, NEW s \in Scripts, Using(s) PROVE OnTop = {at[s]}
BY DEF Stack, OnTop

LEMMA NextAlone == TypeOK /\ AloneInv /\ [Next]_vars => AloneInv'
<1> SUFFICES ASSUME TypeOK, AloneInv, [Next]_vars, ~met' PROVE AloneInv'
  BY DEF AloneInv
<1>0. ~met
  BY DEF Next, Run, PressF3, Loop, Mkdir, Mount, RemoveAfterError, WriteHead, WriteTail, Umount,
         RemoveDir, Tell, vars, history
<1> USE DEF history
<1>a. Stack /\ \A s, t \in Scripts : pc[s] # "ended" /\ pc[t] # "ended" => s = t
  BY <1>0 DEF AloneInv
\* The other scripts have ended, and a step of s touches only what is its own.
<1>1. ASSUME NEW s \in Scripts, PressF3(s) PROVE AloneInv'
  BY <1>0, <1>1 DEF PressF3, Goto, TypeOK, AloneInv, Stack, Using, Written
<1>2. ASSUME NEW s \in Scripts, Loop(s) PROVE AloneInv'
  BY <1>0, <1>2, Turn DEF Loop, Goto, TypeOK, AloneInv, Stack, Using, Written
<1>3. ASSUME NEW s \in Scripts, Mkdir(s) PROVE AloneInv'
  BY <1>0, <1>3 DEF Mkdir, Goto, TypeOK, AloneInv, Stack, Using, Written
<1>4. ASSUME NEW s \in Scripts, Mount(s) PROVE AloneInv'
  <2>1. pc[s] = "mount" /\ \A t \in Scripts : ~Using(t)
    BY <1>a, <1>4 DEF Mount, Using
  <2>2. \A n \in DOMAIN mounts : mounts[n] \in stuck
    BY <1>a, <2>1 DEF Stack
  <2>3. pc' = [pc EXCEPT ![s] = "head"] \/ pc' = [pc EXCEPT ![s] = "rm_error"]
    BY <1>4 DEF Mount, Goto
  <2>4. Stack'
    <3>1. CASE mounts' = Append(mounts, at[s]) /\ pc' = [pc EXCEPT ![s] = "head"]
      <4>1. /\ mounts' # <<>> /\ Last(mounts') = at[s] /\ Len(mounts') = Len(mounts) + 1
            /\ \A n \in DOMAIN mounts' : n = Len(mounts') \/ (n \in DOMAIN mounts /\ mounts'[n] = mounts[n])
        BY <3>1, PushMount DEF TypeOK
      <4>2. pc'[s] = "head" /\ \A t \in Scripts \ {s} : pc'[t] = pc[t]
        BY <3>1 DEF TypeOK
      <4> QED
        BY <1>4, <2>1, <2>2, <4>1, <4>2 DEF Mount, Stack, Using
    <3>2. CASE mounts' = mounts /\ pc' = [pc EXCEPT ![s] = "rm_error"]
      BY <1>4, <2>1, <2>2, <3>2 DEF Mount, Stack, Using, TypeOK
    <3> QED
      BY <1>4, <3>1, <3>2 DEF Mount, Goto
  <2> QED
    BY <1>0, <1>4, <2>3, <2>4 DEF Mount, TypeOK, AloneInv, Written
<1>5. ASSUME NEW s \in Scripts, RemoveAfterError(s) PROVE AloneInv'
  <2>1. \A t \in Scripts : ~Using(t) /\ ~Using(t)'
    BY <1>a, <1>5, Turn DEF RemoveAfterError, Using
  <2>2. OnTop \subseteq stuck
    BY <1>a, <2>1, TopIsStuck
  <2>3. Stack'
    BY <1>a, <1>5, <2>1 DEF RemoveAfterError, Stack
  <2> QED
    BY <1>0, <1>5, <2>2, <2>3, Turn DEF RemoveAfterError, RemoveTree, TypeOK, AloneInv, Written
<1>6. ASSUME NEW s \in Scripts, WriteHead(s) PROVE AloneInv'
  <2>1. pc[s] = "head" /\ pc' = [pc EXCEPT ![s] = "tail"] /\ Using(s)
    BY <1>6 DEF WriteHead, Goto, Using
  <2>2. OnTop = {at[s]}
    BY <1>a, <2>1, TopIsOwn
  <2>3. Stack'
    BY <1>a, <1>6, <2>1 DEF WriteHead, Stack, Using, TypeOK
  <2>4. \A p \in Partitions : "own" \in files[p] => "own" \in files'[p]
    BY <1>6 DEF WriteHead, Holds, TypeOK
  <2>5. Written(s, "head")'
    BY <1>6, <2>2 DEF WriteHead, Holds, Saved, NotSaved, Written, TypeOK
  <2> QED
    BY <1>0, <1>6, <2>1, <2>3, <2>4, <2>5 DEF WriteHead, TypeOK, AloneInv
<1>7. ASSUME NEW s \in Scripts, WriteTail(s) PROVE AloneInv'
  <2>1. pc[s] = "tail" /\ pc' = [pc EXCEPT ![s] = "umount"] /\ Using(s)
    BY <1>7 DEF WriteTail, Goto, Using
  <2>2. OnTop = {at[s]}
    BY <1>a, <2>1, TopIsOwn
  <2>3. Stack'
    BY <1>a, <1>7, <2>1 DEF WriteTail, Stack, Using, TypeOK
  <2>4. \A p \in Partitions : files[p] \subseteq files'[p]
    BY <1>7 DEF WriteTail, Holds, TypeOK
  <2>5. Written(s, "tail")'
    BY <1>7, <2>2 DEF WriteTail, Holds, NotSaved, Written, TypeOK
  <2>6. Written(s, "head")'
    BY <1>0, <1>7, <2>1, <2>4 DEF WriteTail, NotSaved, Written, AloneInv, TypeOK
  <2> QED
    BY <1>0, <1>7, <2>1, <2>3, <2>4, <2>5, <2>6 DEF WriteTail, TypeOK, AloneInv
<1>8. ASSUME NEW s \in Scripts, Umount(s) PROVE AloneInv'
  <2>1. pc[s] = "umount" /\ pc' = [pc EXCEPT ![s] = "rm"] /\ Using(s) /\ stuck \subseteq stuck'
    BY <1>8 DEF Umount, Unmounts, Goto, Using
  <2>2. \A t \in Scripts : ~Using(t)'
    BY <1>a, <2>1 DEF Using, TypeOK
  <2>3. \A n \in DOMAIN mounts' : mounts'[n] \in stuck'
    <3>1. mounts # <<>> /\ \A n \in DOMAIN mounts : mounts[n] \in stuck \/ n = Len(mounts)
      BY <1>a, <2>1 DEF Stack
    <3>2. CASE mounts' = Front(mounts)
      BY <2>1, <3>1, <3>2, FrontMounts DEF TypeOK
    <3>3. CASE mounts' = mounts /\ stuck' = stuck \cup OnTop
      BY <3>1, <3>3, LastMount DEF TypeOK, OnTop
    <3> QED
      BY <1>8, <3>1, <3>2, <3>3 DEF Umount, Unmounts
  <2> QED
    BY <1>0, <1>8, <2>1, <2>2, <2>3 DEF Umount, TypeOK, AloneInv, Stack, Written
<1>9. ASSUME NEW s \in Scripts, RemoveDir(s) PROVE AloneInv'
  <2>1. pc[s] = "rm" /\ pc' = [pc EXCEPT ![s] = "tell"]
    BY <1>9 DEF RemoveDir, Goto
  <2>2. \A t \in Scripts : ~Using(t) /\ ~Using(t)'
    BY <1>a, <2>1 DEF Using, TypeOK
  <2>3. OnTop \subseteq stuck
    BY <1>a, <2>2, TopIsStuck
  <2>4. \A p \in Partitions \ stuck : files'[p] = files[p]
    BY <1>9, <2>3 DEF RemoveDir, RemoveTree
  <2>5. Stack'
    BY <1>a, <1>9, <2>2 DEF RemoveDir, Stack
  <2> QED
    BY <1>0, <1>9, <2>1, <2>4, <2>5 DEF RemoveDir, TypeOK, AloneInv, Written
<1>10. ASSUME NEW s \in Scripts, Tell(s) PROVE AloneInv'
  BY <1>0, <1>10 DEF Tell, Goto, TypeOK, AloneInv, Stack, Using, Written
<1>11. CASE UNCHANGED vars
  BY <1>11 DEF vars, AloneInv, Stack, Using, Written
<1> QED
  BY <1>1, <1>2, <1>3, <1>4, <1>5, <1>6, <1>7, <1>8, <1>9, <1>10, <1>11 DEF Next, Run

\* As long as no two scripts meet, a device loses its owner's files only when an
\* umount has failed on that device, whatever fails to be written or mounted
\* (dumplog.sh removes /var/snapshot with what is under it).
THEOREM OwnFilesAlwaysKept == Spec => []OwnFilesKept
<1>1. AloneInv => OwnFilesKept
  BY DEF AloneInv, OwnFilesKept
<1> QED
  BY InitTypeOK, NextTypeOK, InitAlone, NextAlone, <1>1, PTL DEF Spec

\* ... and a script that says "safe to remove USB device." has left the whole
\* dump on a device that is not mounted, unless one of its own writes failed, or
\* an umount of its device.
THEOREM SafeWhenAlone == Spec => []SafeAlone
<1>1. TypeOK /\ AloneInv => SafeAlone
  <2> SUFFICES ASSUME TypeOK, AloneInv, ~met, NEW s \in Scripts,
                      pc[s] = "tell", ~unsaved[s], at[s] \notin stuck
               PROVE  ToldTruth(s)
    BY DEF SafeAlone
  <2>1. \A t \in Scripts : ~Using(t)
    BY DEF AloneInv, Using
  <2>2. at[s] \notin ToSet(mounts)
    BY <2>1 DEF AloneInv, Stack, ToSet
  <2> QED
    BY <2>2 DEF AloneInv, Written, ToldTruth
<1> QED
  BY InitTypeOK, NextTypeOK, InitAlone, NextAlone, <1>1, PTL DEF Spec
=============================================================================
