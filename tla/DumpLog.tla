------------------------------ MODULE DumpLog ------------------------------
(***************************************************************************)
(* scripts/dumplog.sh, which copies the logs to a USB device.  Each press  *)
(* of F3 starts one (dump_log in breakin.c), and nothing keeps two of them *)
(* apart: they share the mount point /var/snapshot, where one may mount    *)
(* over what another has mounted.  The kernel's part is a stack of mounts. *)
(*                                                                         *)
(* breakin.dmp has two parts here: what the first redirection writes, and  *)
(* what is appended.  One step removes a tree, or writes one part.  The    *)
(* script looks at the result of mount alone: a write or an umount that    *)
(* fails is not noticed.                                                   *)
(***************************************************************************)
EXTENDS Naturals, Sequences, SequencesExt

CONSTANTS
  Scripts,  \* how many dumplog.sh may run at a time
  Parts,    \* number of partitions
  MaxLeft,  \* bound: F3 is not pressed with as many mounts on the stack
  Faults    \* what may fail for a script that runs alone too

ASSUME PartsAssumption == Parts \in Nat \ {0} /\ MaxLeft \in Nat
ASSUME FaultsAssumption == Faults \subseteq {"write", "umount"}

VARIABLES
  kind,    \* of a partition: "usb", "blank" (no file system) or "fixed" (not USB)
  pc,      \* of a script; "ended" when there is none
  at,      \* the partition of the loop's present turn, DEV_NAME
  mounts,  \* what is mounted on /var/snapshot, the last on top
  dir,     \* /var/snapshot exists
  files,   \* on a partition: the owner's files and the parts of breakin.dmp
  met,     \* history: two scripts have run at the same time
  unsaved, \* history: a write of the script's present turn has failed
  stuck    \* history: the partitions that an umount did not take away

history == <<met, unsaved, stuck>>
vars == <<kind, pc, at, mounts, dir, files, history>>

Partitions == 1..Parts
Kinds == {"usb", "blank", "fixed"}
Contents == {"own", "head", "tail"}
Steps == {"ended", "loop", "mkdir", "mount", "rm_error", "head", "tail", "umount", "rm", "tell"}

Init ==
  /\ kind \in [Partitions -> Kinds]
  /\ pc = [s \in Scripts |-> "ended"]
  /\ at = [s \in Scripts |-> 1]
  /\ mounts = <<>>
  /\ dir = FALSE
  /\ files = [p \in Partitions |-> {"own"}]
  /\ met = FALSE
  /\ unsaved = [s \in Scripts |-> FALSE]
  /\ stuck = {}

Goto(s, step) == pc' = [pc EXCEPT ![s] = step]

\* Mutant: one partition too many.
OneTurnMore(s) ==
  IF at[s] <= Parts THEN at' = [at EXCEPT ![s] = @ + 1] /\ Goto(s, "loop")
                    ELSE UNCHANGED at /\ Goto(s, "ended")

\* The next partition, or "No USB device found."
NextTurn(s) ==
  IF at[s] < Parts THEN at' = [at EXCEPT ![s] = @ + 1] /\ Goto(s, "loop")
                   ELSE UNCHANGED at /\ Goto(s, "ended")

PressF3(s) ==
  /\ pc[s] = "ended" /\ Len(mounts) < MaxLeft
  /\ at' = [at EXCEPT ![s] = 1]
  /\ Goto(s, "loop")
  /\ met' = (met \/ \E t \in Scripts : pc[t] # "ended")
  /\ UNCHANGED <<kind, mounts, dir, files, unsaved, stuck>>

\* Mutant: fixed disks are tried too.
AnyDisk(p) == TRUE

Usb(p) == kind[p] # "fixed"

Loop(s) ==
  /\ pc[s] = "loop"
  /\ IF Usb(at[s]) THEN Goto(s, "mkdir") /\ UNCHANGED at ELSE NextTurn(s)
  /\ UNCHANGED <<history, kind, mounts, dir, files>>

Mkdir(s) ==
  /\ pc[s] = "mkdir"
  /\ dir' = TRUE
  /\ Goto(s, "mount")
  /\ UNCHANGED <<history, kind, at, mounts, files>>

\* mount refuses a device that is on top already and one without a file system.
CanMount(p) == dir /\ kind[p] # "blank" /\ (mounts = <<>> \/ Last(mounts) # p)

\* Mutant: the result of mount is not looked at.
MountUnchecked(s) ==
  /\ pc[s] = "mount"
  /\ mounts' = IF CanMount(at[s]) THEN Append(mounts, at[s]) ELSE mounts
  /\ Goto(s, "head")
  /\ UNCHANGED <<history, kind, at, dir, files>>

Mount(s) ==
  /\ pc[s] = "mount"
  /\ IF CanMount(at[s]) THEN mounts' = Append(mounts, at[s]) /\ Goto(s, "head")
                        ELSE UNCHANGED mounts /\ Goto(s, "rm_error")
  /\ UNCHANGED <<history, kind, at, dir, files>>

\* Every name under /var/snapshot is one of the partition on top, if any; the
\* directory itself cannot be removed while something is mounted on it.
OnTop == IF mounts = <<>> THEN {} ELSE {Last(mounts)}

RemoveTree ==
  /\ files' = [p \in Partitions |-> IF p \in OnTop THEN {} ELSE files[p]]
  /\ dir' = (mounts # <<>>)

\* "Mount error for found USB device."
RemoveAfterError(s) ==
  /\ pc[s] = "rm_error"
  /\ RemoveTree
  /\ NextTurn(s)
  /\ UNCHANGED <<history, kind, mounts>>

\* The partition on top has now these contents.
Holds(contents) ==
  files' = [p \in Partitions |-> IF p \in OnTop THEN contents[p] ELSE files[p]]

\* A write of script s succeeds, or fails unnoticed.
Saved(s) == unsaved' = [unsaved EXCEPT ![s] = FALSE]
NotSaved(s) == "write" \in Faults /\ unsaved' = [unsaved EXCEPT ![s] = TRUE]

\* echo ... > /var/snapshot/breakin.dmp: on a full device the file is left
\* empty, on a device mounted read-only it cannot be opened.
WriteHead(s) ==
  /\ pc[s] = "head"
  /\ \/ Saved(s) /\ Holds([p \in Partitions |-> (files[p] \ {"tail"}) \cup {"head"}])
     \/ NotSaved(s) /\ Holds([p \in Partitions |-> files[p] \ {"head", "tail"}])
     \/ NotSaved(s) /\ UNCHANGED files
  /\ Goto(s, "tail")
  /\ UNCHANGED <<kind, at, mounts, dir, met, stuck>>

\* ... >> /var/snapshot/breakin.dmp, and sync
WriteTail(s) ==
  /\ pc[s] = "tail"
  /\ \/ UNCHANGED unsaved /\ Holds([p \in Partitions |-> files[p] \cup {"tail"}])
     \/ NotSaved(s) /\ UNCHANGED files
  /\ Goto(s, "umount")
  /\ UNCHANGED <<kind, at, mounts, dir, met, stuck>>

\* umount takes the top away, if anything is mounted.  It fails while a file is
\* open there, by another script or by someone else.
Unmounts(s) ==
  \/ /\ mounts' = IF mounts = <<>> THEN <<>> ELSE Front(mounts)
     /\ UNCHANGED stuck
  \/ /\ mounts # <<>>
     /\ "umount" \in Faults \/ \E t \in Scripts \ {s} : pc[t] \in {"head", "tail"}
     /\ stuck' = stuck \cup OnTop
     /\ UNCHANGED mounts

\* Mutant: the tree is removed before umount.
UmountTooLate(s) ==
  /\ pc[s] = "umount"
  /\ Goto(s, "rm")
  /\ UNCHANGED <<history, kind, at, mounts, dir, files>>

Umount(s) ==
  /\ pc[s] = "umount"
  /\ Unmounts(s)
  /\ Goto(s, "rm")
  /\ UNCHANGED <<kind, at, dir, files, met, unsaved>>

RemoveDir(s) ==
  /\ pc[s] = "rm"
  /\ RemoveTree
  /\ Goto(s, "tell")
  /\ UNCHANGED <<history, kind, at, mounts>>

\* "Data written to 'breakin.dmp', safe to remove USB device.", exit 0
Tell(s) ==
  /\ pc[s] = "tell"
  /\ Goto(s, "ended")
  /\ UNCHANGED <<history, kind, at, mounts, dir, files>>

Run(s) ==
  \/ Loop(s) \/ Mkdir(s) \/ Mount(s) \/ RemoveAfterError(s) \/ WriteHead(s)
  \/ WriteTail(s) \/ Umount(s) \/ RemoveDir(s) \/ Tell(s)

Next == \E s \in Scripts : PressF3(s) \/ Run(s)

Spec == Init /\ [][Next]_vars

-----------------------------------------------------------------------------
TypeOK ==
  /\ kind \in [Partitions -> Kinds]
  /\ pc \in [Scripts -> Steps]
  /\ at \in [Scripts -> Partitions]
  /\ mounts \in Seq(Partitions)
  /\ dir \in BOOLEAN
  /\ files \in [Partitions -> SUBSET Contents]
  /\ met \in BOOLEAN
  /\ unsaved \in [Scripts -> BOOLEAN]
  /\ stuck \subseteq Partitions

\* As long as no two scripts meet, a device loses the files of its owner only
\* when an umount has failed on that very device: neither a device that cannot
\* be mounted, nor one whose dump could not be written, nor one that comes after
\* a device left mounted is emptied by the rm -rf of the mount point.
OwnFilesKept == ~met => \A p \in Partitions \ stuck : "own" \in files[p]

\* "Data written to 'breakin.dmp', safe to remove USB device.": a script that
\* says so has left a whole breakin.dmp on its device, unmounted ...
ToldTruth(s) == {"head", "tail"} \subseteq files[at[s]] /\ at[s] \notin ToSet(mounts)
SafeToRemove == \A s \in Scripts : pc[s] = "tell" => ToldTruth(s)

\* ... which is so as long as no two scripts meet, its own writes succeed and no
\* umount has failed on its device, whatever failed in other turns and runs.
SafeAlone ==
  ~met => \A s \in Scripts :
    pc[s] = "tell" /\ ~unsaved[s] /\ at[s] \notin stuck => ToldTruth(s)

\* However the scripts meet on the mount point, and whatever fails, nothing is
\* written to or removed from a partition that is not on a USB device.
FixedUntouched == \A p \in Partitions : kind[p] = "fixed" => files[p] = {"own"}
=============================================================================
