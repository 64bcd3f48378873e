------------------------------- MODULE Disks -------------------------------
(***************************************************************************)
(* The table of disks and their speeds.  The update thread rebuilds the    *)
(* table in every round (get_hd_info) and leaves the speeds where they     *)
(* are; main measures each disk once (run_benchmarks, bench_disk) and      *)
(* writes the speed by the disk's index.  Disks come and go meanwhile.     *)
(*                                                                         *)
(* A speed is the name of the device it was measured on, "1" when          *)
(* bench_disk gave up, "any" when it divides a number it has not set: a    *)
(* read failed, at the end of a small disk for one.                        *)
(***************************************************************************)
EXTENDS Naturals, FiniteSets, Sequences

CONSTANTS
  Block,      \* what may be in /sys/block, in the order of readdir
  Plugged,    \* those that may come and go
  HdSd,       \* those with a name that begins with hd or sd
  Removable,
  MaxDisks

Devices == {Block[p] : p \in 1..Len(Block)}

ASSUME BlockAssumption == Block \in Seq(Devices) /\ HdSd \cup Plugged \subseteq Devices
ASSUME MaxDisksAssumption == MaxDisks \in Nat \ {0}

VARIABLES
  present,     \* what is in /sys/block
  \* get_hd_info
  entries,     \* the places in Block readdir has still to return, {0} outside
  diskcount,
  disk_qty,
  device,      \* disk_info[n].device
  performance, \* disk_info[n].performance
  known,       \* history: a scan of all that is present now "began" or "ended"
  \* run_benchmarks and bench_disk
  bench,       \* what main does next
  disk,        \* its loop index
  name,        \* the device it measures
  mb,          \* total_MB / elapsed
  segment,     \* the shared memory of the measurement by each index: it is "there"
               \* until it is removed, "attached" until it is detached, and gone
               \* when it is neither
  refused,     \* history: of these two, what the call that was to end it has failed to
  fds,         \* descriptors that bench_disk has not closed
  moved        \* history: a disk came or went when main had begun, or just before

table == <<entries, diskcount, disk_qty, device, known>>
shm == <<segment, refused>>
measure == <<bench, disk, name, mb, shm, fds>>
diskvars == <<present, table, performance, measure, moved>>

Closed == {0}
Indices == 0..(MaxDisks - 1)

DisksInit ==
  /\ \E s \in SUBSET Plugged : present = (Devices \ Plugged) \cup s
  /\ entries = Closed
  /\ diskcount = 0
  /\ disk_qty = 0
  /\ device = [n \in Indices |-> "none"]
  /\ performance = [n \in Indices |-> "none"]
  /\ known = "no"
  /\ bench = "stream"
  /\ disk = 0
  /\ name = "none"
  /\ mb = "any"
  /\ segment = [n \in Indices |-> {}]
  /\ refused = [n \in Indices |-> {}]
  /\ fds = 0
  /\ moved = FALSE

Plug(d) ==
  /\ present' = IF d \in present THEN present \ {d} ELSE present \cup {d}
  /\ known' = "no"
  /\ moved' = (moved \/ bench # "stream")
  /\ UNCHANGED <<entries, diskcount, disk_qty, device, performance, measure>>

-----------------------------------------------------------------------------
(***************************************************************************)
(* get_hd_info                                                             *)
(***************************************************************************)
OpenDir ==
  /\ entries = Closed
  /\ entries' = {p \in 1..Len(Block) : Block[p] \in present}
  /\ diskcount' = 0
  /\ known' = IF known = "no" THEN "began" ELSE known
  /\ UNCHANGED <<present, disk_qty, device, performance, measure, moved>>

\* read_string_from_file: a disk that has gone since readdir has no files.
Readable(d) == d \in present

\* Mutant: the file called removable is not looked at.
AnyHdSd(d) == d \in HdSd /\ Readable(d)

Fixed(d) == d \in HdSd \ Removable /\ Readable(d)

Returned == CHOOSE p \in entries : \A q \in entries : p <= q

ReadDir ==
  /\ entries # Closed /\ entries # {} /\ diskcount < MaxDisks
  /\ entries' = entries \ {Returned}
  /\ IF Fixed(Block[Returned])
     THEN /\ device' = [device EXCEPT ![diskcount] = Block[Returned]]
          /\ diskcount' = diskcount + 1
     ELSE UNCHANGED <<device, diskcount>>
  /\ UNCHANGED <<present, disk_qty, performance, known, measure, moved>>

CloseDir ==
  /\ entries = {} \/ (entries # Closed /\ diskcount = MaxDisks)
  /\ entries' = Closed
  /\ disk_qty' = diskcount
  /\ known' = IF known = "began" THEN "ended" ELSE known
  /\ UNCHANGED <<present, diskcount, device, performance, measure, moved>>

GetHdInfo == OpenDir \/ ReadDir \/ CloseDir

-----------------------------------------------------------------------------
(***************************************************************************)
(* run_benchmarks                                                          *)
(***************************************************************************)
EndStream ==
  /\ bench = "stream"
  /\ bench' = "loop"
  /\ moved' = (known # "ended")
  /\ UNCHANGED <<present, table, performance, disk, name, mb, shm, fds>>

NextDisk ==
  /\ bench = "loop"
  /\ IF disk < disk_qty THEN bench' = "open" /\ name' = device[disk]
                        ELSE bench' = "completed" /\ UNCHANGED name
  /\ UNCHANGED <<present, table, performance, disk, mb, shm, fds, moved>>

\* Mutant: the index is counted up first.
StoreBehind ==
  /\ bench = "store"
  /\ performance' = [performance EXCEPT ![disk + 1] = mb]
  /\ disk' = disk + 1
  /\ bench' = "loop"
  /\ UNCHANGED <<present, table, name, mb, shm, fds, moved>>

StoreSpeed ==
  /\ bench = "store"
  /\ performance' = [performance EXCEPT ![disk] = mb]
  /\ disk' = disk + 1
  /\ bench' = "loop"
  /\ UNCHANGED <<present, table, name, mb, shm, fds, moved>>

-----------------------------------------------------------------------------
(***************************************************************************)
(* bench_disk                                                              *)
(***************************************************************************)
GiveUp == bench' = "store" /\ mb' = "1"

OpenDisk ==
  /\ bench = "open"
  /\ \/ name \in present /\ bench' = "shmget" /\ fds' = fds + 1 /\ UNCHANGED mb
     \/ GiveUp /\ UNCHANGED fds
  /\ UNCHANGED <<present, table, performance, disk, name, shm, moved>>

Shmget ==
  /\ bench = "shmget"
  /\ \/ bench' = "lock" /\ segment' = [segment EXCEPT ![disk] = {"there"}] /\ UNCHANGED mb
     \/ GiveUp /\ UNCHANGED segment
  /\ UNCHANGED <<refused, present, table, performance, disk, name, fds, moved>>

\* Mutant: an error returns as the one before it does.
ForgetSegment == UNCHANGED shm

\* A call that is to take one of the two from a segment that is this, or fails.
TakeFrom(this, one) ==
  \/ /\ segment' = [segment EXCEPT ![disk] = this \ {one}]
     /\ UNCHANGED refused
  \/ /\ segment' = [segment EXCEPT ![disk] = this]
     /\ refused' = [refused EXCEPT ![disk] = @ \cup {one}]

\* shmctl(shmid, IPC_RMID, NULL), after an error
RemoveSegment == TakeFrom({"there"}, "there")

Lock ==
  /\ bench = "lock"
  /\ \/ bench' = "attach" /\ UNCHANGED <<mb, shm>>
     \/ GiveUp /\ RemoveSegment
  /\ UNCHANGED <<present, table, performance, disk, name, fds, moved>>

\* The segment is removed as soon as it is attached; when that fails it is
\* reported and the measurement goes on.
Attach ==
  /\ bench = "attach"
  /\ \/ bench' = "read" /\ TakeFrom({"there", "attached"}, "there") /\ UNCHANGED mb
     \/ GiveUp /\ RemoveSegment
  /\ UNCHANGED <<present, table, performance, disk, name, fds, moved>>

\* read_big_block returns 0 only for all of a block.
WholeBlocks == name \in present

\* Blocks are read for three seconds, or 1024 of them; a read that fails leaves
\* the loop before total_MB is set.
ReadBlocks ==
  /\ bench = "read"
  /\ \/ WholeBlocks /\ mb' = name
     \/ mb' = "any"
  /\ bench' = "quit"
  /\ UNCHANGED <<present, table, performance, disk, name, shm, fds, moved>>

\* shmdt is reported too when it fails.
Quit ==
  /\ bench = "quit"
  /\ TakeFrom(segment[disk], "attached")
  /\ fds' = fds - 1
  /\ bench' = "store"
  /\ UNCHANGED <<present, table, performance, disk, name, mb, moved>>

BenchDisk == OpenDisk \/ Shmget \/ Lock \/ Attach \/ ReadBlocks \/ Quit

RunBenchmarks == EndStream \/ NextDisk \/ BenchDisk \/ StoreSpeed

DisksNext == (\E d \in Plugged : Plug(d)) \/ GetHdInfo \/ RunBenchmarks

DisksSpec == DisksInit /\ [][DisksNext]_diskvars

-----------------------------------------------------------------------------
\* The places of the disks that are present, fixed and named hd or sd; how many
\* of them are before p.
Wanted == {p \in 1..Len(Block) : Block[p] \in (present \cap HdSd) \ Removable}
Rank(p) == Cardinality({q \in Wanted : q < p})

\* A scan that nothing changed under leaves the fixed disks in the table, in the
\* order of the directory, as many as there is room for.
TableOfDisks ==
  known = "ended" =>
    /\ disk_qty = IF Cardinality(Wanted) < MaxDisks THEN Cardinality(Wanted) ELSE MaxDisks
    /\ \A p \in Wanted : Rank(p) < MaxDisks => device[Rank(p)] = Block[p]

\* A speed stands at the disk it was measured on, although the table is rebuilt
\* while main measures by index, unless a disk comes or goes after the last full
\* scan before main begins.
SpeedAtItsDisk ==
  ~moved => \A n \in 0..(disk_qty - 1) : performance[n] \in {device[n], "none", "1", "any"}

\* After bench_disk a segment of locked memory stays behind only where the call
\* that removes it has failed, and stays attached only where shmdt has: whatever
\* else goes wrong, no path forgets it.
NoSegmentLeft ==
  \A n \in Indices :
    n # disk \/ bench \in {"stream", "loop", "store", "completed"} =>
      segment[n] \subseteq refused[n]
=============================================================================
