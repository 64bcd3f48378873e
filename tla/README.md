# breakin in TLA+

breakin burns in a machine: it runs test scripts in a loop for days, shows what they print, counts
passes and failures, and makes the counts known in a file, over HTTP, on a serial line and by the
identify light of the chassis. This directory holds TLA+ modules of its parts, configurations of
TLC that check them on small instances, and proofs that TLAPS checks. All of it is about the code
as it is, built with `THREADING` (the Makefile always does).

## Inventory

One process with up to six kinds of threads, none of which takes a lock:

| Thread | Code (`src/breakin.c`) | Writes | Reads |
|---|---|---|---|
| main | `main` 1509-1806 | `burnin_scripts`, `hardware_finished`, `benchmarks` | pipes of the tests |
| update | `update_stats` 1210 | `nic_data`, `disk_info`, `cpu_usage`, `mem_info`, `temp_data`, `fan_data`, `breakin.dat` | everything |
| upload | `do_update` 266 | - | `nic_data`, `breakin.dat` |
| keyboard | `handle_keypress` 1159 | windows, `logdev_file` (F8) | - |
| dump, one for each F3 | `dump_log` 1128 | - | a pipe |
| log device | `update_logdev` 1486 | `logdev_file`, `serial_file` | `temp_data`, `burnin_scripts` |

| Component | State | Operations | Meets | What is hard | What makes it correct |
|---|---|---|---|---|---|
| burn-in loop (`run_burnin_tests` 1310, `fork_cmd` 983, `main` 1712) | per test: running, pid, stream, last result, counts; the children of the process | fork and exec, read lines, wait without blocking, judge | dump threads wait in the same process; update thread reads the counts | pids are used again; every call of `fork_cmd` can fail; who reaps whose child | each run is judged once, by its own child's status, for its own test; one instance of a test; no stream leaks or is used after it was closed; a test is run again and again until it is disabled |
| test directory (`find_burnin_tests` 1255) | `breakin_disable`, `burnin_scripts` | readdir, `strtok_r` over the option | `main` logs the option, the loop runs the table | the scan destroys the string it scans; readdir has any order | only what was asked for is left out; what was asked for is left out |
| statistics (`dump_stats` 1037) and identify light (`tests/failid`) | counters, `breakin.dat.tmp`, `breakin.dat`, the light | write, rename, source, `ipmitool` | main counts while the file is written; every test reads the file | counters are read twice; writes may fail unnoticed; a chain of three actors at their own pace | the totals are those of failures that happened and never shrink; the light means a failure, and a failure ends in the light |
| test scripts (`scripts/tests/*`) | `FOUND_ERROR` | check, print, exit | exit status is judged by main | shell exit statuses | an error found is an error reported |
| USB dump (`scripts/dumplog.sh`) | `/var/snapshot`, what is mounted, `breakin.dmp` | mkdir, mount, write, umount, `rm -rf` | several at a time, one mount point | interleavings of `mount` and `rm -rf` | the owner's files survive; "safe to remove" is true |
| network table (`get_nic_info` 375) and upload (`do_update` 266) | `nic_data`, `nic_qty`, `id`, `found` | ioctl per card, scan, send | one thread rewrites what the other reads | torn reads; cards come and go between two ioctls | the table is right when finished; a machine reports under its own address, and does report |
| DMI decoder (`dmidecode.c`, `util.c`) | the table's bytes, `dmi_data` | find the anchor, walk, take strings | once, before the threads | lengths and indices that are wrong or cut short | no byte outside the table; the names are the BIOS's |
| log windows (`show_log` 176, `monitor_syslog` 146) | offsets in two files | seek, read to the end, log | scripts and syslogd append to the files meanwhile | the first look, half lines | from the first look on every line is taken once, and what is severe is shown |
| log device and serial port (`log_message` 84, `start_logdev` 1432, `start_serial` 1321) | three streams, `serial_enabled` | open, header, write | main opens streams while the update thread logs to them | every call can fail; a message may be on its way | each stream gets the messages of each thread, in order; nothing is written to NULL |
| sensors (`get_ipmi_sensors` 486, `update_logdev_write` 1453, `ipmi.sh`) | `temp_data`, `fan_data` and their counts | parse, print | the log thread prints the table that the update thread empties and fills | blank values, a reset in place | a table says what one version of the file says; a printed number was in the table |
| disks and benchmarks (`get_hd_info` 571, `run_benchmarks` 956, `bench_disk.c`) | `disk_info`, a shared memory segment | scan, measure | main writes speeds by index while the update thread rebuilds the table | an index may come to belong to another disk; six calls may fail | a speed stands at its disk; no path forgets the segment |
| CPU usage (`get_cpu_usage` 298) | `cpu_usage` | subtract counters | once a round | unsigned counters wrap around; lines come and go | the ticks since the last round |
| sizes for HPL (`hpl_calc_pq.c`, `hpl_calc_n.c`) | - | - | the hpl test | roots, divisors, unsigned arithmetic, a product of doubles | a grid of all cores, a matrix that fits |
| memory numbers, options, startup, stop, windows | - | - | - | parsing and drawing | - |

## Modules

```
TestBench  <-- implemented by --  BurninLoop  <-- EXTENDS --  MCBurninLoop, BurninLoopProofs
FindBurninTests  <-- EXTENDS --  FindBurninTestsProofs   (the table that BurninLoop runs)
StatFile   <-- EXTENDS --  MCStatFile, StatFileProofs   (a run of BurninLoop is a start and an end)
DumpLog    <-- EXTENDS --  DumpLogProofs   (the child that BurninLoop's dump threads wait for)
DmiTable   <-- EXTENDS --  MCDmiTable, DmiTableProofs
LogTail    <-- EXTENDS --  LogDevice  <-- EXTENDS --  LogDeviceProofs
NicTable, Sensors, Disks, CpuUsage, HplSizes  <-- EXTENDS --  MCParts
                                              <-- INSTANCE/EXTENDS --  PartsProofs
NatFacts   <-- EXTENDS --  StatFileProofs, DmiTableProofs, PartsProofs   (lemmas about numbers and finite sets)
```

**BurninLoop.** The variables are the fields of `burnin_scripts_t` and, for the kernel, the
children: `owner` (the test, or dumplog.sh, they were forked for), `parent` (who forked them),
`status`, the number of unread lines of each `pipe`, and whether a descriptor was lost (`leaked`).
`pc` and `cur` are main's place: `launch` is `run_burnin_tests`, `drain` the `fgets` loop, `wait`
the `waitpid`. One step of main is one system call, because the children, and the dump threads that
wait in the same process, can move between any two of them. `fork_cmd` is one operator for both of
its callers; `Faults` says which of its calls may fail:
- fork: -1 is stored as the pid and the stream is returned all the same; `waitpid(-1)` later asks
  for any child;
- exec: the child falls through into the code of the parent (status `clone`). The clone of a dump
  thread has only that thread and ends with it. The clone of a test is in the burn-in loop for good
  (`Copy`): it has a copy of `burnin_scripts` as `fork` found it (`Copied`), goes on behind the test
  it was forked for, with a stream of its own and pid 0 for that test (`ClonesOwn`), starts what is
  idle, and waits for children of which only its own are known to its `waitpid`, so that a test
  which breakin is running counts as passed at once and is started a second time. The calls it makes
  can fail too, and a clone of the clone begins in the same way. When a process ends its children
  fall to init (`End`). Of a copy's tests only what steers its loop is kept; its counters, its
  messages and the reading of what its tests print are left out;
- pipe: the descriptors are garbage, `fcntl` on them fails and NULL is returned before the pid is
  written. The child runs although nobody waits for it;
- fdopen: NULL is returned after the pid was written, and a descriptor is lost.

A pid is free again once its child is reaped. A child that exits waits with one of four statuses,
the ones main tells apart. `Judge` is what main does with it, `WaitNoChild` what it does when
`waitpid` returns -1: the code takes that for a pass. The hardware phase at 1641-1667 is the same
pattern with one child and is not repeated; an empty table of tests is excluded (`Count > 0`).

**TestBench** is what that amounts to without processes: a test is idle, busy, has ended in one of
four ways, or is disabled. BurninLoop maps to it through the phase of the test's *own* child,
`Phase(s)`, whatever pid the loop stores and waits for; so the mapping fails as soon as a status is
lost or goes to the wrong test.

**FindBurninTests** reads the directory in any order, with any `-t` option of up to three names.
`Matches` compares with the tokens that are left, `Cut` is the NUL that `strtok_r` writes over the
first comma.

**StatFile** has the three actors of the identify light. `Start`, `EndCheck`, `QuitCheck`, `Blink`
... are a test run from fork to verdict, `OpenTmp`, `PrintFailures`, `Add`, `Rename` the steps of
`dump_stats`, in which a test's counter is read at two times. Of the file the counts are kept. A
full file system leaves a truncated file, without the total, which is the last line, and it is
renamed all the same; a script that sources it exits with 2, or, cut between two lines, goes on and
failid reads no total. `told` is
the history of the last total. `Kind` tells `failid`, the scripts that exit with `FOUND_ERROR` (hpl,
ecc, mcelog) and those that forget to (badblocks, hdhealth) apart.

**DumpLog** is the script, one action for each command that touches the mount point. mount stacks
devices on `/var/snapshot`, and fails for the device that is on top already; umount takes the top
away, or fails while another script has a file open there and, with `"umount"` in `Faults`, at any
time; with `"write"` a redirection fails or leaves an empty file. The script looks at the result of
mount alone, so that nothing follows from these but what is on the device; the histories `unsaved`
and `stuck` record them. `rm -rf` removes what the top device holds, and the directory only when
nothing is mounted.

**NicTable** has the list of SIOCGIFCONF as the set of its places that are still to come, in the order
of the numbers; an interface stands there once for each of its addresses, and then has as many rows.
There is an action for each field that `get_nic_info` writes and that `do_update` copies; an
address has two halves so that a copy can meet a write. `Change` lets any card come, go, lose or get
its address between any two of these steps.

**DmiTable** builds a table's bytes from structures, cuts the length anywhere, lets a structure
claim a wrong length, and walks the bytes as the code does. `Scan` is one paragraph of
`do_dmi_decode`, `Walk` one structure of `dmi_table` with all that `dmi_decode` takes from it.
`reach` records the highest byte that was looked at.

**LogTail** is the reader's half of the log windows. A log is a sequence of pieces, one for each
write; a line is the pieces up to one that ends it, so that `fgets` can meet half a line. One look is
`OpenLog` (`fopen` and `fseek`), `ReadLine` and `EndLook` (`ftell`); the two logs take turns. `told`
is the history of the stretches `fgets` has returned. A line longer than the buffer is not modelled
apart: it is one more place where `fgets` stops.

**LogDevice** composes that reader with main's way through `start_logdev`, `start_serial` and
`header_logdev` (`step`). `log_message` and `log_error` go through the streams one after the other
without a lock: `Log` writes to the window and the log file, one `Fprintf` for each of the others
follows, and the other thread can move between. fopen, open and fdopen fail at will. Of what main
says, the messages on this way are kept.

**Sensors** has the two files that `ipmi.sh` replaces, `get_ipmi_sensors` with a step for each line,
each row and each count, and the log thread's loop, which reads a temperature twice. `value`
survives from line to line and from the temperatures to the fans, as in the code.

**Disks** has the directory as the places that are still to be returned, lets disks come and go
while `get_hd_info` scans, and main run through `run_benchmarks` and every call of `bench_disk`,
each of which may fail: also the IPC_RMID after an error or after `shmat`, and `shmdt`, which the
code reports and survives. What is left of the segment is kept for each measurement, `refused` is
the history of the calls that failed to end it. A speed is the name of the disk it was measured on.

**CpuUsage** is one action: the kernel adds ticks, and a round computes the differences modulo the
width of an unsigned int, for whichever lines are there.

**HplSizes** runs the two programs for any cores and memory; the search for a divisor is a step for
each candidate, and a root is any number that satisfies its definition. `Bytes` is the multiplication
by the double `.94`: the operands and the product are the nearest numbers a double can hold (`Double`,
ties to even), for any number of digits, and the result is cut off to a whole number. A double is
exact up to `Digits` and a multiple of a power of 2 beyond.

**MCParts** is the instance of the last five. They share no variable with each other, so that in
each behaviour one of them moves and the others stand still: the run checks what five runs would.

## What the runs show

| Run | Instance | Result |
|---|---|---|
| `burnin_bench` | 2 tests, 3 pids, an F3 thread, no faults | the loop implements TestBench with its liveness; every waiter finds its child (`OwnChild`); no stream is lost (`NoStreamLeak`); no test runs twice, whoever forked it (`OneInstance`); a test that quit stays disabled (`QuitMeansNever`); an F3 thread ends (`DumpEnds`) |
| `burnin_faults` | the same with fork, exec, pipe and fdopen failing, a copy of the loop at a time | breakin has no two children of one test (`OneInstance`), no use of a closed stream (`NoUseAfterClose`) |
| `burnin_exec` | 1 test whose exec may fail, two copies | **violated**: `ExecFailureDisables` |
| `find_tests` | all orders of 4 names, all options of up to 3 names | `OnlyAskedLeftOut`, `ToldStaysOut` |
| `find_tests_option` | the same | **violated**: `AskedStaysOut` |
| `stat` | failid and a test, up to 2 failures each, any faults | totals (`TotalCoversShown`, `TotalsNeverDrop`), light (`LightMeansFailure`, `ErrorsLight`) |
| `stat_disks` | failid and badblocks | **violated**: `ErrorsLight` |
| `dumplog` | 2 scripts, 2 partitions of any kind, writes and umounts that fail | `OwnFilesKept`, `SafeAlone`, `FixedUntouched` |
| `dumplog_two` | the same without these failures | **violated**: `SafeToRemove` |
| `messages` | two pieces of text in two logs, two threads, three streams, any call failing | the update thread takes every line once (`ToldOnce`) and shows what is severe (`SevereShown`); streams agree (`SameInAll`), none is NULL (`NoNullStream`); what a test appends gets to the log device (`ErrorsReachDevice`) |
| `parts` | network: loopback, a wireless card, an ethernet card with two addresses | `TableWhole`, `SentId`, `Reports` |
| | sensors: two files of up to four lines, room for two rows | `SensorsParsed`, `ReportTrue` |
| | disks: five entries of which two come and go, room for two | `TableOfDisks`, `SpeedAtItsDisk`, `NoSegmentLeft` |
| | CPUs: two lines of which one may be missing, counters modulo 3 | `UsageRight` |
| | HPL: 1 to 24 cores, seven sizes of memory, doubles of ten digits | `GridOfAllCores`, `MatrixFits` |
| `dmi` | two structures of any type, 22 bytes cut off, wrong lengths 0, 4, 9, 12, 40 | `InBounds`, `Decoded` |

The violations are disagreements of the code with its own comments and messages:

- *exec fails* (`breakin.c:1005`): after `execve` there is no `_exit`. main never gets a status and
  never says "Execution failed on '%s', disabling." (1773); a second breakin runs tests of its own,
  also those that the first one is running: two instances of badblocks or hpl at a time, which is
  why `OneInstance` speaks of the processes of all copies only without this fault.
- *-t* (1274): `strtok_r` cuts `breakin_disable` at its first comma during the first directory
  entry. A list "to not run" (1598) disables its first name; another name only if readdir happens
  to return it first. The log (1670) names only what is left of the string, and is right
  about that (`ToldStaysOut`).
- *badblocks, hdhealth* (`badblocks:32`): no `exit ${FOUND_ERROR}` at the end, so a run with disk
  errors counts as passed and failid goes on blinking, which stands for "everything is fine".
- *dumplog.sh twice* (`dumplog.sh:39`): F3 pressed twice. While one script has the device mounted
  again, the other's `rm -rf /var/snapshot` empties it, and both say "safe to remove USB device".

The models show more that no document speaks about, so that it is noted here and not kept as a run:

- With fork failing, `waitpid(-1)` collects the child of another test, whose 255 then disables the
  wrong test: `QuitMeansNever` and `ImplementsBench` are false, which is why their theorems assume
  a fork that succeeds.
- A line printed between the last `fgets` and `waitpid` is discarded by `fclose` (1738, 1759, 1769).
- A truncated `breakin.dat.tmp` replaces a complete `breakin.dat`. The file has then no total, failid
  blinks again, and the scripts that source it fail and are counted (`TotalsNeverDrop` is about the
  files that have a total: they do not forget what an earlier one said).
- dumplog.sh alone: when umount fails, `rm -rf /var/snapshot` (39) empties the device that is still
  mounted, and when a write fails the device holds a part of the dump; it says "safe to remove" both
  times (41). `OwnFilesKept` and `SafeAlone` except just these: without `stuck` and `unsaved` TLC
  finds both violated in the run with these failures.
- An interface with two addresses stands in the table, and is counted, twice.
- Without `~changed`, `SentId` is false: when an ethernet card moves to another slot, `do_update`
  can find the new name beside the address, or half of the address, that was there before.
- The error log's text from before the first look is never shown: a test that creates the log and
  fills it before `show_log` has seen it (hpl:62) fails without its output on the screen.
- When the log device cannot be opened, the serial port is not even tried, and main says that it is
  enabled (1437, 1699). When fdopen fails main writes the header to NULL (1371, 1449).
- A fan whose line has no number gets the number of the line before, of a temperature if need be.
- A disk that is unplugged between two disks of the benchmark moves the later ones up in the table,
  and their speeds stay behind (without `~moved`, `SpeedAtItsDisk` is false).
- With less memory than the reserve of `hpl_calc_n` the difference wraps around and the matrix is
  larger than the memory (without `ram >= Reserve`, `MatrixFits` is false).
- A test killed by a signal is disabled without a failure being counted (1772-1777).

## Bounds

- *BurninLoop*: with three pids two tests and a dump thread run at once and a pid is free to be used
  again by any of them; a third test would only be one more party of the same kind, and the proofs
  do not depend on their number. `PipeLines` is 1 (a line read before and one written after the last
  `fgets`), and 0 in `burnin_faults`, whose properties do not speak of output. Counters stop at
  `MaxCount`, which is 0: only the phases matter for liveness. Pids are interchangeable in the runs
  without liveness (`SYMMETRY`). `Copies` is how many copies of the loop a failing execve has left
  at a time: one in `burnin_faults`, where it starts tests beside breakin's with three pids for
  both, two in `burnin_exec`, so that a copy of a copy occurs. `burnin_faults` has a `VIEW`
  (`Steering`) without the verdicts and `leaked`, which no guard reads, and without the pid of a
  test that is not waited for: none of them changes what its properties say of any other variable,
  and the types of those left out are proved. A failing exec, pipe or fdopen is in `burnin_faults`;
  that `QuitMeansNever` and `ImplementsBench` hold with these too is what their theorems say, which
  exclude fork alone.
- *FindBurninTests*: three tests and a hidden entry, options of up to three names with repetitions:
  two names beyond the first comma.
- *StatFile*: two failures make a total that grows between the two reads of one counter, and again
  between two files. failid stands before the other test in the table, so that its count is read
  last.
- *DumpLog*: two scripts, since the third would meet either of them in the same way; two partitions,
  so that a script can fail on one and go on. F3 is not pressed with `MaxLeft` mounts on the stack,
  2, so that a script can meet what two failing umounts have left. `dumplog_two` is without failing
  writes and umounts: there the two scripts alone are the reason.
- *NicTable*: a card that is not ethernet in front of one that is, and the loopback interface: slots
  are filled, given up and shifted. The ethernet card has two addresses and so two rows. The
  instance has one ethernet card; ids made of two cards show with the other one.
- *DmiTable*: two structures and an end, so that one can be cut off behind a complete one;
  texts that are blank, unprintable or longer than a field (`MaxText` is 3 for 49).
- *LogDevice*: two pieces (`MaxText`), in one log or in both: a line in two halves, a line behind the
  first look, and one for a look that ends before it. `ToldOnce` is proved for any text. Nothing is
  bounded in main, whose way is straight.
- *Sensors*: results with a blank line first and with more rows than `MaxSensors`, 2 for the 50 and 30
  of the code; the two files are replaced at any time.
- *Disks*: a removable disk, one that is not a disk, and `MaxDisks` of 2, so that the table is full
  when all disks are there and not when two are away.
- *CpuUsage*: `Wrap` 3 stands for 2^32 and `MaxTicks` 1 for what a round adds, which must be less
  than the width; the proof is for any.
- *HplSizes*: 24 cores have primes, squares and numbers with many divisors. The sizes are scaled: a
  reserve of 9 of 4 bytes each, steps of 3, and a `Width` that the reserve wraps around. A double has
  ten digits, and .94 is 963/1024; of the sizes, 315 and 1232 are such that N is another than with exact
  arithmetic. The code's double has 53 digits, which `DoubleAssumption` allows, as any number that
  keeps the share within one percent.

Deadlock is checked, in `parts` of each part, except where the program does stop: after the
directory is read (FindBurninTests), after the table is decoded (DmiTable), and when `MaxLeft` keeps
F3 from being pressed (DumpLog).

## Fairness

- main and the update, upload and dump threads are loops around short sleeps: weak fairness of their
  steps. In BurninLoop one `WF_vars(Main)` covers the loop, so that a test that prints for ever
  could starve the others: the step that reads is main's own, and TLC shows that the liveness holds
  because the pipe holds a bounded number of lines and the child ends.
- A started program ends (`WF` of `Exit` for children that are alive): the scripts have no endless
  loops, and dumplog.sh none but those over the partitions. Nothing ends a clone, and F3
  need never be pressed.
- A test run in StatFile ends, and failid goes through its steps; errors are never promised.
  `ErrorsLight` is claimed for machines without faults: with a BMC that does not answer or
  a full disk the light cannot be had.
- hardware.sh ends (NicTable); it is a single `exit`.
- main and the update thread go on in LogDevice, one `WF` each: `fprintf` to a device or a serial
  line comes back. Nobody need append to a log.

## Proofs

The theorems hold for every value of the constants, with no other assumption than the ASSUMEs of the
modules: positive sizes; -1 and 0 are no pids; a finite directory; memory whose bytes the integers
can hold, and doubles whose distances are powers of 2 and whose digits suffice for one percent
(HplSizes); no interface is called none (NicTable); a line of `ipmitool` is a number, blank or text
(Sensors); a paragraph of the BIOS segment holds one of two anchors or something else, and a table
is a sequence of structures of bytes (DmiTable). Every safety property of the passing runs is a
theorem.

*BurninLoop.* `OneInstance`, `OwnChild` and the others are not inductive. That a test's child keeps
the test marked as running says nothing about the step that reaps it unless the pid the loop waits
for is that child's; that depends on when `fork_cmd` writes the pid and returns a stream; and a
dump thread could take the child away unless the pid it waits for is its own. The invariant is

    IInv = TypeOK /\ Claimed /\ Single /\ NoUseAfterClose /\ AtWait /\ OwnChild /\ DumpsApart /\ NoStreamLeak /\ NoCopies

`Claimed` ties every child of breakin to its test's mark and, where there is a stream, to the stored
pid; `Single` says a test has one child; `AtWait` that main is at `waitpid` only for a test with a
stream; `DumpsApart` that no two dump threads wait for one child; `NoCopies` that without a failing
execve every process is breakin's child, which is what makes the last part of `OneInstance` a
statement about all of them. The steps of a copy leave main's variables alone (`CopyKeepsMain`) and
take no child of breakin (`CopyApart`). `InitIInv` and `NextIInv` (one lemma for types, claims,
ownership and leaks, each with a step for each action) give

- for any faults `TypeCorrect`, `OneInstanceAlways`, `NoUseAfterCloseAlways`;
- `OwnChildAlways` and `NoStreamLeakAlways`, whose properties name the calls that must not fail;
- for a fork that does not fail `QuitMeansNeverAlways` and `LoopImplementsBench`: initial states map
  to initial states, `Launch` to Begin, `Exit` to Finish, `Reap` to Judge, all else stutters. The
  lemma behind it (`PhaseTableHolds`) computes the phase of a test from its one child.

*FindBurninTests.* `Apart`: the string only loses tokens, so that a name that matched none of them
matches none later. With it `ScanSoFar` says what the scan has done up to now: what is left of the
string was asked for, and what is in the table comes from the part of the directory that was read.

*StatFile.* `LightMeansFailureAlways` rests on `Traced`: wherever a number above 0 is on its way from
a counter through `total_failed`, the file and failid's variable to the light, some test has failed.
The totals need more, since a sum of counters that were read at different times is the sum of no
state. `Summed` says that there are counts `c` and `d`, as they were when the last file and the
present dump added them: the total of the file is the sum of `c`, the running total that of a
beginning of `d`, what is shown is not above what was added, `d` is not below `c`, and neither is
above the counters. `TotalCoversShownAlways` and, of the step that renames the file,
`TotalsNeverDropAlways` follow because sums grow with what is summed (`SumsGrow`). The last file is the
last one with a total (`told`): a truncated one in between changes nothing of this.

*DumpLog.* `FixedInv`: only USB partitions are mounted, or about to be, so that what `rm -rf`
empties is one of them. `AloneInv` follows the only script that runs from one command to the next:
its own partition is on top from mount to umount, everything below was left there by an umount that
failed (`Stack`), a partition that was not left there has its owner's files, and the script's own
what it has written unless a write has failed (`Written`). It gives `OwnFilesAlwaysKept` and
`SafeWhenAlone`.

*NicTable.* `TableWhole` needs the row that is being written (`Filled`) and that there is a row for
each place of the list that is still to come (`NicRoom`). `SentId` is about a reader between any two
writes. `SteadyInv` says, for a machine whose cards do not change: the first round gives each place
of the list that is kept a row, in the order of the kernel (`RowOf`, `ThisRound`); after it all have
theirs (`TableOfCards`), and every later round writes into each row, field by field, what it shows
already; so the reader's half of an id belongs to the row it is at (`Reader`). A change anywhere
ends all that, which is what `~changed` is for.

*Sensors.* `ParsedTo(k, l)`: the table of a kind has what the first l lines of its file say. `Place`
says it of the line the update thread is at, with the value that is carried along; `Others` of the
file before. `SeenInv` is about the log thread, which the update thread overtakes at any point.

*Disks.* `Held` is what `bench_disk` has still to take from its segment at each place; what else is
there was refused (`SegmentInv`). `ScanOfBlock`:
a scan during which nothing was plugged has put the disks it has passed at their ranks, and those
are before all that it has not passed; the rank of a place is a number of places, and it grows with
the place (`RanksGrow`). A disk that was there when a scan ended is written by the next scan where
it stands (`DiskInv`), which is why main finds at its index the disk that it measured (`SpeedInv`).

*LogDevice.* `ToldOnceAlways`: `ToldOnce` with the types is inductive once it is read as stretches that
lie end to end from where the first look began to where the reader is (`Tiles`). It follows that a
log of which a place is kept has been looked at (`Begun`), which is what keeps a later look from
seeking to the end. `NoNullStreamAlways` needs which streams are open at each step of main (`Opened`).
`SameInAll` speaks of a thread between two messages; `InStep` also says what a stream has while the
message is on its way (`Pending`). `ShownInv`: what the reader has passed is in the window.

*DmiTable.* `InBoundsAlways` is about any bytes, however they lie. Of the search for the end of a
structure (`TerminatorFound`) it follows that it stops at the end of the table or at two NULs, and
then the structure fits (`TwoNuls`); `dmi_string` stays at the first empty string, so that no
string it walks over reaches past the second NUL (`StringInside`).

`DecodedAlways` is about structures that end where they say (`WellFormed`) in a segment with one entry
point (`OneEntry`); without these the code shows what it finds. The decoder sees bytes only, so the
proof is that its walk over them is the inverse of the folds that made them:

- where a structure, or a string of it, lies among what `FlattenSeq` makes (`JoinedStep`, `InPiece`,
  `FirstStructures`); for the decoder at the k-th structure, what `At` reads (`HeaderHere`);
- two NULs are nowhere but at the end of a structure (`NoTwoNuls`), so that the search ends where the
  next one begins (`EndFound`), or does not fit when this one is cut short (`CutOff`);
- the loop of `dmi_string` is at string s after s - 1 rounds (`StringIsAt`), and to trim a text twice
  is to trim it once (`TrimTwice`), since `dmi_decode` trims old fields again;
- `WalkSoFar`: all of the first i structures are shown, or the i-th was cut short and those before
  it are shown; `NamesInv` adds that the one entry point starts the only walk.

*CpuUsage.* `UpToDate` says that an index which was filled in the last round holds the kernel's counters
of its line; `MinusAdvance` is the unsigned subtraction.

*HplSizes.* The invariant of the search (`GInv`) is that no number it has passed is a divisor up to the
root; of a divisor and its cofactor the smaller one is not above the root (`SmallDivisor`). When the
search stops at the rounded up root itself, the other side is one less. `MatrixFitsAlways` has the
arithmetic: nothing wraps around above the reserve; a double is the nearest one, so not further than
one in `Digits` from the number (`DistanceRight`, `NearestRight`, `DoubleRight`); two such roundings,
of the memory and of the product, move the share by less than one percent (`RoundedUpTwice`,
`RoundedDownTwice`, `ShareRight`); cutting off to a whole number, dividing by 8, taking the root and
going down to a multiple loses less than a step (`RoundedDown`).

Recursion over data (`SumTo`, `StringAt`, the fold of `FlattenSeq`) is reasoned about without
induction over an operator, which the provers cannot instantiate. That a recursive function obeys
its equation is shown by the set of all n up to which a solution exists, which has 0 and n + 1 with
every n (`SetInduction` of NatFacts, itself from the least element of a set of numbers):
`SumExists`, `AlwaysRuns`, `JoinExists`; the solution of a fold is the only one (`JoinUnique`). What
is then said of its values goes by the same lemma, or by the least place where it fails.

Only model-checked: all liveness (`ImplementsBenchFully`, `DumpEnds`, `ErrorsLight`,
`Reports`, `ErrorsReachDevice`), since it needs fairness and ENABLED.

## Plan

1. A breakin.dat that is left from an earlier start (StatFile).
2. Proofs: what a step may never do in the components that have only invariants.

## Not modelled

- Drawing, and the keys other than F3: layout. F8 closes the log device and replaces the program;
  until it has, the other threads use a closed stream, of which nothing can be stated.
- `bench_stream.c` (numeric and from elsewhere), `get_mem_usage` and `get_cpu_info` (numbers copied
  from `/proc`), `cryptpasswd.c` (one call), the option parser, which sets the parameters that the
  models take as constants, and `startup.sh`, which makes its arguments: it always gives `-b`, so
  that with it the benchmarks are never run, and it asks for `_console` but reads `CONSOLE`, so that
  it never gives a serial port. The models cover both all the same.
- In dumplog.sh a failing `mkdir` or `rm`, and what the script writes to /var/snapshot on the root file
  system when another has unmounted its device: that loses no file of an owner. That the script ends,
  which a `for` over a list does unless `mount` hangs.
- Of a copy of breakin: its update thread, which does not survive the fork, its windows, and what it
  reads from pipes that it has inherited (it can take lines away from the first, as anyone who shares
  a pipe).
- What the programs called by the scripts measure, the HTTP request of `upload_data` (one step), and
  the text of messages.

PROJECT.json lists every part with its reason, and every hazard with the properties that guard
against it.
