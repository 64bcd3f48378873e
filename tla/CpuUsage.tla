------------------------------ MODULE CpuUsage ------------------------------
(***************************************************************************)
(* The usage of the CPUs (get_cpu_usage).  In every round the update       *)
(* thread reads the kernel's counters of used and idle ticks, a pair for   *)
(* each line of /proc/stat that begins with cpu, and divides what was      *)
(* added since the last round.  The counters and the differences are       *)
(* unsigned int: on a machine with many CPUs the line that adds them all   *)
(* up passes 2^32 within days.  A CPU that goes off line has no line, and  *)
(* the lines behind it move up in the table.                               *)
(*                                                                         *)
(* The percentage is kept as the pair of the numbers it is the quotient of.*)
(***************************************************************************)
EXTENDS Naturals, Sequences

CONSTANTS
  CpuLines,  \* the lines there may be
  Listings,  \* which of them are there, in their order
  MaxCpus,
  Wrap,      \* 2^32
  MaxTicks   \* bound: ticks of a CPU from one round to the next

ASSUME ListingsAssumption == "none" \notin CpuLines /\ Listings \subseteq Seq(CpuLines)
ASSUME WrapAssumption ==
  /\ MaxCpus \in Nat \ {0} /\ Wrap \in Nat \ {0}
  /\ MaxTicks \in 0..(Wrap - 1)

VARIABLES
  counters,  \* the kernel's, of each line, modulo Wrap
  cpu_usage, \* last_usage, last_idle and percent, by index
  cpu_qty,
  fresh,     \* history: of each line, the ticks since the last round
  shows      \* history: the line an index was filled from, and the one before

cpuvars == <<counters, cpu_usage, cpu_qty, fresh, shows>>

Ticks == {t \in [used : 0..MaxTicks, idle : 0..MaxTicks] : t.used + t.idle <= MaxTicks}
Entries == 1..MaxCpus

CpuInit ==
  /\ counters \in [CpuLines -> [used : 0..(Wrap - 1), idle : 0..(Wrap - 1)]]
  /\ cpu_usage = [n \in Entries |->
       [last_usage |-> 0, last_idle |-> 0, time_used |-> 0, time_total |-> 0]]
  /\ cpu_qty = 0
  /\ fresh = [c \in CpuLines |-> [used |-> 0, idle |-> 0]]
  /\ shows = [n \in Entries |-> <<"none", "none">>]

Least(a, b) == IF a < b THEN a ELSE b

\* Mutant: the difference of two signed numbers, 0 at least.
MinusSigned(a, b) == IF a < b THEN 0 ELSE a - b

\* The difference of two unsigned numbers.
Minus(a, b) == (a + Wrap - b) % Wrap

Difference(entry, now) ==
  LET used == Minus(now.used, entry.last_usage)
  IN  [last_usage |-> now.used, last_idle |-> now.idle, time_used |-> used,
       time_total |-> (used + Minus(now.idle, entry.last_idle)) % Wrap]

Advanced(c, t) == [used |-> (counters[c].used + t.used) % Wrap,
                   idle |-> (counters[c].idle + t.idle) % Wrap]

GetCpuUsage ==
  \E listed \in Listings, added \in [CpuLines -> Ticks] :
    LET filled == 1..Least(Len(listed), MaxCpus)
    IN  /\ counters' = [c \in CpuLines |-> Advanced(c, added[c])]
        /\ fresh' = added
        /\ cpu_usage' = [n \in Entries |->
             IF n \in filled THEN Difference(cpu_usage[n], Advanced(listed[n], added[listed[n]]))
                             ELSE cpu_usage[n]]
        /\ shows' = [n \in Entries |->
             IF n \in filled THEN <<listed[n], shows[n][1]>> ELSE <<"none", "none">>]
        /\ cpu_qty' = Least(Len(listed), MaxCpus)

CpuSpec == CpuInit /\ [][GetCpuUsage]_cpuvars

-----------------------------------------------------------------------------
\* A bar that has shown the same CPU in the round before shows its ticks since
\* then, also over the end of an unsigned counter: never more used than there
\* were, and a quotient with 0 below only if no tick was counted.
UsageRight ==
  \A n \in 1..cpu_qty :
    shows[n][1] = shows[n][2] =>
      LET ticks == fresh[shows[n][1]]
      IN  cpu_usage[n].time_used = ticks.used /\ cpu_usage[n].time_total = ticks.used + ticks.idle
=============================================================================
