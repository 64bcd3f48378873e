------------------------------ MODULE MCParts ------------------------------
(***************************************************************************)
(* Small instances for TLC of parts that share no variable: an             *)
(* interleaving of two of them would add nothing, so that in a behaviour   *)
(* one part moves and the others stand still where they begin.             *)
(***************************************************************************)
EXTENDS NicTable, Sensors, Disks, CpuUsage, HplSizes

VARIABLE part

\* A card that is not ethernet comes before the one that is, which has two addresses.
CardList == <<"lo", "wlan0", "eth0", "eth0">>

\* More rows than there is room for, and a fan without a number of its own.
SmallMeasured == {<<Blank, 1>>, <<1, Text, 2, 2>>}

BlockList == <<"sda", "sr0", "sdb", "sdc", "hda">>

\* The line of all CPUs, or one in front of another, may be missing.
CpuListings == {<<"cpu0", "cpu1">>, <<"cpu1">>}

CoreNumbers == 1..24
MemorySizes == {0, 9, 10, 100, 315, 1232, 2400}

\* A double with ten binary digits.
SmallPowers == {2^n : n \in 0..15}

PartsInit ==
  /\ part \in {"nic", "sensors", "disks", "cpu", "hpl"}
  /\ Init /\ (part # "nic" => card = [c \in Names |-> "absent"])
  /\ SensorsInit /\ (part # "sensors" => ipmi_log = [k \in Kinds |-> <<Blank, 1>>])
  /\ DisksInit /\ (part # "disks" => present = Devices)
  /\ CpuInit /\ (part # "cpu" => counters = [c \in CpuLines |-> [used |-> 0, idle |-> 0]])
  /\ HplInit

StillNic == UNCHANGED vars
StillSensors == UNCHANGED sensorvars
StillDisks == UNCHANGED diskvars
StillCpu == UNCHANGED cpuvars
StillHpl == UNCHANGED hplvars

PartsNext ==
  /\ UNCHANGED part
  /\ \/ part = "nic" /\ Next /\ StillSensors /\ StillDisks /\ StillCpu /\ StillHpl
     \/ part = "sensors" /\ SensorsNext /\ StillNic /\ StillDisks /\ StillCpu /\ StillHpl
     \/ part = "disks" /\ DisksNext /\ StillNic /\ StillSensors /\ StillCpu /\ StillHpl
     \/ part = "cpu" /\ GetCpuUsage /\ StillNic /\ StillSensors /\ StillDisks /\ StillHpl
     \/ part = "hpl" /\ HplNext /\ StillNic /\ StillSensors /\ StillDisks /\ StillCpu

PartsSpec ==
  /\ PartsInit
  /\ [][PartsNext]_<<part, vars, sensorvars, diskvars, cpuvars, hplvars>>
  /\ Fairness
=============================================================================
