------------------------------ MODULE Sensors ------------------------------
(***************************************************************************)
(* Temperatures and fan speeds.  ipmi.sh measures and moves each result    *)
(* over the last one; the update thread reads the two files into temp_data *)
(* and fan_data (get_ipmi_sensors), which it empties first; the log thread *)
(* prints temp_data at the same time (update_logdev_write).                *)
(*                                                                         *)
(* A file is a sequence of readings, one for each line: a number, Text     *)
(* ("no reading") or Blank.  sscanf finds nothing in a text; for a blank   *)
(* it returns EOF, which !! makes 1, so a blank counts as a number that    *)
(* leaves `value` as it was.  A file that is missing reads as an empty     *)
(* one.  A row of a table is the number and the line it came from, which   *)
(* stands for the name.                                                    *)
(***************************************************************************)
EXTENDS Naturals, Sequences, FiniteSetsExt

CONSTANTS
  Text, Blank,
  Measured,   \* the results ipmitool may have for a kind of sensor
  MaxSensors  \* MAX_TEMPS and MAX_FANS

ASSUME ReadingAssumption ==
  /\ Text # Blank /\ {Text, Blank} \cap Nat = {}
  /\ Measured \subseteq Seq(Nat \cup {Text, Blank})
ASSUME MaxSensorsAssumption == MaxSensors \in Nat \ {0}

Kinds == {"temp", "fan"}
NoRow == [value |-> 0, line |-> 0]

VARIABLES
  \* ipmi.sh
  ipmi_log,   \* the two files
  \* get_ipmi_sensors
  kind,       \* the file it reads, or "none" outside
  file,       \* history: what it has opened in this round
  line,       \* the lines read
  value,      \* the local variable
  todo,       \* what it does next: "read" a line, "store" a row or "count" it
  qty,        \* temp_qty and fan_qty
  rows,       \* temp_data and fan_data
  \* update_logdev_write
  printing,   \* the log thread is in the loop over the temperatures
  nth,        \* its loop variable
  positive,   \* temp_data[nth] was above zero
  printed,    \* the last number it printed, 0 at first
  seen        \* history: the rows of temp_data since the report began

tables == <<kind, file, line, value, todo, qty, rows>>
report == <<printing, nth, positive, printed>>
sensorvars == <<ipmi_log, tables, report, seen>>

SensorsInit ==
  /\ ipmi_log \in [Kinds -> Measured]
  /\ kind = "none"
  /\ file = [k \in Kinds |-> <<>>]
  /\ line = 0
  /\ value = 0
  /\ todo = "read"
  /\ qty = [k \in Kinds |-> 0]
  /\ rows = [k \in Kinds |-> [n \in 0..(MaxSensors - 1) |-> NoRow]]
  /\ printing = FALSE
  /\ nth = 0
  /\ positive = FALSE
  /\ printed = NoRow
  /\ seen = {}

\* ipmitool writes a temporary file, which mv puts in place at once.
Measure(k) ==
  /\ \E m \in Measured : ipmi_log' = [ipmi_log EXCEPT ![k] = m]
  /\ UNCHANGED <<tables, report, seen>>

-----------------------------------------------------------------------------
(***************************************************************************)
(* get_ipmi_sensors                                                        *)
(***************************************************************************)

Begin ==
  /\ kind = "none"
  /\ qty' = [k \in Kinds |-> 0]
  /\ value' = 0
  /\ kind' = "temp"
  /\ file' = [file EXCEPT !["temp"] = ipmi_log["temp"]]
  /\ line' = 0
  /\ UNCHANGED <<ipmi_log, todo, rows, report, seen>>

\* Mutant: found_value is set once for the whole file.
FoundAny(reading) == TRUE

\* sscanf(chunk, "%d ", &value), and !!
Found(reading) == reading # Text

Number(reading) == IF reading \in {Text, Blank} THEN value ELSE reading

ReadSensor ==
  /\ kind # "none" /\ todo = "read" /\ line < Len(file[kind])
  /\ line' = line + 1
  /\ value' = Number(file[kind][line + 1])
  /\ todo' = IF Found(file[kind][line + 1]) /\ qty[kind] < MaxSensors THEN "store" ELSE "read"
  /\ UNCHANGED <<ipmi_log, kind, file, qty, rows, report, seen>>

Row == [value |-> value, line |-> line]

See == seen' = IF printing /\ kind = "temp" THEN seen \cup {Row} ELSE seen

\* The row first, then the count.
Store ==
  /\ todo = "store"
  /\ rows' = [rows EXCEPT ![kind][qty[kind]] = Row]
  /\ todo' = "count"
  /\ See
  /\ UNCHANGED <<ipmi_log, kind, file, line, value, qty, report>>

Count ==
  /\ todo = "count"
  /\ qty' = [qty EXCEPT ![kind] = @ + 1]
  /\ todo' = "read"
  /\ See
  /\ UNCHANGED <<ipmi_log, kind, file, line, value, rows, report>>

\* The fans follow the temperatures, in the same variable.
EndFile ==
  /\ kind # "none" /\ todo = "read" /\ line = Len(file[kind])
  /\ kind' = IF kind = "temp" THEN "fan" ELSE "none"
  /\ file' = IF kind = "temp" THEN [file EXCEPT !["fan"] = ipmi_log["fan"]] ELSE file
  /\ line' = 0
  /\ UNCHANGED <<ipmi_log, value, todo, qty, rows, report, seen>>

GetIpmiSensors == Begin \/ ReadSensor \/ Store \/ Count \/ EndFile

-----------------------------------------------------------------------------
(***************************************************************************)
(* update_logdev_write                                                     *)
(***************************************************************************)
BeginReport ==
  /\ ~printing
  /\ printing' = TRUE
  /\ nth' = 0
  /\ printed' = NoRow
  /\ seen' = {rows["temp"][n] : n \in 0..(qty["temp"] - 1)}
  /\ UNCHANGED <<ipmi_log, tables, positive>>

\* Mutant: one row too far.
UpTo(n) == n <= qty["temp"] /\ n < MaxSensors

Below(n) == n < qty["temp"]

\* The number is read once to be compared with 0 and once to be printed.
Compare ==
  /\ printing /\ ~positive /\ Below(nth)
  /\ IF rows["temp"][nth].value > 0 THEN positive' = TRUE /\ UNCHANGED nth
                                    ELSE nth' = nth + 1 /\ UNCHANGED positive
  /\ UNCHANGED <<ipmi_log, tables, printing, printed, seen>>

PrintRow ==
  /\ positive
  /\ printed' = rows["temp"][nth]
  /\ positive' = FALSE
  /\ nth' = nth + 1
  /\ UNCHANGED <<ipmi_log, tables, printing, seen>>

\* The rest of the report: "Not supported" if temp_qty is 0 now, and the tests.
EndReport ==
  /\ printing /\ ~positive /\ ~Below(nth)
  /\ printing' = FALSE
  /\ printed' = NoRow
  /\ seen' = {}
  /\ UNCHANGED <<ipmi_log, tables, nth, positive>>

Report == BeginReport \/ Compare \/ PrintRow \/ EndReport

SensorsNext == (\E k \in Kinds : Measure(k)) \/ GetIpmiSensors \/ Report

SensorsSpec == SensorsInit /\ [][SensorsNext]_sensorvars

-----------------------------------------------------------------------------
\* The last number among the first n readings, 0 if there is none.
LastIn(readings, n) ==
  LET numbers == {l \in 1..n : readings[l] \notin {Text, Blank}}
  IN  IF numbers = {} THEN 0 ELSE readings[Max(numbers)]

\* ... of both files together.
LastNumber(n) == LastIn(file["temp"] \o file["fan"], n)

\* Outside get_ipmi_sensors a table is what one version of its file says: a row
\* for each line that is not text, as many as there is room for, with the number
\* of the line, or for a blank line the number before it (a fan may show a
\* temperature), although the files are replaced while they are read.
SensorsParsed ==
  kind = "none" =>
    \A k \in Kinds :
      LET taken == {l \in 1..Len(file[k]) : file[k][l] # Text}
          before == IF k = "fan" THEN Len(file["temp"]) ELSE 0
      IN  /\ qty[k] = Min({Cardinality(taken), MaxSensors})
          /\ \A n \in 0..(qty[k] - 1) :
               LET row == rows[k][n]
               IN  /\ row.line \in taken
                   /\ Cardinality({l \in taken : l < row.line}) = n
                   /\ row.value = LastNumber(before + row.line)

\* What a report of the log thread prints is a row that temp_data had at some
\* moment of the report, though the table is emptied and filled under it.
ReportTrue == printed # NoRow => printed \in seen
=============================================================================
