------------------------------ MODULE LogTail ------------------------------
(***************************************************************************)
(* How the update thread follows two files that others write: the system   *)
(* log (monitor_syslog) and the error log to which tests append            *)
(* (show_log).  Each look opens the file, seeks to where the last look     *)
(* ended, reads lines to the end of the file and notes the place.  The     *)
(* first look that finds the file seeks to its end.                        *)
(*                                                                         *)
(* A file is a sequence of pieces, one for each write that did not hold    *)
(* more; a line is the pieces up to one that ends it.  Offsets count       *)
(* pieces.  What a message says is which pieces of which log it shows.     *)
(***************************************************************************)
EXTENDS Integers, Sequences

CONSTANT MaxText  \* bound: pieces in both logs together

ASSUME MaxTextAssumption == MaxText \in Nat

Logs == {"syslog", "error"}

\* severe: it holds ".err" or ".emerg", which matters in the system log only.
\* ends: it holds the end of the line.
Pieces == [severe : BOOLEAN, ends : BOOLEAN]

VARIABLES
  text,   \* what is in each log
  there,  \* the logs that exist
  pos,    \* syslog_pos and log_pos
  begun,  \* history: where the first look began, -1 before it
  told,   \* history: what fgets has returned, from one offset to another
  look,   \* the log the update thread turns to or reads
  at,     \* its offset in the open file, -1 when no file is open
  short   \* the last line read was cut off by the end of the file

reader == <<pos, begun, told, look, at, short>>
logs == <<text, there, reader>>

TailInit ==
  /\ text = [f \in Logs |-> <<>>]
  /\ there = {}
  /\ pos = [f \in Logs |-> -1]
  /\ begun = [f \in Logs |-> -1]
  /\ told = [f \in Logs |-> <<>>]
  /\ look = "syslog"
  /\ at = -1
  /\ short = FALSE

-----------------------------------------------------------------------------
(***************************************************************************)
(* The writers: syslogd, and a test (hpl) that creates the file with touch *)
(* and fills it with cat.                                                  *)
(***************************************************************************)
Touch(f) ==
  /\ there' = there \cup {f}
  /\ UNCHANGED <<text, reader>>

Written(f, piece) ==
  /\ f \in there
  /\ Len(text["syslog"]) + Len(text["error"]) < MaxText
  /\ piece.severe => f = "syslog"
  /\ text' = [text EXCEPT ![f] = Append(@, piece)]
  /\ UNCHANGED <<there, reader>>

-----------------------------------------------------------------------------
(***************************************************************************)
(* One look                                                                *)
(***************************************************************************)
Other(f) == IF f = "syslog" THEN "error" ELSE "syslog"

NoLog ==
  /\ at = -1 /\ look \notin there
  /\ look' = Other(look)
  /\ UNCHANGED <<text, there, pos, begun, told, at, short>>

\* Mutant: every look seeks to the end.
SeekEnd(f) == Len(text[f])

Seek(f) == IF pos[f] = -1 THEN Len(text[f]) ELSE pos[f]

OpenLog ==
  /\ at = -1 /\ look \in there
  /\ at' = Seek(look)
  /\ begun' = [begun EXCEPT ![look] = IF @ = -1 THEN Seek(look) ELSE @]
  /\ short' = FALSE
  /\ UNCHANGED <<text, there, pos, told, look>>

\* Where fgets stops: behind the end of the line, or at the end of the file.
LineEnd(f, from, to) ==
  /\ to = Len(text[f]) \/ text[f][to].ends
  /\ \A k \in (from + 1)..(to - 1) : ~text[f][k].ends

\* Mutant: only the end of a line is looked at.
EndsSevere(f, from, to) == f = "error" \/ text[f][to].severe

\* Of the system log only lines with .err or .emerg are passed on.
Shown(f, from, to) == f = "error" \/ \E k \in (from + 1)..to : text[f][k].severe

ReadLine ==
  /\ at >= 0
  /\ \E to \in (at + 1)..Len(text[look]) :
       /\ LineEnd(look, at, to)
       /\ at' = to
       /\ told' = [told EXCEPT ![look] = Append(@, [from |-> at, to |-> to])]
       /\ short' = ~text[look][to].ends
  /\ UNCHANGED <<text, there, pos, begun, look>>

\* Mutant: the place of a look that read nothing is not kept.
KeepSome(f) == IF at = begun[f] THEN -1 ELSE at

\* ftell
Keep(f) == at

\* Whether fgets tries again behind a line that was cut off is up to the library.
EndLook ==
  /\ at >= 0 /\ (at = Len(text[look]) \/ short)
  /\ pos' = [pos EXCEPT ![look] = Keep(look)]
  /\ at' = -1
  /\ look' = Other(look)
  /\ UNCHANGED <<text, there, begun, told, short>>

-----------------------------------------------------------------------------
\* How far the update thread has come in a log.
Reached(f) == IF look = f /\ at # -1 THEN at ELSE pos[f]

\* From the first look on nothing written to a log is passed over and nothing
\* is taken twice, whatever is appended between two reads or two looks.
ToldOnce ==
  \A f \in Logs :
    IF told[f] = <<>> THEN Reached(f) = begun[f]
    ELSE /\ told[f][1].from = begun[f]
         /\ told[f][Len(told[f])].to = Reached(f)
         /\ \A k \in 1..(Len(told[f]) - 1) : told[f][k].to = told[f][k + 1].from
=============================================================================
