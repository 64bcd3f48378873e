----------------------------- MODULE LogDevice -----------------------------
(***************************************************************************)
(* The messages of breakin and the streams they go to.  log_message and    *)
(* log_error write to the log window and the log file, which are there     *)
(* from the start and stand here as one stream, then to the log device and *)
(* the serial port, one after the other and without a lock, while main     *)
(* opens these two (start_logdev, start_serial) and says what it does.     *)
(* The other thread that logs is the update thread, with every line it     *)
(* finds in a log (LogTail).                                               *)
(***************************************************************************)
EXTENDS LogTail

Streams == {"window", "device", "serial"}
Threads == {"main", "update"}

VARIABLES
  serial_enabled,
  open,     \* the streams that are not NULL
  since,    \* history: how much each thread had written when a stream was opened
  out,      \* what each thread has written to each stream
  message,  \* what a thread is logging
  left,     \* the streams it has not come to yet
  step,     \* where main is
  headed,   \* the streams that have the header
  failed,   \* history: the calls that have failed
  crashed   \* something was written to NULL

streams == <<serial_enabled, open, since, out, message, left, headed, failed, crashed>>
logvars == <<logs, streams, step>>

\* A message of main, in the form of those that show a part of a log.
Note(m) == [of |-> m, from |-> 0, to |-> 0]

LogInit ==
  /\ TailInit
  /\ serial_enabled \in BOOLEAN
  /\ open = {"window"}
  /\ since = [s \in Streams |-> [t \in Threads |-> 0]]
  /\ out = [s \in Streams |-> [t \in Threads |-> <<>>]]
  /\ message = [t \in Threads |-> Note("none")]
  /\ left = [t \in Threads |-> <<>>]
  /\ step = "hardware"
  /\ headed = {}
  /\ failed = {}
  /\ crashed = FALSE

-----------------------------------------------------------------------------
(***************************************************************************)
(* log_message and log_error                                               *)
(***************************************************************************)
Free(t) == left[t] = <<>> /\ ~crashed

\* The window comes first; the others are taken when their turn comes.
Log(t, m) ==
  /\ message' = [message EXCEPT ![t] = m]
  /\ left' = [left EXCEPT ![t] = <<"device", "serial">>]
  /\ out' = [out EXCEPT !["window"][t] = Append(@, m)]

\* Mutant: the serial port is the else of the log device.
TakesElse(s) == s \in open /\ (s = "serial" => serial_enabled /\ "device" \notin open)

Takes(s) == s \in open /\ (s = "serial" => serial_enabled)

\* Each fprintf with its fflush.
Fprintf(t) ==
  /\ left[t] # <<>> /\ ~crashed
  /\ out' = IF Takes(Head(left[t])) THEN [out EXCEPT ![Head(left[t])][t] = Append(@, message[t])]
                                    ELSE out
  /\ left' = [left EXCEPT ![t] = Tail(@)]
  /\ message' = [message EXCEPT ![t] = IF Tail(left[t]) = <<>> THEN Note("none") ELSE @]
  /\ UNCHANGED <<logs, serial_enabled, open, since, step, headed, failed, crashed>>

-----------------------------------------------------------------------------
(***************************************************************************)
(* The update thread: what it reads it logs.                               *)
(***************************************************************************)
ReadAndLog ==
  /\ Free("update")
  /\ ReadLine
  /\ IF Shown(look, at, at') THEN Log("update", [of |-> look, from |-> at, to |-> at'])
                             ELSE UNCHANGED <<message, left, out>>
  /\ UNCHANGED <<serial_enabled, open, since, step, headed, failed, crashed>>

Update ==
  \/ ReadAndLog
  \/ Free("update") /\ (NoLog \/ OpenLog \/ EndLook) /\ UNCHANGED <<streams, step>>
  \/ Fprintf("update")

-----------------------------------------------------------------------------
(***************************************************************************)
(* main, from the end of the hardware setup to the start of the tests      *)
(***************************************************************************)
Say(from, m, to) ==
  /\ step = from /\ Free("main")
  /\ Log("main", Note(m))
  /\ step' = to
  /\ UNCHANGED <<logs, serial_enabled, open, since, headed, failed, crashed>>

EndHardware == Say("hardware", "Finished hardware setup", "logdev")

Open(s) ==
  /\ open' = open \cup {s}
  /\ since' = [since EXCEPT ![s] = [t \in Threads |-> Len(out["window"][t])]]
  /\ UNCHANGED failed

Fail(call) == failed' = failed \cup {call} /\ UNCHANGED <<open, since>>

\* Without the log device there is no serial log either.
OpenLogdev ==
  /\ step = "logdev" /\ Free("main")
  /\ \/ Open("device") /\ step' = IF serial_enabled THEN "starting" ELSE "header"
     \/ Fail("logdev") /\ step' = "ready"
  /\ UNCHANGED <<logs, serial_enabled, out, message, left, headed, crashed>>

StartSerial == Say("starting", "Starting serial port logging", "serial")

\* open, and fdopen; after its failure `exit;` calls nothing.
OpenSerial ==
  /\ step = "serial" /\ Free("main")
  /\ Open("serial") \/ Fail("fdopen")
  /\ step' = "header"
  /\ UNCHANGED <<logs, serial_enabled, out, message, left, headed, crashed>>

\* open fails.
SerialError == Say("serial", "Error opening serial port", "disable")

\* Mutant: the serial log stays enabled.
StayEnabled == serial_enabled' = serial_enabled

Disable == serial_enabled' = FALSE

DisableSerial ==
  /\ step = "disable" /\ Free("main")
  /\ Disable
  /\ step' = "header"
  /\ UNCHANGED <<logs, open, since, out, message, left, headed, failed, crashed>>

\* header_logdev, for both streams
Header(from, s, to) ==
  /\ step = from /\ Free("main")
  /\ IF s \in open THEN headed' = headed \cup {s} /\ UNCHANGED crashed
                   ELSE crashed' = TRUE /\ UNCHANGED headed
  /\ step' = to
  /\ UNCHANGED <<logs, serial_enabled, open, since, out, message, left, failed>>

DeviceHeader == Header("header", "device", IF serial_enabled THEN "header 2" ELSE "ready")

SerialHeader == Header("header 2", "serial", "ready")

\* "Serial logging enabled", if that is what main thinks, and the tests start.
Announce ==
  \/ serial_enabled /\ Say("ready", "Serial logging enabled", "start")
  \/ /\ step = "ready" /\ Free("main") /\ ~serial_enabled
     /\ step' = "start"
     /\ UNCHANGED <<logs, streams>>

StartTests == Say("start", "Starting burnin tests", "tests")

Main == \/ EndHardware \/ OpenLogdev \/ StartSerial \/ OpenSerial \/ SerialError
        \/ DisableSerial \/ DeviceHeader \/ SerialHeader \/ Announce \/ StartTests
        \/ Fprintf("main")

Writers ==
  /\ \E f \in Logs : Touch(f) \/ \E piece \in Pieces : Written(f, piece)
  /\ UNCHANGED <<streams, step>>

LogNext == Writers \/ Update \/ Main

LogSpec == LogInit /\ [][LogNext]_logvars

\* Both threads are scheduled, and the streams take what is written.
LogFairness == WF_logvars(Update) /\ WF_logvars(Main)
LogFair == LogSpec /\ LogFairness

-----------------------------------------------------------------------------
\* From when a stream is open it gets what each thread writes to the window: the
\* same messages in the same order, without a gap, up to the one the thread is at.
SameInAll ==
  \A s \in open, t \in Threads :
    LET all == out["window"][t]
        last == IF left[t] = <<>> THEN {Len(all)} ELSE {Len(all) - 1, Len(all)}
    IN  \E k \in {since[s][t], since[s][t] + 1} \ {0}, n \in last : out[s][t] = SubSeq(all, k, n)

\* Unless fdopen has failed, main does not write to a stream that is NULL, and
\* the streams that are open when the tests start are those with the header.
NoNullStream ==
  "fdopen" \notin failed =>
    ~crashed /\ (step = "tests" => headed = open \cap {"device", "serial"})

Holds(m, f, n) == m.of = f /\ m.from < n /\ n <= m.to

\* Every piece of the error log from its first look on, and every severe piece of
\* the system log, also of a line that was met half written, is in a message.
SevereShown ==
  \A f \in Logs : \A n \in (begun[f] + 1)..Reached(f) :
    begun[f] # -1 /\ (f = "error" \/ text[f][n].severe) =>
      \E k \in 1..Len(out["window"]["update"]) : Holds(out["window"]["update"][k], f, n)

\* What a test appends to the error log after the first look, when main has
\* started the tests and the log device is open, gets onto the log device.
ErrorsReachDevice ==
  \A n \in 1..MaxText :
    (/\ step = "tests" /\ "device" \in open
     /\ begun["error"] \in 0..(n - 1) /\ Reached("error") < n /\ n <= Len(text["error"]))
    ~> (\E k \in 1..Len(out["device"]["update"]) : Holds(out["device"]["update"][k], "error", n))
============================================================================
