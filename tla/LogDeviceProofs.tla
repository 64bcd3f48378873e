-------------------------- MODULE LogDeviceProofs --------------------------
(***************************************************************************)
(* Proofs about LogTail and LogDevice for logs of any length.              *)
(***************************************************************************)
EXTENDS LogDevice, TLAPS

Stretches == [from : Nat, to : Nat]
Offsets == Nat \cup {-1}

\* The places the update thread keeps, and what it has been told.  It follows that
\* nothing was told of a log, and no place kept, before the first look.
TailInv ==
  /\ text \in [Logs -> Seq(Pieces)]
  /\ pos \in [Logs -> Offsets] /\ begun \in [Logs -> Offsets]
  /\ told \in [Logs -> Seq(Stretches)]
  /\ look \in Logs /\ at \in Offsets
  /\ ToldOnce

\* One log's part of ToldOnce: the stretches lie end to end from b to r.
Tiles(s, b, r) ==
  IF s = <<>> THEN r = b
  ELSE /\ s[1].from = b
       /\ s[Len(s)].to = r
       /\ \A k \in 1..(Len(s) - 1) : s[k].to = s[k + 1].from

LEMMA ToldTiles == ToldOnce <=> \A f \in Logs : Tiles(told[f], begun[f], Reached(f))
BY DEF ToldOnce, Tiles

LEMMA TilesAppend ==
  ASSUME NEW s \in Seq(Stretches), NEW b \in Offsets, NEW r \in Nat, NEW to \in Nat, Tiles(s, b, r)
  PROVE  Tiles(Append(s, [from |-> r, to |-> to]), b, to)
<1> DEFINE new == [from |-> r, to |-> to]
           all == Append(s, new)
<1>1. Len(all) = Len(s) + 1 /\ all[Len(all)] = new /\ all # <<>> /\ Len(s) \in Nat
  OBVIOUS
<1>2. \A k \in 1..Len(s) : all[k] = s[k]
  OBVIOUS
<1>3. CASE s = <<>>
  BY <1>1, <1>3 DEF Tiles
<1>4. CASE s # <<>>
  <2>1. all[1].from = b
    BY <1>2, <1>4 DEF Tiles
  <2>2. \A k \in 1..Len(s) : all[k].to = all[k + 1].from
    BY <1>1, <1>2, <1>4 DEF Tiles
  <2> QED
    BY <1>1, <2>1, <2>2 DEF Tiles
<1> QED
  BY <1>3, <1>4

LEMMA InitTail == TailInit => TailInv
<1> SUFFICES ASSUME TailInit PROVE TailInv
  OBVIOUS
<1>1. /\ text \in [Logs -> Seq(Pieces)] /\ told \in [Logs -> Seq(Stretches)]
      /\ pos \in [Logs -> Offsets] /\ begun \in [Logs -> Offsets]
      /\ look \in Logs /\ at \in Offsets
  BY DEF TailInit, Offsets, Logs
<1>2. ToldOnce
  BY DEF TailInit, ToldOnce, Reached
<1> QED
  BY <1>1, <1>2 DEF TailInv

\* Before the first look there is nothing to go on from, and after it there is.
LEMMA Begun ==
  ASSUME TailInv, NEW f \in Logs
  PROVE  (begun[f] = -1) <=> (Reached(f) = -1)
<1>1. Tiles(told[f], begun[f], Reached(f))
  BY ToldTiles DEF TailInv
<1>2. told[f] # <<>> => begun[f] \in Nat /\ Reached(f) \in Nat
  <2> SUFFICES ASSUME told[f] # <<>> PROVE told[f][1] \in Stretches /\ told[f][Len(told[f])] \in Stretches
    BY <1>1 DEF Tiles, Stretches
  <2>1. told[f] \in Seq(Stretches) /\ Len(told[f]) \in Nat \ {0}
    BY DEF TailInv
  <2> QED
    BY <2>1
<1> QED
  BY <1>1, <1>2 DEF Tiles

LEMMA OpenTail == TailInv /\ OpenLog => TailInv'
<1> SUFFICES ASSUME TailInv, OpenLog PROVE TailInv'
  OBVIOUS
<1>1. at = -1 /\ Reached(look) = pos[look] /\ look \in Logs /\ look' = look /\ pos' = pos
  BY DEF OpenLog, Reached, TailInv
<1>2. Seek(look) \in Nat
  BY DEF Seek, TailInv, Offsets
<1>3. /\ begun' \in [Logs -> Offsets] /\ at' \in Nat
      /\ text' \in [Logs -> Seq(Pieces)] /\ pos' \in [Logs -> Offsets]
      /\ told' \in [Logs -> Seq(Stretches)]
  BY <1>2 DEF OpenLog, TailInv, Offsets
<1>4. ASSUME NEW f \in Logs PROVE Tiles(told'[f], begun'[f], Reached(f)')
  <2>1. Tiles(told[f], begun[f], Reached(f)) /\ told'[f] = told[f]
    BY ToldTiles DEF TailInv, OpenLog
  <2>2. CASE f # look
    BY <1>1, <2>1, <2>2 DEF OpenLog, Reached, TailInv
  <2>3. CASE f = look /\ begun[f] = -1
    <3>1. pos[f] = -1 /\ told[f] = <<>>
      <4>1. Reached(f) = -1
        BY <2>3, Begun
      <4>2. told[f] # <<>> => told[f][1] \in Stretches
        BY DEF TailInv
      <4> QED
        BY <1>1, <2>1, <2>3, <4>1, <4>2 DEF Tiles, Stretches
    <3>2. begun'[f] = Seek(f) /\ Reached(f)' = Seek(f)
      BY <1>1, <1>2, <2>3 DEF OpenLog, Reached, TailInv
    <3> QED
      BY <2>1, <3>1, <3>2 DEF Tiles
  <2>4. CASE f = look /\ begun[f] # -1
    <3>1. pos[f] # -1
      BY <1>1, <2>4, Begun
    <3>2. begun'[f] = begun[f] /\ Reached(f)' = pos[f]
      BY <1>1, <1>2, <2>4, <3>1 DEF OpenLog, Reached, Seek, TailInv
    <3> QED
      BY <1>1, <2>1, <2>4, <3>2
  <2> QED
    BY <2>2, <2>3, <2>4
<1>5. ToldOnce'
  BY <1>4 DEF ToldOnce, Tiles
<1> QED
  BY <1>1, <1>3, <1>5 DEF TailInv, Offsets

LEMMA ReadTail == TailInv /\ ReadLine => TailInv'
<1> SUFFICES ASSUME TailInv, ReadLine PROVE TailInv'
  OBVIOUS
<1>1. PICK to \in (at + 1)..Len(text[look]) :
        at' = to /\ told' = [told EXCEPT ![look] = Append(@, [from |-> at, to |-> to])]
  BY DEF ReadLine
<1>2. at \in Nat /\ to \in Nat /\ at' \in Nat /\ look \in Logs
      /\ UNCHANGED <<text, pos, begun, look>>
  BY <1>1 DEF ReadLine, TailInv, Offsets
<1>3. told' \in [Logs -> Seq(Stretches)]
  BY <1>1, <1>2 DEF TailInv, Stretches
<1>4. ASSUME NEW f \in Logs PROVE Tiles(told'[f], begun'[f], Reached(f)')
  <2>1. Tiles(told[f], begun[f], Reached(f))
    BY ToldTiles DEF TailInv
  <2>2. CASE f # look
    BY <1>1, <1>2, <2>1, <2>2 DEF Reached, TailInv
  <2>3. CASE f = look
    <3>1. Reached(f) = at /\ Reached(f)' = to
      BY <1>1, <1>2, <2>3 DEF Reached
    <3>2. told'[f] = Append(told[f], [from |-> at, to |-> to])
      BY <1>1, <2>3 DEF TailInv
    <3>3. told[f] \in Seq(Stretches) /\ begun[f] \in Offsets /\ begun'[f] = begun[f]
      BY <1>2 DEF TailInv
    <3> QED
      BY <1>2, <2>1, <3>1, <3>2, <3>3, TilesAppend
  <2> QED
    BY <2>2, <2>3
<1>5. ToldOnce'
  BY <1>4 DEF ToldOnce, Tiles
<1> QED
  BY <1>2, <1>3, <1>5 DEF TailInv, Offsets

LEMMA EndTail == TailInv /\ EndLook => TailInv'
<1> SUFFICES ASSUME TailInv, EndLook PROVE TailInv'
  OBVIOUS
<1>1. look \in Logs /\ look' \in Logs /\ look' # look
  BY DEF TailInv, EndLook, Other, Logs
<1>2. pos' = [pos EXCEPT ![look] = at] /\ at' = -1 /\ at \in Nat /\ UNCHANGED <<text, begun, told>>
  BY DEF EndLook, Keep, TailInv, Offsets
<1>3. pos' \in [Logs -> Offsets]
  BY <1>1, <1>2 DEF TailInv, Offsets
<1>4. \A f \in Logs : Reached(f)' = Reached(f)
  BY <1>1, <1>2 DEF Reached, TailInv
<1>5. ToldOnce'
  BY <1>2, <1>4 DEF ToldOnce, TailInv
<1> QED
  BY <1>1, <1>2, <1>3, <1>5 DEF TailInv, Offsets

LEMMA NoLogTail == TailInv /\ NoLog => TailInv'
<1> SUFFICES ASSUME TailInv, NoLog PROVE TailInv'
  OBVIOUS
<1>1. look' \in Logs /\ at = -1 /\ UNCHANGED <<text, pos, begun, told, at>>
  BY DEF TailInv, NoLog, Other, Logs
<1>2. \A f \in Logs : Reached(f)' = Reached(f)
  BY <1>1 DEF Reached
<1> QED
  BY <1>1, <1>2 DEF TailInv, ToldOnce

LEMMA WriteTail == TailInv /\ Writers => TailInv'
<1> SUFFICES ASSUME TailInv, Writers PROVE TailInv'
  OBVIOUS
<1>1. UNCHANGED reader
  BY DEF Writers, Touch, Written
<1>2. text' \in [Logs -> Seq(Pieces)]
  <2>1. PICK f \in Logs : Touch(f) \/ \E piece \in Pieces : Written(f, piece)
    BY DEF Writers
  <2>2. CASE Touch(f)
    BY <2>2 DEF TailInv, Touch
  <2>3. ASSUME NEW piece \in Pieces, Written(f, piece) PROVE text' \in [Logs -> Seq(Pieces)]
    <3>1. text' = [text EXCEPT ![f] = Append(text[f], piece)]
      BY <2>3 DEF Written
    <3>2. text[f] \in Seq(Pieces) /\ Append(text[f], piece) \in Seq(Pieces)
      BY DEF TailInv
    <3> QED
      BY <3>1, <3>2 DEF TailInv
  <2> QED
    BY <2>1, <2>2, <2>3
<1> QED
  BY <1>1, <1>2 DEF TailInv, ToldOnce, Reached, reader

LEMMA NextTail == TailInv /\ [LogNext]_logvars => TailInv'
<1> SUFFICES ASSUME TailInv, [LogNext]_logvars PROVE TailInv'
  OBVIOUS
<1>1. CASE UNCHANGED logs
  BY <1>1 DEF logs, reader, TailInv, ToldOnce, Reached
<1>2. CASE ReadAndLog
  BY <1>2, ReadTail DEF ReadAndLog
<1>3. CASE NoLog \/ OpenLog \/ EndLook
  BY <1>3, NoLogTail, OpenTail, EndTail
<1>4. CASE Writers
  BY <1>4, WriteTail
<1>5. Main => UNCHANGED logs
  BY DEF Main, EndHardware, OpenLogdev, StartSerial, OpenSerial, SerialError, DisableSerial,
         DeviceHeader, SerialHeader, Announce, StartTests, Fprintf, Say, Header
<1>6. Fprintf("update") \/ UNCHANGED logvars => UNCHANGED logs
  BY DEF Fprintf, logvars
<1> QED
  BY <1>1, <1>2, <1>3, <1>4, <1>5, <1>6 DEF LogNext, Update

\* Whatever is appended to the two logs, and whenever: nothing is passed over and
\* nothing taken twice from the first look on (monitor_syslog and show_log).
THEOREM ToldOnceAlways == LogSpec => []ToldOnce
<1>1. LogInit => TailInv
  BY InitTail DEF LogInit
<1>2. TailInv => ToldOnce
  BY DEF TailInv
<1> QED
  BY <1>1, NextTail, <1>2, PTL DEF LogSpec

-----------------------------------------------------------------------------
\* Where main is, which streams are open and which have the header.
Opened ==
  /\ "fdopen" \notin failed => ~crashed
  /\ step \in {"hardware", "logdev"} => open = {"window"} /\ headed = {}
  /\ step \in {"starting", "serial"} =>
       open = {"window", "device"} /\ headed = {} /\ serial_enabled = TRUE
  /\ step = "disable" => open = {"window", "device"} /\ headed = {}
  /\ step = "header" =>
       /\ headed = {} /\ "device" \in open
       /\ "fdopen" \notin failed =>
            open = {"window", "device"} \cup (IF serial_enabled THEN {"serial"} ELSE {})
  /\ step = "header 2" =>
       /\ headed = {"device"}
       /\ "fdopen" \notin failed => open = Streams
  /\ step \in {"ready", "start", "tests"} /\ "fdopen" \notin failed =>
       headed = open \cap {"device", "serial"}

LEMMA InitOpened == LogInit => Opened
BY DEF LogInit, Opened

LEMMA MainOpened == Opened /\ serial_enabled \in BOOLEAN /\ Main => Opened'
<1> SUFFICES ASSUME Opened, serial_enabled \in BOOLEAN, Main PROVE Opened'
  OBVIOUS
<1> USE DEF Opened
<1>0. ASSUME NEW from, NEW m, NEW to, Say(from, m, to)
      PROVE  step = from /\ step' = to /\ UNCHANGED <<open, headed, failed, crashed, serial_enabled>>
  BY <1>0 DEF Say
<1>1. CASE EndHardware \/ StartSerial \/ SerialError \/ StartTests
  <2>1. CASE EndHardware
    <3>1. step = "hardware" /\ step' = "logdev" /\ UNCHANGED <<open, headed, failed, crashed, serial_enabled>>
      BY <1>0, <2>1 DEF EndHardware
    <3> QED
      BY <3>1
  <2>2. CASE StartSerial
    <3>1. step = "starting" /\ step' = "serial" /\ UNCHANGED <<open, headed, failed, crashed, serial_enabled>>
      BY <1>0, <2>2 DEF StartSerial
    <3> QED
      BY <3>1
  <2>3. CASE SerialError
    <3>1. step = "serial" /\ step' = "disable" /\ UNCHANGED <<open, headed, failed, crashed, serial_enabled>>
      BY <1>0, <2>3 DEF SerialError
    <3> QED
      BY <3>1
  <2>4. CASE StartTests
    <3>1. step = "start" /\ step' = "tests" /\ UNCHANGED <<open, headed, failed, crashed, serial_enabled>>
      BY <1>0, <2>4 DEF StartTests
    <3> QED
      BY <3>1
  <2> QED
    BY <1>1, <2>1, <2>2, <2>3, <2>4
<1>2. CASE OpenLogdev
  BY <1>2 DEF OpenLogdev, Open, Fail
<1>3. CASE OpenSerial
  BY <1>3 DEF OpenSerial, Open, Fail
<1>4. CASE DisableSerial
  BY <1>4 DEF DisableSerial, Disable
<1>5. CASE DeviceHeader
  <2>1. step = "header" /\ UNCHANGED <<open, failed, serial_enabled>>
    BY <1>5 DEF DeviceHeader, Header
  <2>2. "device" \in open /\ headed' = headed \cup {"device"} /\ crashed' = crashed
    BY <1>5, <2>1 DEF DeviceHeader, Header
  <2>3. CASE serial_enabled = TRUE
    <3>1. step' = "header 2"
      BY <1>5, <2>3 DEF DeviceHeader, Header
    <3> QED
      BY <2>1, <2>2, <2>3, <3>1 DEF Streams
  <2>4. CASE serial_enabled = FALSE
    <3>1. step' = "ready"
      BY <1>5, <2>4 DEF DeviceHeader, Header
    <3> QED
      BY <2>1, <2>2, <2>4, <3>1
  <2> QED
    BY <2>3, <2>4
<1>6. CASE SerialHeader
  BY <1>6 DEF SerialHeader, Header, Streams
<1>7. CASE Announce
  <2>1. /\ UNCHANGED <<open, headed, failed, crashed, serial_enabled>>
        /\ step = "ready" /\ step' = "start"
    BY <1>0, <1>7 DEF Announce, streams
  <2> QED
    BY <2>1
<1>8. CASE Fprintf("main")
  BY <1>8 DEF Fprintf
<1> QED
  BY <1>1, <1>2, <1>3, <1>4, <1>5, <1>6, <1>7, <1>8 DEF Main

\* Opened with the flag it depends on.
OpenedInv == Opened /\ serial_enabled \in BOOLEAN

LEMMA NextOpened == OpenedInv /\ [LogNext]_logvars => OpenedInv'
<1> SUFFICES ASSUME OpenedInv, [LogNext]_logvars PROVE OpenedInv'
  OBVIOUS
<1>1. CASE Main
  <2>1. serial_enabled' \in BOOLEAN
    BY <1>1 DEF OpenedInv, Main, EndHardware, OpenLogdev, StartSerial, OpenSerial, SerialError,
         DisableSerial, Disable, DeviceHeader, SerialHeader, Announce, StartTests, Fprintf, Say,
         Header, streams
  <2> QED
    BY <1>1, <2>1, MainOpened DEF OpenedInv
<1>2. CASE Writers \/ Update \/ UNCHANGED logvars
  <2>1. UNCHANGED <<serial_enabled, open, step, headed, failed, crashed>>
    BY <1>2 DEF Writers, Update, ReadAndLog, Fprintf, streams, logvars
  <2> QED
    BY <2>1 DEF OpenedInv, Opened
<1> QED
  BY <1>1, <1>2 DEF LogNext

LEMMA InitOpenedInv == LogInit => OpenedInv
BY InitOpened DEF LogInit, OpenedInv

\* With fopen and open failing in any way, only a failing fdopen lets main write to
\* a stream that is NULL (start_logdev and start_serial).
THEOREM NoNullStreamAlways == LogSpec => []NoNullStream
<1>1. OpenedInv => NoNullStream
  BY DEF OpenedInv, Opened, NoNullStream
<1> QED
  BY InitOpenedInv, NextOpened, <1>1, PTL DEF LogSpec

-----------------------------------------------------------------------------
Notes == {"none", "Finished hardware setup", "Starting serial port logging",
          "Error opening serial port", "Serial logging enabled", "Starting burnin tests"}
Messages == [of : Logs \cup Notes, from : Int, to : Int]

\* left holds what Log and Fprintf make of it, and the message a thread has not
\* finished is the last one in the window.
StreamInv ==
  /\ open \in SUBSET Streams
  /\ since \in [Streams -> [Threads -> Nat]]
  /\ out \in [Streams -> [Threads -> Seq(Messages)]]
  /\ message \in [Threads -> Messages]
  /\ left \in [Threads -> {<<>>, <<"device", "serial">>, <<"serial">>}]
  /\ \A t \in Threads :
       left[t] # <<>> => /\ out["window"][t] # <<>>
                         /\ message[t] = out["window"][t][Len(out["window"][t])]

LEMMA TailsOfLeft == Tail(<<"serial">>) = <<>> /\ Tail(<<"device", "serial">>) = <<"serial">>
<1>1. Tail(<<"serial">>) = <<>>
  <2>1. Len(Tail(<<"serial">>)) = 0
    OBVIOUS
  <2>2. Tail(<<"serial">>) \in Seq({"serial"})
    OBVIOUS
  <2> QED
    BY <2>1, <2>2
<1>2. Tail(<<"device", "serial">>) = <<"serial">>
  OBVIOUS
<1> QED
  BY <1>1, <1>2

\* What the two steps that write do to each stream.
LEMMA LogWrites ==
  ASSUME StreamInv, NEW t \in Threads, NEW m \in Messages, Log(t, m)
  PROVE  /\ out' \in [Streams -> [Threads -> Seq(Messages)]]
         /\ out'["window"][t] = Append(out["window"][t], m)
         /\ \A s \in Streams, u \in Threads :
              s # "window" \/ u # t => out'[s][u] = out[s][u]
         /\ message' \in [Threads -> Messages] /\ message'[t] = m
         /\ left'[t] = <<"device", "serial">>
         /\ \A u \in Threads \ {t} : message'[u] = message[u] /\ left'[u] = left[u]
         /\ left' \in [Threads -> {<<>>, <<"device", "serial">>, <<"serial">>}]
<1>1. "window" \in Streams
  BY DEF Streams
<1>2. PICK all : all = out["window"]
  OBVIOUS
<1>3. all \in [Threads -> Seq(Messages)] /\ Append(all[t], m) \in Seq(Messages)
  BY <1>1, <1>2 DEF StreamInv
<1>4. out' = [out EXCEPT !["window"] = [all EXCEPT ![t] = Append(all[t], m)]]
  BY <1>2 DEF Log
<1>5. [all EXCEPT ![t] = Append(all[t], m)] \in [Threads -> Seq(Messages)]
  BY <1>3
<1>6. out' \in [Streams -> [Threads -> Seq(Messages)]]
  BY <1>4, <1>5 DEF StreamInv
<1>7. out'["window"] = [all EXCEPT ![t] = Append(all[t], m)]
  BY <1>1, <1>4 DEF StreamInv
<1>8. \A s \in Streams : s # "window" => out'[s] = out[s]
  BY <1>4 DEF StreamInv
<1>9. message' = [message EXCEPT ![t] = m] /\ left' = [left EXCEPT ![t] = <<"device", "serial">>]
  BY DEF Log
<1> QED
  BY <1>1, <1>2, <1>3, <1>6, <1>7, <1>8, <1>9 DEF StreamInv

LEMMA FprintfWrites ==
  ASSUME StreamInv, NEW t \in Threads, Fprintf(t)
  PROVE  /\ out' \in [Streams -> [Threads -> Seq(Messages)]]
         /\ left[t] \in {<<"device", "serial">>, <<"serial">>}
         /\ Takes(Head(left[t])) =>
              out'[Head(left[t])][t] = Append(out[Head(left[t])][t], message[t])
         /\ \A s \in Streams, u \in Threads :
              s # Head(left[t]) \/ u # t \/ ~Takes(s) => out'[s][u] = out[s][u]
         /\ message' \in [Threads -> Messages]
         /\ left'[t] = Tail(left[t]) /\ (left'[t] # <<>> => message'[t] = message[t])
         /\ \A u \in Threads \ {t} : message'[u] = message[u] /\ left'[u] = left[u]
         /\ left' \in [Threads -> {<<>>, <<"device", "serial">>, <<"serial">>}]
<1>1. left[t] \in {<<"device", "serial">>, <<"serial">>}
  BY DEF Fprintf, StreamInv
<1>2. PICK s \in {"device", "serial"} : s = Head(left[t])
  BY <1>1
<1>3. s \in Streams
  BY DEF Streams
<1>4. PICK now : now = out[s]
  OBVIOUS
<1>5. now \in [Threads -> Seq(Messages)] /\ message[t] \in Messages
  BY <1>3, <1>4 DEF StreamInv
<1>6. Append(now[t], message[t]) \in Seq(Messages)
  BY <1>5
<1>7. [now EXCEPT ![t] = Append(now[t], message[t])] \in [Threads -> Seq(Messages)]
  BY <1>5, <1>6
<1>8. message' \in [Threads -> Messages]
  <2>1. Note("none") \in Messages
    BY DEF Note, Messages, Notes
  <2> QED
    BY <2>1 DEF Fprintf, StreamInv
<1>9. left' = [left EXCEPT ![t] = Tail(left[t])] /\ Tail(left[t]) \in {<<>>, <<"serial">>}
  <2>1. left' = [left EXCEPT ![t] = Tail(left[t])]
    BY DEF Fprintf
  <2>2. Tail(left[t]) \in {<<>>, <<"serial">>}
    BY <1>1, TailsOfLeft
  <2> QED
    BY <2>1, <2>2
<1>10. left' \in [Threads -> {<<>>, <<"device", "serial">>, <<"serial">>}]
  BY <1>9 DEF StreamInv
<1>11. \A u \in Threads \ {t} : message'[u] = message[u] /\ left'[u] = left[u]
  BY <1>9 DEF Fprintf, StreamInv
<1>12. left'[t] = Tail(left[t]) /\ (left'[t] # <<>> => message'[t] = message[t])
  BY <1>9 DEF Fprintf, StreamInv
<1>13. CASE Takes(s)
  <2>1. out' = [out EXCEPT ![s] = [now EXCEPT ![t] = Append(now[t], message[t])]]
    BY <1>2, <1>4, <1>13 DEF Fprintf
  <2>2. out' \in [Streams -> [Threads -> Seq(Messages)]]
    BY <1>7, <2>1 DEF StreamInv
  <2>3. out'[s] = [now EXCEPT ![t] = Append(now[t], message[t])]
    BY <1>3, <2>1 DEF StreamInv
  <2>4. \A r \in Streams : r # s => out'[r] = out[r]
    BY <2>1 DEF StreamInv
  <2>5. out'[s][t] = Append(out[s][t], message[t]) /\ \A u \in Threads : u # t => out'[s][u] = out[s][u]
    BY <1>4, <1>5, <2>3
  <2> QED
    BY <1>1, <1>2, <1>8, <1>10, <1>11, <1>12, <1>13, <2>2, <2>4, <2>5
<1>14. CASE ~Takes(s)
  <2>1. out' = out
    BY <1>2, <1>14 DEF Fprintf
  <2> QED
    BY <1>1, <1>2, <1>8, <1>10, <1>11, <1>12, <1>14, <2>1 DEF StreamInv
<1> QED
  BY <1>13, <1>14

\* What a step may do to the streams: a message begins, goes on or a stream is
\* opened, which is not open yet and then enabled if it is the serial port.
Begins == \E t \in Threads, m \in Messages :
  left[t] = <<>> /\ Log(t, m) /\ UNCHANGED <<open, since, serial_enabled>>

GoesOn == \E t \in Threads : Fprintf(t) /\ UNCHANGED <<open, since, serial_enabled>>

Opens == \E s \in {"device", "serial"} :
  /\ s \notin open /\ Open(s)
  /\ s = "serial" => serial_enabled = TRUE
  /\ UNCHANGED <<out, message, left, serial_enabled>>

Rests ==
  /\ UNCHANGED <<open, since, out, message, left>>
  /\ serial_enabled' = serial_enabled \/ "serial" \notin open

LEMMA StreamSteps ==
  ASSUME TailInv, OpenedInv, [LogNext]_logvars
  PROVE  Begins \/ GoesOn \/ Opens \/ Rests
<1>1. "main" \in Threads /\ "update" \in Threads
  BY DEF Threads
<1>2. ASSUME NEW from, NEW m \in Notes, NEW to, Say(from, m, to) PROVE Begins
  <2>1. Note(m) \in Messages
    BY DEF Note, Messages
  <2> QED
    BY <1>1, <1>2, <2>1 DEF Say, Free, Begins
<1>3. CASE EndHardware \/ StartSerial \/ SerialError \/ StartTests \/ Announce
  <2>1. CASE Announce /\ UNCHANGED streams
    BY <2>1 DEF streams, Rests
  <2> QED
    BY <1>2, <1>3, <2>1 DEF EndHardware, StartSerial, SerialError, StartTests, Announce, Notes
<1>4. CASE OpenLogdev
  <2>1. "device" \notin open
    BY <1>4 DEF OpenLogdev, OpenedInv, Opened
  <2> QED
    BY <1>4, <2>1 DEF OpenLogdev, Fail, Opens, Rests
<1>5. CASE OpenSerial
  <2>1. "serial" \notin open /\ serial_enabled = TRUE
    BY <1>5 DEF OpenSerial, OpenedInv, Opened
  <2> QED
    BY <1>5, <2>1 DEF OpenSerial, Fail, Opens, Rests
<1>6. CASE DisableSerial
  <2>1. "serial" \notin open
    BY <1>6 DEF DisableSerial, OpenedInv, Opened
  <2> QED
    BY <1>6, <2>1 DEF DisableSerial, Rests
<1>7. CASE DeviceHeader \/ SerialHeader
  BY <1>7 DEF DeviceHeader, SerialHeader, Header, Rests
<1>8. CASE Fprintf("main") \/ Fprintf("update")
  BY <1>1, <1>8 DEF Fprintf, GoesOn
<1>9. CASE ReadAndLog
  <2> DEFINE m == [of |-> look, from |-> at, to |-> at']
  <2>1. m \in Messages
    <3>1. at \in Int /\ look \in Logs
      BY DEF TailInv, Offsets
    <3>2. at' \in Int
      BY NextTail DEF TailInv, Offsets
    <3> QED
      BY <3>1, <3>2 DEF Messages
  <2>2. CASE Log("update", m)
    BY <1>1, <1>9, <2>1, <2>2 DEF ReadAndLog, Free, Begins
  <2>3. CASE UNCHANGED <<message, left, out>>
    BY <1>9, <2>3 DEF ReadAndLog, Rests
  <2> QED
    BY <1>9, <2>2, <2>3 DEF ReadAndLog
<1>10. CASE Writers \/ UNCHANGED logvars \/ UNCHANGED <<streams, step>>
  BY <1>10 DEF Writers, logvars, streams, Rests
<1> QED
  BY <1>3, <1>4, <1>5, <1>6, <1>7, <1>8, <1>9, <1>10 DEF LogNext, Main, Update

LEMMA InitStream == LogInit => StreamInv
<1> SUFFICES ASSUME LogInit PROVE StreamInv
  OBVIOUS
<1>1. Note("none") \in Messages
  BY DEF Note, Messages, Notes
<1>2. /\ open = {"window"} /\ since = [s \in Streams |-> [t \in Threads |-> 0]]
      /\ out = [s \in Streams |-> [t \in Threads |-> <<>>]]
      /\ message = [t \in Threads |-> Note("none")]
      /\ left = [t \in Threads |-> <<>>]
  BY DEF LogInit
<1>3. <<>> \in Seq(Messages)
  OBVIOUS
<1> QED
  BY <1>1, <1>2, <1>3 DEF StreamInv, Streams

LEMMA NextStream ==
  ASSUME TailInv, OpenedInv, StreamInv, [LogNext]_logvars
  PROVE  StreamInv'
<1>1. CASE Begins
  <2>1. PICK t \in Threads, m \in Messages :
          left[t] = <<>> /\ Log(t, m) /\ UNCHANGED <<open, since>>
    BY <1>1 DEF Begins
  <2>2. /\ out' \in [Streams -> [Threads -> Seq(Messages)]]
        /\ message' \in [Threads -> Messages]
        /\ left' \in [Threads -> {<<>>, <<"device", "serial">>, <<"serial">>}]
    BY <2>1, LogWrites
  <2>3. ASSUME NEW u \in Threads, left'[u] # <<>>
        PROVE  out'["window"][u] # <<>> /\ message'[u] = out'["window"][u][Len(out'["window"][u])]
    <3>1. CASE u = t
      <4>1. out'["window"][u] = Append(out["window"][u], m) /\ message'[u] = m
        BY <2>1, <3>1, LogWrites
      <4>2. out["window"][u] \in Seq(Messages)
        BY DEF StreamInv, Streams
      <4> QED
        BY <4>1, <4>2
    <3>2. CASE u # t
      <4>1. out'["window"][u] = out["window"][u] /\ message'[u] = message[u] /\ left'[u] = left[u]
        BY <2>1, <3>2, LogWrites DEF Streams
      <4> QED
        BY <2>3, <4>1 DEF StreamInv
    <3> QED
      BY <3>1, <3>2
  <2> QED
    BY <2>1, <2>2, <2>3 DEF StreamInv
<1>2. CASE GoesOn
  <2>1. PICK t \in Threads : Fprintf(t) /\ UNCHANGED <<open, since>>
    BY <1>2 DEF GoesOn
  <2>2. /\ out' \in [Streams -> [Threads -> Seq(Messages)]]
        /\ message' \in [Threads -> Messages]
        /\ left' \in [Threads -> {<<>>, <<"device", "serial">>, <<"serial">>}]
    BY <2>1, FprintfWrites
  <2>3. ASSUME NEW u \in Threads, left'[u] # <<>>
        PROVE  out'["window"][u] # <<>> /\ message'[u] = out'["window"][u][Len(out'["window"][u])]
    <3>1. Head(left[t]) # "window"
      BY <2>1, FprintfWrites
    <3>2. out'["window"][u] = out["window"][u]
      BY <2>1, <3>1, FprintfWrites DEF Streams
    <3>3. message'[u] = message[u] /\ left[u] # <<>>
      BY <2>1, <2>3, FprintfWrites
    <3> QED
      BY <3>2, <3>3 DEF StreamInv
  <2> QED
    BY <2>1, <2>2, <2>3 DEF StreamInv
<1>3. CASE Opens
  <2>1. PICK s \in {"device", "serial"} : Open(s) /\ UNCHANGED <<out, message, left>>
    BY <1>3 DEF Opens
  <2>2. open' \in SUBSET Streams
    BY <2>1 DEF Open, StreamInv, Streams
  <2>3. [t \in Threads |-> Len(out["window"][t])] \in [Threads -> Nat]
    BY DEF StreamInv, Streams
  <2>4. since' \in [Streams -> [Threads -> Nat]]
    BY <2>1, <2>3 DEF Open, StreamInv
  <2> QED
    BY <2>1, <2>2, <2>4 DEF StreamInv
<1>4. CASE Rests
  BY <1>4 DEF Rests, StreamInv
<1> QED
  BY <1>1, <1>2, <1>3, <1>4, StreamSteps

-----------------------------------------------------------------------------
\* A stream that has its turn at the present message of a thread still to come.
Pending(s, t) ==
  \/ s = "device" /\ left[t] = <<"device", "serial">>
  \/ s = "serial" /\ left[t] # <<>>

Sent(s, t) == Len(out["window"][t]) - (IF Pending(s, t) THEN 1 ELSE 0)

InStep(s, t) ==
  \E k \in {since[s][t], since[s][t] + 1} \ {0} :
    k <= Sent(s, t) + 1 /\ out[s][t] = SubSeq(out["window"][t], k, Sent(s, t))

\* An open stream has all but the message whose turn is to come, and a stream
\* that is not open has nothing.
SameInv ==
  /\ "window" \in open
  /\ "serial" \in open => serial_enabled = TRUE
  /\ \A s \in Streams \ open, t \in Threads : out[s][t] = <<>>
  /\ \A s \in open, t \in Threads : InStep(s, t)

LEMMA InitSame == LogInit => SameInv
<1> SUFFICES ASSUME LogInit PROVE SameInv
  OBVIOUS
<1>1. /\ open = {"window"}
      /\ \A s \in Streams, t \in Threads : out[s][t] = <<>> /\ since[s][t] = 0
  BY DEF LogInit
<1>2. ASSUME NEW t \in Threads PROVE InStep("window", t)
  <2>1. ~Pending("window", t)
    BY DEF Pending
  <2>2. out["window"][t] = <<>> /\ since["window"][t] = 0
    BY <1>1 DEF Streams
  <2>3. Sent("window", t) = 0
    BY <2>1, <2>2 DEF Sent
  <2>4. SubSeq(<<>>, 1, 0) = <<>>
    OBVIOUS
  <2>5. 1 \in {since["window"][t], since["window"][t] + 1} \ {0} /\ 1 <= 0 + 1
    BY <2>2
  <2>6. out["window"][t] = SubSeq(out["window"][t], 1, Sent("window", t))
    BY <2>2, <2>3, <2>4
  <2>7. 1 <= Sent("window", t) + 1
    BY <2>3
  <2> QED
    BY <2>5, <2>6, <2>7 DEF InStep
<1> QED
  BY <1>1, <1>2 DEF SameInv

\* Parts of a sequence.
LEMMA PartOfLonger ==
  ASSUME NEW S, NEW a \in Seq(S), NEW m \in S, NEW k \in 1..(Len(a) + 1)
  PROVE  SubSeq(Append(a, m), k, Len(a)) = SubSeq(a, k, Len(a))
OBVIOUS

LEMMA PartGrows ==
  ASSUME NEW S, NEW a \in Seq(S), NEW n \in Nat, n < Len(a), NEW k \in 1..(n + 1)
  PROVE  Append(SubSeq(a, k, n), a[n + 1]) = SubSeq(a, k, n + 1)
OBVIOUS

LEMMA PartIsEmpty ==
  ASSUME NEW S, NEW a \in Seq(S), NEW k \in Nat \ {0}
  PROVE  SubSeq(a, k, k - 1) = <<>>
OBVIOUS

LEMMA PartIsAll ==
  ASSUME NEW S, NEW a \in Seq(S)
  PROVE  SubSeq(a, 1, Len(a)) = a
OBVIOUS

LEMMA BeginsSame == StreamInv /\ SameInv /\ Begins => SameInv'
<1> SUFFICES ASSUME StreamInv, SameInv, Begins PROVE SameInv'
  OBVIOUS
<1>1. PICK t \in Threads, m \in Messages :
        left[t] = <<>> /\ Log(t, m) /\ UNCHANGED <<open, since, serial_enabled>>
  BY DEF Begins
<1>2. PICK w : w = out["window"][t]
  OBVIOUS
<1>3. w \in Seq(Messages)
  BY <1>2 DEF StreamInv, Streams
<1>4. out'["window"][t] = Append(w, m) /\ left'[t] = <<"device", "serial">>
  BY <1>1, <1>2, LogWrites
<1>5. ASSUME NEW s \in open, NEW u \in Threads PROVE InStep(s, u)'
  <2>1. s \in Streams
    BY DEF StreamInv
  <2>2. CASE u # t
    <3>1. out'[s][u] = out[s][u] /\ out'["window"][u] = out["window"][u] /\ left'[u] = left[u]
      BY <1>1, <2>1, <2>2, LogWrites DEF Streams
    <3>2. Sent(s, u)' = Sent(s, u)
      BY <3>1 DEF Sent, Pending
    <3> QED
      BY <1>1, <3>1, <3>2 DEF SameInv, InStep
  <2>3. CASE u = t /\ s # "window"
    <3>1. ~Pending(s, t) /\ Pending(s, t)'
      BY <1>1, <1>4, <2>1, <2>3 DEF Pending, Streams
    <3>2. Sent(s, t) = Len(w) /\ Sent(s, t)' = Len(w)
      BY <1>2, <1>3, <1>4, <3>1 DEF Sent
    <3>3. PICK k \in {since[s][t], since[s][t] + 1} \ {0} :
            k <= Len(w) + 1 /\ out[s][t] = SubSeq(w, k, Len(w))
      BY <1>2, <2>3, <3>2 DEF SameInv, InStep
    <3>4. k \in 1..(Len(w) + 1)
      BY <1>3, <2>1, <3>3 DEF StreamInv
    <3>5. out'[s][t] = out[s][t]
      BY <1>1, <2>1, <2>3, LogWrites
    <3>6. out'[s][t] = SubSeq(Append(w, m), k, Len(w))
      BY <1>3, <3>3, <3>4, <3>5, PartOfLonger
    <3> QED
      BY <1>1, <1>4, <2>3, <3>2, <3>3, <3>6 DEF InStep
  <2>4. CASE u = t /\ s = "window"
    <3>1. ~Pending(s, t) /\ ~Pending(s, t)'
      BY <2>4 DEF Pending
    <3>0. Sent(s, t) = Len(w)
      BY <1>2, <1>3, <3>1 DEF Sent
    <3>2. PICK k \in {since[s][t], since[s][t] + 1} \ {0} :
            k <= Len(w) + 1 /\ w = SubSeq(w, k, Len(w))
      <4>1. InStep(s, t) /\ w = out[s][t]
        BY <1>2, <2>4 DEF SameInv
      <4> QED
        BY <2>4, <3>0, <4>1 DEF InStep
    <3>3. k \in 1..(Len(w) + 1) /\ Len(Append(w, m)) = Len(w) + 1
      BY <1>3, <2>1, <3>2 DEF StreamInv
    <3>4. Append(w, m) = SubSeq(Append(w, m), k, Len(w) + 1)
      <4>1. Append(w, m) \in Seq(Messages) /\ Append(w, m)[Len(w) + 1] = m /\ Len(w) \in Nat
        BY <1>3
      <4>2. PICK a \in Seq(Messages) : a = Append(w, m)
        BY <4>1
      <4>5. Len(w) \in Nat /\ Len(w) < Len(a) /\ k \in 1..(Len(w) + 1)
        BY <3>3, <4>1, <4>2
      <4>3. Append(SubSeq(a, k, Len(w)), a[Len(w) + 1]) = SubSeq(a, k, Len(w) + 1)
        BY <4>1, <4>2, <4>5, PartGrows
      <4>4. SubSeq(a, k, Len(w)) = w
        BY <1>3, <3>2, <3>3, <4>2, PartOfLonger
      <4> QED
        BY <4>1, <4>2, <4>3, <4>4
    <3>5. Sent(s, t)' = Len(w) + 1
      BY <1>3, <1>4, <3>1 DEF Sent
    <3>6. out'[s][t] = SubSeq(out'["window"][t], k, Sent(s, t)')
      BY <1>4, <2>4, <3>4, <3>5
    <3>7. k <= Sent(s, t)' + 1
      BY <1>3, <3>3, <3>5
    <3>8. k \in {since'[s][t], since'[s][t] + 1} \ {0}
      BY <1>1, <3>2
    <3> QED
      BY <2>4, <3>6, <3>7, <3>8 DEF InStep
  <2> QED
    BY <2>2, <2>3, <2>4
<1>6. ASSUME NEW s \in Streams \ open, NEW u \in Threads PROVE out'[s][u] = <<>>
  <2>1. s # "window"
    BY DEF SameInv
  <2>2. out'[s][u] = out[s][u]
    BY <1>1, <2>1, LogWrites
  <2>3. out[s][u] = <<>>
    BY DEF SameInv
  <2> QED
    BY <2>2, <2>3
<1> QED
  BY <1>1, <1>5, <1>6 DEF SameInv

LEMMA GoesOnSame == StreamInv /\ SameInv /\ GoesOn => SameInv'
<1> SUFFICES ASSUME StreamInv, SameInv, GoesOn PROVE SameInv'
  OBVIOUS
<1>1. PICK t \in Threads : Fprintf(t) /\ UNCHANGED <<open, since, serial_enabled>>
  BY DEF GoesOn
<1>2. PICK r \in {"device", "serial"} : r = Head(left[t])
  <2>1. Head(left[t]) \in {"device", "serial"}
    BY <1>1, FprintfWrites
  <2> QED
    BY <2>1
<1>3. Takes(r) <=> r \in open
  BY <1>2 DEF Takes, SameInv
<1>4. \A s \in Streams, u \in Threads : s # r \/ u # t \/ s \notin open => out'[s][u] = out[s][u]
  <2>1. \A s : s \notin open => ~Takes(s)
    BY DEF Takes
  <2> QED
    BY <1>1, <1>2, <2>1, FprintfWrites
<1>5. \A u \in Threads : out'["window"][u] = out["window"][u]
  BY <1>2, <1>4 DEF Streams
<1>6. Pending(r, t) /\ ~Pending(r, t)' /\ \A s \in Streams : s # r => Pending(s, t)' = Pending(s, t)
  <2>1. left[t] \in {<<"device", "serial">>, <<"serial">>} /\ left'[t] = Tail(left[t])
    BY <1>1, FprintfWrites
  <2>2. CASE left[t] = <<"device", "serial">>
    <3>1. r = "device" /\ left'[t] = <<"serial">>
      BY <1>2, <2>1, <2>2, TailsOfLeft
    <3>2. <<"serial">> # <<"device", "serial">> /\ <<"serial">> # <<>> /\ <<"device", "serial">> # <<>>
      OBVIOUS
    <3> QED
      BY <2>2, <3>1, <3>2 DEF Pending, Streams
  <2>3. CASE left[t] = <<"serial">>
    <3>1. r = "serial" /\ left'[t] = <<>>
      BY <1>2, <2>1, <2>3, TailsOfLeft
    <3>2. <<"serial">> # <<"device", "serial">> /\ <<>> # <<"device", "serial">> /\ <<"serial">> # <<>>
      OBVIOUS
    <3> QED
      BY <2>3, <3>1, <3>2 DEF Pending, Streams
  <2> QED
    BY <2>1, <2>2, <2>3
<1>7. ASSUME NEW s \in open, NEW u \in Threads PROVE InStep(s, u)'
  <2>1. s \in Streams
    BY DEF StreamInv
  <2>2. CASE u # t \/ s # r
    <3>1. out'[s][u] = out[s][u] /\ out'["window"][u] = out["window"][u]
      BY <1>4, <1>5, <2>1, <2>2
    <3>2. Pending(s, u)' = Pending(s, u)
      <4>1. u # t => left'[u] = left[u]
        BY <1>1, FprintfWrites
      <4>2. CASE u # t
        BY <4>1, <4>2 DEF Pending
      <4>3. CASE u = t
        BY <1>6, <2>1, <2>2, <4>3
      <4> QED
        BY <4>2, <4>3
    <3>3. Sent(s, u)' = Sent(s, u)
      BY <3>1, <3>2 DEF Sent
    <3> QED
      BY <1>1, <3>1, <3>3 DEF SameInv, InStep
  <2>3. CASE u = t /\ s = r
    <3>1. PICK w : w = out["window"][t]
      OBVIOUS
    <3>2. /\ w \in Seq(Messages) /\ w # <<>> /\ message[t] = w[Len(w)] /\ Len(w) \in Nat \ {0}
      <4>1. left[t] # <<>>
        BY <1>1 DEF Fprintf
      <4> QED
        BY <3>1, <4>1 DEF StreamInv, Streams
    <3>3. Sent(s, t) = Len(w) - 1 /\ Sent(s, t)' = Len(w)
      BY <1>5, <1>6, <2>3, <3>1, <3>2 DEF Sent
    <3>4. PICK k \in {since[s][t], since[s][t] + 1} \ {0} :
            k <= Sent(s, t) + 1 /\ out[s][t] = SubSeq(w, k, Sent(s, t))
      BY <2>3, <3>1 DEF SameInv, InStep
    <3>5. k \in 1..Len(w)
      BY <2>1, <3>2, <3>3, <3>4 DEF StreamInv
    <3>6. PICK n \in Nat : n = Len(w) - 1 /\ n + 1 = Len(w) /\ n < Len(w)
      <4>1. PICK l \in Nat \ {0} : l = Len(w)
        BY <3>2
      <4>2. l - 1 \in Nat /\ (l - 1) + 1 = l /\ l - 1 < l
        OBVIOUS
      <4> QED
        BY <4>1, <4>2
    <3>7. out'[s][t] = Append(SubSeq(w, k, n), w[n + 1])
      <4>1. out'[s][t] = Append(out[s][t], message[t])
        BY <1>1, <1>2, <1>3, <2>3, FprintfWrites
      <4>2. message[t] = w[n + 1]
        BY <3>2, <3>6
      <4>3. out[s][t] = SubSeq(w, k, n)
        BY <2>3, <3>3, <3>4, <3>6
      <4> QED
        BY <4>1, <4>2, <4>3
    <3>8. out'[s][t] = SubSeq(w, k, n + 1)
      BY <3>2, <3>5, <3>6, <3>7, PartGrows
    <3>9. k <= Sent(s, t)' + 1 /\ out'[s][t] = SubSeq(out'["window"][t], k, Sent(s, t)')
      <4>1. k <= Len(w) + 1
        BY <3>2, <3>5
      <4>2. out'["window"][t] = w
        BY <1>5, <3>1
      <4> QED
        BY <3>3, <3>6, <3>8, <4>1, <4>2
    <3>10. k \in {since'[s][t], since'[s][t] + 1} \ {0}
      BY <1>1, <3>4
    <3> QED
      BY <2>3, <3>9, <3>10 DEF InStep
  <2> QED
    BY <2>2, <2>3
<1>8. \A s \in Streams \ open, u \in Threads : out'[s][u] = <<>>
  BY <1>4 DEF SameInv
<1> QED
  BY <1>1, <1>7, <1>8 DEF SameInv

\* A stream that is opened has nothing, and its first message is the one it is
\* still to have its turn at, or else the next.
LEMMA OpensSame == StreamInv /\ SameInv /\ Opens => SameInv'
<1> SUFFICES ASSUME StreamInv, SameInv, Opens PROVE SameInv'
  OBVIOUS
<1>1. PICK s \in {"device", "serial"} :
        /\ s \notin open /\ Open(s)
        /\ s = "serial" => serial_enabled = TRUE
        /\ UNCHANGED <<out, message, left, serial_enabled>>
  BY DEF Opens
<1>2. s \in Streams /\ open' = open \cup {s}
  BY <1>1 DEF Open, Streams
<1>3. /\ \A t \in Threads : since'[s][t] = Len(out["window"][t])
      /\ \A r \in Streams : r # s => since'[r] = since[r]
  BY <1>1, <1>2 DEF Open, StreamInv
<1>4. \A r, t : UNCHANGED Sent(r, t)
  BY <1>1 DEF Sent, Pending
<1>5. ASSUME NEW r \in open, NEW t \in Threads PROVE InStep(r, t)'
  <2>1. r \in Streams /\ since'[r] = since[r] /\ InStep(r, t)
    BY <1>1, <1>3 DEF StreamInv, SameInv
  <2> QED
    BY <1>1, <1>4, <2>1 DEF InStep
<1>6. ASSUME NEW t \in Threads PROVE InStep(s, t)'
  <2>1. PICK w \in Seq(Messages) : w = out["window"][t]
    BY DEF StreamInv, Streams
  <2>2. out[s][t] = <<>>
    BY <1>1, <1>2 DEF SameInv
  <2> DEFINE k == Sent(s, t) + 1
  <2>3. k \in Nat \ {0} /\ k \in {Len(w), Len(w) + 1} /\ Sent(s, t) = k - 1
    <3>1. Pending(s, t) => w # <<>>
      <4>0. <<"device", "serial">> # <<>>
        OBVIOUS
      <4>1. Pending(s, t) => left[t] # <<>>
        BY <4>0, Zenon DEF Pending
      <4> QED
        BY <2>1, <4>1 DEF StreamInv
    <3>2. w # <<>> => Len(w) \in Nat \ {0}
      OBVIOUS
    <3>3. CASE Pending(s, t)
      BY <2>1, <3>1, <3>2, <3>3 DEF Sent
    <3>4. CASE ~Pending(s, t)
      BY <2>1, <3>4 DEF Sent
    <3> QED
      BY <3>3, <3>4
  <2>4. SubSeq(w, k, Sent(s, t)) = <<>>
    BY <2>3, PartIsEmpty
  <2>5. k <= Sent(s, t) + 1
    BY <2>3
  <2>6. k \in {since'[s][t], since'[s][t] + 1} \ {0}
    BY <1>3, <2>1, <2>3
  <2> HIDE DEF k
  <2>7. k <= Sent(s, t)' + 1 /\ out'[s][t] = SubSeq(out'["window"][t], k, Sent(s, t)')
    BY <1>1, <1>4, <2>1, <2>2, <2>4, <2>5
  <2> QED
    BY <2>6, <2>7 DEF InStep
<1> QED
  BY <1>1, <1>2, <1>5, <1>6 DEF SameInv

LEMMA NextSame ==
  ASSUME TailInv, OpenedInv, StreamInv, SameInv, [LogNext]_logvars
  PROVE  SameInv'
<1>1. CASE Rests
  <2>1. UNCHANGED <<open, since, out, left>> /\ ("serial" \in open => serial_enabled' = TRUE)
    BY <1>1 DEF Rests, SameInv
  <2>2. \A s, t : UNCHANGED Sent(s, t)
    BY <2>1 DEF Sent, Pending
  <2>3. ASSUME NEW s \in open, NEW t \in Threads, InStep(s, t) PROVE InStep(s, t)'
    BY <2>1, <2>2, <2>3 DEF InStep
  <2> QED
    BY <2>1, <2>3 DEF SameInv
<1> QED
  BY <1>1, StreamSteps, BeginsSame, GoesOnSame, OpensSame

LogInv == TailInv /\ OpenedInv /\ StreamInv

LEMMA InitLogInv == LogInit => LogInv
BY InitTail, InitOpenedInv, InitStream DEF LogInit, LogInv

LEMMA NextLogInv == LogInv /\ [LogNext]_logvars => LogInv'
BY NextTail, NextOpened, NextStream DEF LogInv

\* However main and the update thread take turns in log_message and log_error, and
\* whenever main opens the log device and the serial port, these get the messages
\* of each thread in order and without a gap.
THEOREM SameInAllAlways == LogSpec => []SameInAll
<1>1. StreamInv /\ SameInv => SameInAll
  <2> SUFFICES ASSUME StreamInv, SameInv, NEW s \in open, NEW t \in Threads
               PROVE  LET all == out["window"][t]
                          last == IF left[t] = <<>> THEN {Len(all)} ELSE {Len(all) - 1, Len(all)}
                      IN  \E k \in {since[s][t], since[s][t] + 1} \ {0}, n \in last :
                            out[s][t] = SubSeq(all, k, n)
    BY DEF SameInAll
  <2>1. PICK w \in Seq(Messages) : w = out["window"][t]
    BY DEF StreamInv, Streams
  <2>2. Sent(s, t) \in IF left[t] = <<>> THEN {Len(w)} ELSE {Len(w) - 1, Len(w)}
    <3>1. left[t] = <<>> => ~Pending(s, t)
      BY DEF Pending
    <3>2. CASE Pending(s, t)
      BY <2>1, <3>1, <3>2 DEF Sent
    <3>3. CASE ~Pending(s, t)
      BY <2>1, <3>3 DEF Sent
    <3> QED
      BY <3>2, <3>3
  <2>3. PICK k \in {since[s][t], since[s][t] + 1} \ {0} : out[s][t] = SubSeq(w, k, Sent(s, t))
    BY <2>1 DEF SameInv, InStep
  <2> QED
    BY <2>1, <2>2, <2>3
<1>2. LogInv /\ SameInv /\ [LogNext]_logvars => SameInv'
  BY NextSame DEF LogInv
<1>3. LogInv /\ SameInv => SameInAll
  BY <1>1 DEF LogInv
<1> QED
  BY InitLogInv, NextLogInv, InitSame, <1>2, <1>3, PTL DEF LogSpec

-----------------------------------------------------------------------------
\* The update thread is never beyond the end of a file, and what it has passed is
\* shown where it must be.
ShownInv ==
  /\ \A f \in Logs : Reached(f) <= Len(text[f])
  /\ SevereShown

Window == out["window"]["update"]

InWindow(f, n) == \E k \in 1..Len(Window) : Holds(Window[k], f, n)

LEMMA ShownByPiece ==
  SevereShown <=>
    \A f \in Logs : \A n \in (begun[f] + 1)..Reached(f) :
      begun[f] # -1 /\ (f = "error" \/ text[f][n].severe) => InWindow(f, n)
BY DEF SevereShown, InWindow, Window

\* The window gets nothing else of the update thread's than what it reads.
LEMMA WindowKept ==
  ASSUME LogInv, [LogNext]_logvars, ~ReadAndLog
  PROVE  Window' = Window
<1>1. "window" \in Streams /\ "main" \in Threads /\ "update" \in Threads /\ "main" # "update"
  BY DEF Streams, Threads
<1>2. ASSUME NEW from, NEW m \in Notes, NEW to, Say(from, m, to) PROVE Window' = Window
  <2>1. Note(m) \in Messages
    BY DEF Note, Messages
  <2> QED
    BY <1>1, <1>2, <2>1, LogWrites DEF Say, Window, LogInv
<1>3. CASE EndHardware \/ StartSerial \/ SerialError \/ StartTests \/ Announce
  <2>1. CASE Announce /\ UNCHANGED streams
    BY <2>1 DEF streams, Window
  <2> QED
    BY <1>2, <1>3, <2>1 DEF EndHardware, StartSerial, SerialError, StartTests, Announce, Notes
<1>4. ASSUME NEW t \in Threads, Fprintf(t) PROVE Window' = Window
  <2>1. Head(left[t]) # "window"
    <3>1. left[t] \in {<<"device", "serial">>, <<"serial">>}
      BY <1>4, FprintfWrites DEF LogInv
    <3> QED
      BY <3>1
  <2> QED
    BY <1>1, <1>4, <2>1, FprintfWrites DEF LogInv, Window
<1>5. CASE OpenLogdev \/ OpenSerial \/ DisableSerial \/ DeviceHeader \/ SerialHeader
  BY <1>5 DEF OpenLogdev, OpenSerial, DisableSerial, DeviceHeader, SerialHeader, Header, Window
<1>6. CASE Writers \/ UNCHANGED logvars \/ UNCHANGED <<streams, step>>
  BY <1>6 DEF Writers, logvars, streams, Window
<1> QED
  BY <1>1, <1>3, <1>4, <1>5, <1>6 DEF LogNext, Main, Update

\* A line that is read: what must be shown of it is in the message it becomes.
LEMMA ReadShows == LogInv /\ ShownInv /\ ReadAndLog => ShownInv'
<1> SUFFICES ASSUME LogInv, ShownInv, ReadAndLog PROVE ShownInv'
  OBVIOUS
<1>1. PICK to \in (at + 1)..Len(text[look]) : at' = to
  BY DEF ReadAndLog, ReadLine
<1>2. /\ look \in Logs /\ at \in Nat /\ to \in Nat /\ at < to /\ to <= Len(text[look])
      /\ UNCHANGED <<text, pos, begun, look>>
  <2>1. text[look] \in Seq(Pieces) /\ at >= 0 /\ at \in Int /\ look \in Logs
    BY DEF LogInv, TailInv, Offsets, ReadAndLog, ReadLine
  <2> QED
    BY <1>1, <2>1 DEF ReadAndLog, ReadLine
<1>3. Reached(look) = at /\ Reached(look)' = to /\ \A f \in Logs : f # look => Reached(f)' = Reached(f)
  BY <1>1, <1>2 DEF Reached
<1>4. Window \in Seq(Messages)
  BY DEF Window, LogInv, StreamInv, Streams, Threads
<1> DEFINE m == [of |-> look, from |-> at, to |-> to]
<1>5. Window' = Append(Window, m) \/ (Window' = Window /\ ~Shown(look, at, to))
  <2>1. m \in Messages /\ "update" \in Threads
    BY <1>2 DEF Messages, Threads
  <2>2. CASE Shown(look, at, to)
    <3>1. Log("update", m)
      BY <1>1, <2>2 DEF ReadAndLog
    <3> QED
      BY <2>1, <3>1, LogWrites DEF Window, LogInv
  <2>3. CASE ~Shown(look, at, to)
    BY <1>1, <2>3 DEF ReadAndLog, Window
  <2> QED
    BY <2>2, <2>3
<1>6. ASSUME NEW f \in Logs, NEW n, InWindow(f, n) PROVE InWindow(f, n)'
  <2>1. PICK k \in 1..Len(Window) : Holds(Window[k], f, n)
    BY <1>6 DEF InWindow
  <2>2. k \in 1..Len(Window') /\ Window'[k] = Window[k]
    BY <1>4, <1>5
  <2> QED
    BY <2>1, <2>2 DEF InWindow, Holds
<1>7. \A f \in Logs : Reached(f)' <= Len(text'[f])
  BY <1>2, <1>3 DEF ShownInv
<1>8. ASSUME NEW f \in Logs, NEW n \in (begun'[f] + 1)..Reached(f)',
             begun'[f] # -1, f = "error" \/ text'[f][n].severe
      PROVE  InWindow(f, n)'
  <2>1. n \in (begun[f] + 1)..Reached(f)' /\ begun[f] # -1 /\ (f = "error" \/ text[f][n].severe)
    BY <1>2, <1>8
  <2>2. CASE n <= Reached(f)
    <3>1. n \in (begun[f] + 1)..Reached(f)
      <4>1. begun[f] \in Int /\ n \in Int /\ Reached(f) \in Int
        BY <1>3, <2>1 DEF LogInv, TailInv, Offsets, Reached
      <4> QED
        BY <2>1, <2>2, <4>1
    <3> QED
      BY <1>6, <2>1, <3>1, ShownByPiece DEF ShownInv
  <2>3. CASE ~(n <= Reached(f))
    <3>1. f = look
      <4>1. begun[f] \in Int /\ Reached(f) \in Int
        BY DEF LogInv, TailInv, Offsets, Reached
      <4> QED
        BY <1>3, <2>1, <2>3, <4>1
    <3>2. n \in (at + 1)..to
      <4>1. begun[f] \in Int
        BY DEF LogInv, TailInv, Offsets
      <4> QED
        BY <1>2, <1>3, <2>1, <2>3, <3>1, <4>1
    <3>3. Shown(look, at, to)
      BY <2>1, <3>1, <3>2 DEF Shown
    <3>4. Window' = Append(Window, m)
      BY <1>5, <3>3
    <3>5. Len(Window) + 1 \in 1..Len(Window') /\ Window'[Len(Window) + 1] = m
      BY <1>4, <3>4
    <3>6. m.of = f /\ m.from < n /\ n <= m.to
      BY <1>2, <3>1, <3>2
    <3> QED
      BY <3>5, <3>6 DEF InWindow, Holds
  <2> QED
    BY <2>2, <2>3
<1>9. SevereShown'
  <2>1. \A f \in Logs : \A n \in (begun'[f] + 1)..Reached(f)' :
          begun'[f] # -1 /\ (f = "error" \/ text'[f][n].severe) => InWindow(f, n)'
    BY <1>8
  <2> QED
    BY <2>1 DEF SevereShown, InWindow, Window
<1> QED
  BY <1>7, <1>9 DEF ShownInv

LEMMA OtherShows ==
  ASSUME LogInv, ShownInv, [LogNext]_logvars, ~ReadAndLog
  PROVE  ShownInv'
<1>1. Window' = Window
  BY WindowKept
<1>2. \A f \in Logs : /\ Len(text[f]) \in Nat /\ Len(text'[f]) \in Nat /\ begun[f] \in Int
                      /\ Reached(f) \in Int /\ Reached(f) <= Len(text[f])
  <2>1. TailInv /\ TailInv'
    BY NextLogInv DEF LogInv
  <2>2. TAKE f \in Logs
  <2>3. text[f] \in Seq(Pieces) /\ text'[f] \in Seq(Pieces) /\ begun[f] \in Int /\ Reached(f) \in Int
    BY <2>1 DEF TailInv, Offsets, Reached
  <2> QED
    BY <2>3 DEF ShownInv
\* It is enough that no log gets further, but for the first look at it, and none changes.
<1>3. ASSUME \A f \in Logs :
               /\ Reached(f)' <= Len(text'[f])
               /\ \A n \in 1..Len(text[f]) : text'[f][n] = text[f][n]
               /\ \/ begun'[f] = begun[f] /\ Reached(f)' = Reached(f)
                  \/ begun'[f] = Reached(f)'
      PROVE  ShownInv'
  <2>1. ASSUME NEW f \in Logs, NEW n \in (begun'[f] + 1)..Reached(f)',
               begun'[f] # -1, f = "error" \/ text'[f][n].severe
        PROVE  InWindow(f, n)'
    <3>1. begun'[f] \in Offsets /\ begun[f] \in Offsets
      BY NextLogInv DEF LogInv, TailInv
    <3>2. begun'[f] = begun[f] /\ Reached(f)' = Reached(f)
      <4>1. n \in Int /\ begun'[f] < n /\ n <= Reached(f)'
        BY <3>1 DEF Offsets
      <4>2. begun'[f] # Reached(f)'
        BY <3>1, <4>1 DEF Offsets
      <4> QED
        BY <1>3, <4>2
    <3>3. n \in (begun[f] + 1)..Reached(f) /\ n \in 1..Len(text[f]) /\ begun[f] # -1
      BY <1>2, <2>1, <3>1, <3>2 DEF Offsets
    <3>4. f = "error" \/ text[f][n].severe
      BY <1>3, <2>1, <3>3
    <3>5. InWindow(f, n)
      BY <3>3, <3>4, ShownByPiece DEF ShownInv
    <3> QED
      BY <1>1, <3>5 DEF InWindow
  <2>2. \A f \in Logs : \A n \in (begun'[f] + 1)..Reached(f)' :
          begun'[f] # -1 /\ (f = "error" \/ text'[f][n].severe) => InWindow(f, n)'
    BY <2>1
  <2> QED
    BY <1>3, <2>2 DEF ShownInv, SevereShown, InWindow, Window
<1>4. CASE UNCHANGED <<text, pos, begun, look, at>>
  BY <1>2, <1>3, <1>4 DEF Reached
<1>5. CASE NoLog
  <2>1. at = -1 /\ UNCHANGED <<text, pos, begun, at>>
    BY <1>5 DEF NoLog
  <2>2. \A f : Reached(f)' = Reached(f)
    BY <2>1 DEF Reached
  <2> QED
    BY <1>2, <1>3, <2>1, <2>2
<1>6. CASE EndLook
  <2>1. look \in Logs /\ at \in Nat /\ pos' = [pos EXCEPT ![look] = at] /\ at' = -1
        /\ UNCHANGED <<text, begun>>
    BY <1>6 DEF EndLook, Keep, LogInv, TailInv, Offsets
  <2>2. \A f \in Logs : Reached(f)' = Reached(f)
    BY <2>1 DEF Reached, LogInv, TailInv
  <2> QED
    BY <1>2, <1>3, <2>1, <2>2
<1>7. CASE OpenLog
  <2>1. /\ at = -1 /\ look \in Logs /\ at' = Seek(look) /\ UNCHANGED <<text, pos, look>>
        /\ begun' = [begun EXCEPT ![look] = IF begun[look] = -1 THEN Seek(look) ELSE begun[look]]
    BY <1>7 DEF OpenLog, LogInv, TailInv
  <2>2. Reached(look) = pos[look] /\ Seek(look) \in Nat /\ Reached(look)' = Seek(look)
    <3>1. Seek(look) \in Nat
      BY <2>1 DEF Seek, LogInv, TailInv, Offsets
    <3> QED
      BY <2>1, <3>1 DEF Reached
  <2>3. \A f \in Logs : f # look => Reached(f)' = Reached(f) /\ begun'[f] = begun[f]
    BY <2>1 DEF Reached, LogInv, TailInv
  <2>4. Seek(look) <= Len(text[look])
    BY <1>2, <2>1, <2>2 DEF Seek
  <2>5. CASE begun[look] = -1
    <3>1. begun'[look] = Seek(look)
      BY <2>1, <2>5 DEF LogInv, TailInv
    <3> QED
      BY <1>2, <1>3, <2>1, <2>2, <2>3, <2>4, <3>1
  <2>6. CASE begun[look] # -1
    <3>1. begun'[look] = begun[look]
      BY <2>1, <2>6 DEF LogInv, TailInv
    <3>2. pos[look] # -1
      BY <2>1, <2>2, <2>6, Begun DEF LogInv
    <3>3. Seek(look) = Reached(look)
      BY <2>2, <3>2 DEF Seek
    <3> QED
      BY <1>2, <1>3, <2>1, <2>2, <2>3, <2>4, <3>1, <3>3
  <2> QED
    BY <2>5, <2>6
<1>8. CASE Writers
  <2>1. UNCHANGED <<pos, begun, look, at>>
    BY <1>8 DEF Writers, Touch, Written, reader
  <2>2. \A f : Reached(f)' = Reached(f)
    BY <2>1 DEF Reached
  <2>3. \A f \in Logs : /\ Len(text[f]) <= Len(text'[f])
                        /\ \A n \in 1..Len(text[f]) : text'[f][n] = text[f][n]
    <3>1. CASE UNCHANGED text
      BY <1>2, <3>1
    <3>2. CASE \E f \in Logs, piece \in Pieces : Written(f, piece)
      <4>1. PICK g \in Logs, piece \in Pieces : text' = [text EXCEPT ![g] = Append(text[g], piece)]
        BY <3>2 DEF Written
      <4>2. text[g] \in Seq(Pieces) /\ text'[g] = Append(text[g], piece)
        BY <4>1 DEF LogInv, TailInv
      <4>3. \A f \in Logs : f # g => text'[f] = text[f]
        BY <4>1 DEF LogInv, TailInv
      <4>4. Len(text[g]) <= Len(text'[g]) /\ \A n \in 1..Len(text[g]) : text'[g][n] = text[g][n]
        BY <4>2
      <4> QED
        BY <1>2, <4>3, <4>4
    <3> QED
      BY <1>8, <3>1, <3>2 DEF Writers, Touch
  <2>4. \A f \in Logs : Reached(f)' <= Len(text'[f])
    BY <1>2, <2>2, <2>3
  <2> QED
    BY <1>3, <2>1, <2>2, <2>3, <2>4
<1>9. Main \/ Fprintf("update") \/ UNCHANGED logvars => UNCHANGED <<text, pos, begun, look, at>>
  BY DEF Main, EndHardware, OpenLogdev, StartSerial, OpenSerial, SerialError, DisableSerial,
         DeviceHeader, SerialHeader, Announce, StartTests, Fprintf, Say, Header, logvars, logs, reader
<1> QED
  BY <1>4, <1>5, <1>6, <1>7, <1>8, <1>9 DEF LogNext, Update

\* Every piece of the error log and every severe piece of the system log gets into
\* the window, also when it was met half written (monitor_syslog and show_log).
THEOREM SevereShownAlways == LogSpec => []SevereShown
<1>1. LogInit => ShownInv
  BY DEF LogInit, TailInit, ShownInv, SevereShown, Reached
<1>2. LogInv /\ ShownInv /\ [LogNext]_logvars => ShownInv'
  BY ReadShows, OtherShows
<1>3. ShownInv => SevereShown
  BY DEF ShownInv
<1> QED
  BY InitLogInv, NextLogInv, <1>1, <1>2, <1>3, PTL DEF LogSpec
=============================================================================
