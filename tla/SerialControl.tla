---------------------------- MODULE SerialControl ----------------------------
(***************************************************************************)
(* The RFC 2217 control messages of tether mode: the OnControl callback of *)
(* runServerTether (internal/agent/tether.go) over Port.Reconfigure and    *)
(* the parsers of internal/serial/port.go.                                 *)
(*                                                                         *)
(* A line mode is what go.bug.st/serial calls a Mode; its StopBits is an   *)
(* enumeration, 0 for one bit, 1 for one and a half, 2 for two.  Messages  *)
(* come from the partner, with any value JSON can carry: a number, which   *)
(* need not be whole, a string, or something else.                         *)
(***************************************************************************)
EXTENDS Integers

CONSTANTS
  Configured,       \* the agent's cfg.Serial, checked by runServer
  Bauds,            \* the rates the device can run at
  Unit,             \* numbers are sent as so many 1/Unit
  Numbers,          \* bound: the numbers a partner sends, in that unit
  Strings,          \* bound: the strings it sends
  OnePointFive      \* the platform accepts one and a half stop bits

(* The parsers give an error and the zero value for what they do not know. *)
Parities == {"none", "odd", "even", "mark", "space"}

ParseParity(p) ==
  IF p \in Parities THEN [ok |-> TRUE, val |-> p] ELSE [ok |-> FALSE, val |-> "none"]

ParseDataBits(n) ==
  IF n \in 5 .. 8 THEN [ok |-> TRUE, val |-> n] ELSE [ok |-> FALSE, val |-> 0]

OneStopBit == 0
OnePointFiveStopBits == 1
TwoStopBits == 2

ParseStopBits(n) ==
  CASE n = 1 -> [ok |-> TRUE, val |-> OneStopBit]
    [] n = 2 -> [ok |-> TRUE, val |-> TwoStopBits]
    [] OTHER -> [ok |-> FALSE, val |-> 0]

ASSUME SerialControlAssumption ==
  /\ Bauds \subseteq Nat /\ Unit \in Nat \ {0} /\ Numbers \subseteq Int
  /\ OnePointFive \in BOOLEAN
  /\ Configured.baud \in Bauds
  /\ ParseParity(Configured.parity).ok
  /\ ParseDataBits(Configured.dataBits).ok
  /\ ParseStopBits(Configured.stopBits).ok

\* int(v) of a float64: the fraction is cut off, towards zero.
Truncated(n) == IF n >= 0 THEN n \div Unit ELSE -((-n) \div Unit)

Settings == {"baud", "dataBits", "parity", "stopBits"}

\* The mode runServer opens the port with.
OpenMode == [baud |-> Configured.baud,
             dataBits |-> ParseDataBits(Configured.dataBits).val,
             parity |-> ParseParity(Configured.parity).val,
             stopBits |-> ParseStopBits(Configured.stopBits).val]

(* The modes SetMode of go.bug.st/serial can set on this platform. *)
Valid(m) ==
  /\ m.baud \in Bauds
  /\ m.dataBits \in 5 .. 8
  /\ m.parity \in Parities
  /\ m.stopBits \in (IF OnePointFive THEN 0 .. 2 ELSE {0, 2})

VARIABLES
  line,         \* the mode the device runs in
  config,       \* Port.config
  asked,        \* history: per setting, the last value a request obtained,
                \* numbers in the unit of the messages
  last          \* history: the setting of the last request obtained

vars == <<line, config, asked, last>>

Modes == [baud : Bauds, dataBits : 5 .. 8, parity : Parities, stopBits : 0 .. 2]

TypeOK ==
  /\ line \in Modes
  /\ config \in Modes
  /\ asked \in [baud : Int, dataBits : Int, parity : Parities \cup Strings,
               stopBits : Int]
  /\ last \in Settings \cup {"none"}

Init ==
  /\ line = OpenMode
  /\ config = OpenMode
  /\ asked = [baud |-> Configured.baud * Unit,
              dataBits |-> Configured.dataBits * Unit,
              parity |-> Configured.parity,
              stopBits |-> Configured.stopBits * Unit]
  /\ last = "none"

\* Mutant: the stored config takes a mode the device refused.
ReconfigureBlind(m, setting, value) ==
  /\ config' = m
  /\ \/ /\ Valid(m)
        /\ line' = m
        /\ asked' = [asked EXCEPT ![setting] = value]
        /\ last' = setting
     \/ UNCHANGED <<line, asked, last>>

(* Port.Reconfigure: SetMode, and only then the stored config.  The device *)
(* may refuse any mode (it was unplugged); the callback logs the error.    *)
Reconfigure(m, setting, value) ==
  \/ /\ Valid(m)
     /\ line' = m
     /\ config' = m
     /\ asked' = [asked EXCEPT ![setting] = value]
     /\ last' = setting
  \/ UNCHANGED vars

SetBaud(n) ==
  Reconfigure([OpenMode EXCEPT !.baud = Truncated(n)], "baud", n)

\* The error of ParseParity is dropped: an unknown parity is "none".
SetParity(p) ==
  Reconfigure([OpenMode EXCEPT !.parity = ParseParity(p).val], "parity", p)

SetDataBits(n) ==
  Reconfigure([OpenMode EXCEPT !.dataBits = Truncated(n)], "dataBits", n)

\* The number is converted to the enumeration as it is.
SetStopBits(n) ==
  Reconfigure([OpenMode EXCEPT !.stopBits = Truncated(n)], "stopBits", n)

\* An unknown sub-type, or a value of the wrong type, leaves a log line only.
Next ==
  \/ \E n \in Numbers : SetBaud(n) \/ SetDataBits(n) \/ SetStopBits(n)
  \/ \E p \in Strings : SetParity(p)

Spec == Init /\ [][Next]_vars

-----------------------------------------------------------------------------
(***************************************************************************)
(* What the port remembers is what the device does: a mode the device      *)
(* refuses changes neither.                                                *)
(***************************************************************************)
ConfigIsLine == config = line

(***************************************************************************)
(* The sequence of the README, set_baud(115200) and then set_parity(none), *)
(* each answered with the value set: a rate once obtained stays until a    *)
(* request for another rate.                                               *)
(***************************************************************************)
BaudIsKept == line.baud = Truncated(asked.baud)

(***************************************************************************)
(* "RFC 2217 control: baud/parity/stopbits remote config": the line has    *)
(* the number of stop bits the last request obtained.                      *)
(***************************************************************************)
StopBitsAsAsked ==
  \A n \in {1, 2} :
    last = "stopBits" /\ asked.stopBits = n * Unit =>
      line.stopBits = ParseStopBits(n).val
=============================================================================
