------------------------- MODULE SerialControlProofs -------------------------
(***************************************************************************)
(* Proofs about SerialControl, for every configuration, every device and   *)
(* every set of values a partner sends.                                    *)
(***************************************************************************)
EXTENDS SerialControl, TLAPS

(* A request asks for the operator's mode, but for the setting it names. *)
Differs(m, setting) ==
  /\ m = [baud |-> m.baud, dataBits |-> m.dataBits, parity |-> m.parity,
          stopBits |-> m.stopBits]
  /\ \A s \in Settings \ {setting} : m[s] = OpenMode[s]

(* A value a request for this setting may carry. *)
Askable(setting, value) ==
  \/ setting \in Settings \ {"parity"} /\ value \in Int
  \/ setting = "parity" /\ value \in Parities \cup Strings

(***************************************************************************)
(* Whatever the message, the callback is one Reconfigure from the          *)
(* operator's mode.                                                        *)
(***************************************************************************)
LEMMA OneReconfigure ==
  ASSUME Next
  PROVE  \E setting \in Settings :
           \E m, value : /\ Differs(m, setting)
                         /\ Askable(setting, value)
                         /\ Reconfigure(m, setting, value)
<1>1. CASE \E n \in Numbers : SetBaud(n)
  <2>1. PICK n \in Numbers : SetBaud(n)
    BY <1>1
  <2>2. Differs([OpenMode EXCEPT !.baud = Truncated(n)], "baud")
    BY DEF Differs, OpenMode, Settings
  <2>3. Askable("baud", n)
    BY SerialControlAssumption DEF Askable, Settings
  <2> QED
    BY <2>1, <2>2, <2>3 DEF SetBaud, Settings
<1>2. CASE \E n \in Numbers : SetDataBits(n)
  <2>1. PICK n \in Numbers : SetDataBits(n)
    BY <1>2
  <2>2. Differs([OpenMode EXCEPT !.dataBits = Truncated(n)], "dataBits")
    BY DEF Differs, OpenMode, Settings
  <2>3. Askable("dataBits", n)
    BY SerialControlAssumption DEF Askable, Settings
  <2> QED
    BY <2>1, <2>2, <2>3 DEF SetDataBits, Settings
<1>3. CASE \E n \in Numbers : SetStopBits(n)
  <2>1. PICK n \in Numbers : SetStopBits(n)
    BY <1>3
  <2>2. Differs([OpenMode EXCEPT !.stopBits = Truncated(n)], "stopBits")
    BY DEF Differs, OpenMode, Settings
  <2>3. Askable("stopBits", n)
    BY SerialControlAssumption DEF Askable, Settings
  <2> QED
    BY <2>1, <2>2, <2>3 DEF SetStopBits, Settings
<1>4. CASE \E p \in Strings : SetParity(p)
  <2>1. PICK p \in Strings : SetParity(p)
    BY <1>4
  <2>2. Differs([OpenMode EXCEPT !.parity = ParseParity(p).val], "parity")
    BY DEF Differs, OpenMode, Settings
  <2>3. Askable("parity", p)
    BY DEF Askable
  <2> QED
    BY <2>1, <2>2, <2>3 DEF SetParity, Settings
<1> QED
  BY <1>1, <1>2, <1>3, <1>4 DEF Next

-----------------------------------------------------------------------------
(* The mode the port is opened with is one a line can have. *)
LEMMA OpenModeType == OpenMode \in Modes
<1>1. Configured.dataBits \in 5 .. 8
  BY SerialControlAssumption DEF ParseDataBits
<1>2. Configured.parity \in Parities
  BY SerialControlAssumption DEF ParseParity
<1>3. ParseStopBits(Configured.stopBits).val \in 0 .. 2
  BY SerialControlAssumption
     DEF ParseStopBits, OneStopBit, TwoStopBits
<1> QED
  BY <1>1, <1>2, <1>3, SerialControlAssumption
     DEF OpenMode, Modes, ParseDataBits, ParseParity

(***************************************************************************)
(* The stored config and the device's mode are always a mode of a line,    *)
(* whatever numbers and strings the messages carry.                        *)
(***************************************************************************)
THEOREM TypeCorrect == Spec => []TypeOK
<1>1. Init => TypeOK
  <2> SUFFICES ASSUME Init PROVE TypeOK
    OBVIOUS
  <2>1. /\ Configured.baud * Unit \in Int
        /\ Configured.dataBits * Unit \in Int
        /\ Configured.parity \in Parities
        /\ Configured.stopBits * Unit \in Int
    BY SerialControlAssumption
       DEF ParseDataBits, ParseParity, ParseStopBits
  <2> QED
    BY <2>1, OpenModeType DEF Init, TypeOK
<1>2. TypeOK /\ [Next]_vars => TypeOK'
  <2> SUFFICES ASSUME TypeOK, Next PROVE TypeOK'
    BY DEF TypeOK, vars
  <2>1. PICK setting \in Settings :
          \E m, value : /\ Differs(m, setting)
                        /\ Askable(setting, value)
                        /\ Reconfigure(m, setting, value)
    BY OneReconfigure
  <2>2. PICK m, value : /\ Differs(m, setting)
                        /\ Askable(setting, value)
                        /\ Reconfigure(m, setting, value)
    BY <2>1
  <2>3. CASE UNCHANGED vars
    BY <2>3 DEF TypeOK, vars
  <2>4. CASE /\ Valid(m) /\ line' = m /\ config' = m
             /\ asked' = [asked EXCEPT ![setting] = value]
             /\ last' = setting
    <3>1. m \in Modes
      BY <2>2, <2>4 DEF Differs, Valid, Modes
    <3>2. asked' \in [baud : Int, dataBits : Int, parity : Parities \cup Strings,
                      stopBits : Int]
      BY <2>2, <2>4 DEF Askable, Settings, TypeOK
    <3> QED
      BY <3>1, <3>2, <2>4 DEF TypeOK
  <2> QED
    BY <2>2, <2>3, <2>4 DEF Reconfigure
<1> QED
  BY <1>1, <1>2, PTL DEF Spec

(***************************************************************************)
(* What the port remembers is what the device does: ConfigIsLine is        *)
(* inductive as it stands, since each request changes both the device and  *)
(* the stored config, or neither.                                          *)
(***************************************************************************)
THEOREM ConfigIsTheLine == Spec => []ConfigIsLine
<1>1. Init => ConfigIsLine
  BY DEF Init, ConfigIsLine
<1>2. ConfigIsLine /\ [Next]_vars => ConfigIsLine'
  BY OneReconfigure DEF ConfigIsLine, Reconfigure, vars
<1> QED
  BY <1>1, <1>2, PTL DEF Spec
=============================================================================
