--------------------------- MODULE MCSerialControl ---------------------------
(* A small instance of SerialControl for TLC. *)
EXTENDS SerialControl

(* The defaults of the program. *)
Defaults == [baud |-> 9600, dataBits |-> 8, parity |-> "none", stopBits |-> 1]

Rates == {9600, 115200}

(* In halves: good and bad rates, data bits and stop bits, in range and out of *)
(* it, whole and not: -1/2 is cut to 0, 3/2 to 1 and 19201/2 to a good rate.   *)
SentNumbers == {-2, -1, 2, 3, 4, 6, 10, 14, 16, 17, 19200, 19201, 230400}

SentStrings == {"none", "even", "EVEN"}
=============================================================================
