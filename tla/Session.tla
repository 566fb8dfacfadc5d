------------------------------- MODULE Session -------------------------------
(***************************************************************************)
(* What an agent in tether mode promises the Tether server, with no        *)
(* goroutine, mutex or socket in sight: one session, seen as the last      *)
(* frame the connection took and the last chunk of serial data in it.      *)
(*                                                                         *)
(* The registration comes first; a request to be paired may follow it, and *)
(* nothing else comes before that; then data and heartbeats in any order,  *)
(* the chunks one by one and without a gap; the close frame is the last.   *)
(***************************************************************************)
EXTENDS Naturals

CONSTANT AutoPair       \* the agent asks to be paired by itself

VARIABLES
  last,                 \* the kind of the last frame, or "none"
  uplink                \* the number of the last chunk sent

sessionVars == <<last, uplink>>

Init == last = "none" /\ uplink = 0

Open == last \notin {"none", "close"}

Register == last = "none" /\ last' = "register" /\ UNCHANGED uplink

Pair == AutoPair /\ last = "register" /\ last' = "connect" /\ UNCHANGED uplink

Data == Open /\ last' = "data" /\ uplink' = uplink + 1

Beat == Open /\ last' = "heartbeat" /\ UNCHANGED uplink

End == last # "close" /\ last' = "close" /\ UNCHANGED uplink

Next == Register \/ Pair \/ Data \/ Beat \/ End

Spec == Init /\ [][Next]_sessionVars
=============================================================================
