------------------------------- MODULE MCRelay -------------------------------
(* A small instance of Relay for TLC. *)
EXTENDS Relay

(***************************************************************************)
(* The bounds of the two directions are coupled to keep the instance small *)
(* enough: two chunks in all, from the device, from the application or one *)
(* from each.  This holds back the device and the application only, of     *)
(* whose sending no fairness is assumed.  Two things that add nothing here *)
(* are left to TcpClient: a link that cannot be removed, which neither     *)
(* side sees, and SIGTERM, after which a client does what it may also do   *)
(* after an interrupt.                                                     *)
(***************************************************************************)
Load == nRead + appSent <= 2 /\ link # "stuck" /\ signal # "term"

LoadedSpec == Init /\ [][Next /\ Load']_vars /\ Fairness
=============================================================================
