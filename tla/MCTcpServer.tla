----------------------------- MODULE MCTcpServer -----------------------------
(* Small instances of TcpServer for TLC. *)
EXTENDS TcpServer

CONSTANTS c1, c2    \* two clients

Clients == {c1, c2}

\* Both send two chunks.
BothTalk == [c \in Clients |-> 2]

\* Both only listen.
Silent == [c \in Clients |-> 0]

(***************************************************************************)
(* The bounds of the two directions are coupled to keep the instance small *)
(* enough: either the device is silent and both clients send all they may, *)
(* so that their handlers write chunk after chunk in any order; or the     *)
(* device says two chunks; or it says one, and c1 sends one.  This holds   *)
(* back the device and the peers only, of whom no fairness is assumed.     *)
(***************************************************************************)
Load == nRead = 0 \/ (upSent[c2] = 0 /\ nRead + upSent[c1] <= 2)

LoadedSpec ==
  Init /\ [][Next /\ Load']_vars /\ ServerFairness /\ PeersRead(Conns)

\* c2 reads whatever it is sent; c1 may stop reading.
StalledSpec == Spec /\ ServerFairness /\ PeersRead({c2})

(***************************************************************************)
(* "Serial data is broadcast to all clients": a client that reads is given *)
(* every chunk, whatever the other clients do.                             *)
(***************************************************************************)
ReaderIsServed ==
  \A n \in 1 .. MaxChunks : Owed(c2, n) ~> (Given(c2, n) \/ peer[c2] # "open")
=============================================================================
