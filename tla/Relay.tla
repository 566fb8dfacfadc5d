-------------------------------- MODULE Relay --------------------------------
(***************************************************************************)
(* A serial device and an application, with everything between them: the   *)
(* server's process (TcpServer), the connection, and the client's process  *)
(* (TcpClient).                                                            *)
(*                                                                         *)
(* Each side's environment is the other side.  What the server writes to   *)
(* the connection is what has arrived at the client, and what the client   *)
(* writes and reads is what the server's peer has sent and drained.  The   *)
(* connection delivers data at once, and the client's close some time      *)
(* later; the server closes it only after that (LiveClientIsKept), or when *)
(* its process is stopped, which may be at any moment.  A network that     *)
(* breaks the connection is left to the two modules.                       *)
(***************************************************************************)
EXTENDS Integers, Sequences

CONSTANTS Conn, NoConn, ChanCap, SockCap, MaxChunks,       \* of TcpServer
          MaxDials, Initial, Max, Num, Den, PtyCap, MaxUp    \* of TcpClient

ASSUME RelayAssumption ==
  /\ NoConn # Conn
  /\ ChanCap \in Nat \ {0} /\ SockCap \in Nat \ {0} /\ MaxChunks \in Nat
  /\ MaxDials \in Nat \ {0} /\ PtyCap \in Nat \ {0} /\ MaxUp \in Nat
  /\ Initial \in Nat /\ Max \in Nat /\ Num \in Nat /\ Den \in Nat \ {0}

VARIABLES
  \* the server's process, with srvRead for its upRead
  server, reader, nRead, serialData, acceptor, handler, clientConns, data, todo,
  target, taken, closed, joined, out, srvRead, serialOut,
  \* the client's process and the application
  agent, attempts, delay, sock, pty, link, appSent, appRead, up, down, done,
  upRead, sent, downRead, given, signal, notified, process,
  peer,         \* the client's end of the connection, as the server's kernel sees it
  remote        \* the server's end, as the client's kernel sees it

serverVars == <<reader, nRead, serialData, acceptor, handler, clientConns, data, todo,
                target, taken, closed, joined, out, srvRead, serialOut, peer>>
clientVars == <<agent, attempts, delay, sock, pty, link, appSent, appRead, up, down,
                done, upRead, sent, downRead, given, signal, notified, process, remote>>
vars == <<server, serverVars, clientVars>>

S == INSTANCE TcpServer WITH
       Conns <- {Conn}, MaxUp <- [c \in {Conn} |-> MaxUp], upRead <- srvRead,
       upSent <- [c \in {Conn} |-> sent], drained <- [c \in {Conn} |-> downRead]

C == INSTANCE TcpClient WITH MaxDown <- MaxChunks, arrived <- Len(out[Conn])

TypeOK == S!TypeOK /\ C!TypeOK /\ server \in {"up", "stopped"}

Init ==
  /\ sent = 0 /\ downRead = 0 /\ server = "up"
  /\ S!Init /\ C!Init

-----------------------------------------------------------------------------
ByClient(A) == UNCHANGED <<server, serverVars>> /\ A

ByServer(A) == server = "up" /\ UNCHANGED <<server, clientVars>> /\ A

\* A dial succeeds while the server listens: its kernel completes it.
Connects == (C!DialOk /\ server = "up") \/ C!DialFail \/ C!Create \/ C!CreateFail

Client ==
  \/ ByClient(Connects)
  \/ ByClient(C!Up) \/ ByClient(C!Down) \/ ByClient(C!Leave)
  \/ ByClient(C!AppWrite) \/ ByClient(C!AppRead)
  \/ \E s \in {"int", "term"} : ByClient(C!Signal(s))

Accepts == sock # "none" /\ S!Accept(Conn)

Server ==
  \/ ByServer(S!Serial) \/ ByServer(S!AcceptFail) \/ ByServer(S!HubTake)
  \/ ByServer(Accepts) \/ ByServer(S!HubAdd(Conn)) \/ ByServer(S!HubRemove(Conn))
  \/ ByServer(S!HubBroadcast(Conn)) \/ ByServer(S!Handler(Conn))

\* The client closed the connection, or the kernel did when its process exited;
\* data nobody will read turns that into a reset.
Hangs == sock = "closed" \/ (process = "exited" /\ sock = "open")

ClientGone ==
  /\ Hangs
  /\ IF downRead < Len(out[Conn]) THEN S!PeerReset(Conn) ELSE S!PeerFinish(Conn)

\* The server's process is stopped, and its kernel closes the connection: a reset,
\* if it was not accepted or holds data nobody will read.
Goodbye == IF peer[Conn] = "none" \/ srvRead[Conn] < sent THEN "reset" ELSE "fin"

ServerStops ==
  /\ server = "up" /\ server' = "stopped"
  /\ UNCHANGED serverVars
  /\ IF sock = "none" \/ remote # "up" THEN UNCHANGED clientVars
     ELSE C!RemoteEnd(Goodbye)

Next == Client \/ Server \/ ByServer(ClientGone) \/ ServerStops

Spec == Init /\ [][Next]_vars
(***************************************************************************)
(* Fairness: that of the two processes, and the acceptor's; the kernels    *)
(* tell the server of a client that is gone; the application reads.        *)
(***************************************************************************)
Fairness ==
  /\ WF_vars(ByServer(S!SerialSend)) /\ SF_vars(ByServer(S!HubTake))
  /\ WF_vars(ByServer(Accepts)) /\ SF_vars(ByServer(S!HubAdd(Conn)))
  /\ SF_vars(ByServer(S!HubRemove(Conn)))
  /\ WF_vars(ByServer(S!HubBroadcast(Conn))) /\ WF_vars(ByServer(S!Handler(Conn)))
  /\ WF_vars(ByServer(ClientGone))
  /\ WF_vars(ByClient(Connects)) /\ WF_vars(ByClient(C!UpGoesOn))
  /\ WF_vars(ByClient(C!DownGoesOn)) /\ WF_vars(ByClient(C!Leave))
  /\ WF_vars(ByClient(C!AppRead))

FairSpec == Spec /\ Fairness

-----------------------------------------------------------------------------
(***************************************************************************)
(* Each side is the environment the other was checked and proved in: the   *)
(* client sends and reads, and ends, only as the server's peers do, and    *)
(* the server sends only what, and when, the client's server does.         *)
(***************************************************************************)
ImplementsServer == S!Spec
ImplementsClient == C!Spec

(***************************************************************************)
(* Together the two processes are a serial cable between the device and    *)
(* the application: all that both hold between them is the channel, two    *)
(* buffers of the kernels' and three chunks in the hands of goroutines.    *)
(***************************************************************************)
plugged ==
  IF Conn \in clientConns THEN "in"
  ELSE IF handler[Conn] \in {"none", "accepted"} THEN "before" ELSE "out"

heard == [i \in 1 .. appRead |-> out[Conn][i]]

passed == [i \in DOMAIN serialOut |-> serialOut[i][2]]

Cable == INSTANCE Cable WITH
           said <- nRead, plug <- plugged, since <- joined[Conn], typed <- appSent,
           Depth <- ChanCap + SockCap + PtyCap + 3, Backlog <- ChanCap + 1

ImplementsCable == Cable!Spec

(***************************************************************************)
(* The server closes the connection of a client only when that client is   *)
(* gone, whatever the serial port, the acceptor and the hub have met.      *)
(***************************************************************************)
LiveClientIsKept == Conn \in closed => Hangs

(***************************************************************************)
(* What the device sends while a client is connected reaches the           *)
(* application through both processes, unless one of the two ends.         *)
(***************************************************************************)
Broken == process = "exited" \/ server = "stopped"

DeviceReachesApplication ==
  \A n \in 1 .. MaxChunks :
    Conn \in clientConns /\ joined[Conn] < n /\ n <= nRead
      ~> appRead >= n - joined[Conn] \/ Broken

(***************************************************************************)
(* Every chunk the application writes is tried on the serial port, unless  *)
(* a process ends or the connection is never accepted: a serial write that *)
(* fails loses its own chunk and does not keep the next ones back.         *)
(***************************************************************************)
Tried(k) ==
  \/ srvRead[Conn] > k
  \/ srvRead[Conn] = k /\ handler[Conn] # "writing"

ApplicationReachesDevice ==
  \A k \in 1 .. MaxUp :
    appSent >= k ~> Tried(k) \/ Broken \/ acceptor = "stopped"

(***************************************************************************)
(* However a client ends, by itself or by a signal that skips its deferred *)
(* calls, and even while the hub is in the middle of a write to it, the    *)
(* server drops it.                                                        *)
(***************************************************************************)
Dropped == handler[Conn] = "done" /\ Conn \in closed /\ Conn \notin clientConns

GoneClientIsDropped ==
  Hangs ~> Dropped \/ server = "stopped" \/ acceptor = "stopped"
=============================================================================
