------------------------------ MODULE TcpServer ------------------------------
(***************************************************************************)
(* The direct-TCP server, runServerTCP of internal/agent/tcp.go: one       *)
(* serial port shared by every TCP client.                                 *)
(*                                                                         *)
(* Goroutines: the serial reader, which cuts the port's input into chunks  *)
(* and queues them in the channel serialData; the acceptor, which hands a  *)
(* new connection over on the unbuffered channel clientAdd; one handler    *)
(* per client, which copies what the client sends to the serial port and   *)
(* announces the end of the connection on the unbuffered clientRemove; and *)
(* the hub, the select loop that alone owns the map clientConns.  Around   *)
(* them: the serial device, and the peers, which may send, read, stop      *)
(* reading, finish or break off at any moment.                             *)
(*                                                                         *)
(* A chunk is the number of its Read: the n-th chunk of the device is n,   *)
(* the k-th chunk client c sends is <<c, k>>.                              *)
(***************************************************************************)
EXTENDS Naturals, Sequences

CONSTANTS
  Conns,        \* the connections clients may open, each accepted once
  NoConn,       \* no connection
  ChanCap,      \* capacity of serialData (256 in the code)
  SockCap,      \* chunks a socket takes while its peer reads nothing
  MaxChunks,    \* bound: chunks the device produces
  MaxUp         \* bound: chunks each client sends, per connection

ASSUME TcpServerAssumption ==
  /\ NoConn \notin Conns
  /\ ChanCap \in Nat \ {0}
  /\ SockCap \in Nat \ {0}
  /\ MaxChunks \in Nat
  /\ MaxUp \in [Conns -> Nat]

VARIABLES
  reader,       \* the serial reader: reading, sending a chunk, or stopped
  nRead,        \* chunks it has read; the last one is its buffer's content
  serialData,   \* the channel of chunks
  acceptor,     \* the acceptor: accepting, adding a client, or stopped
  handler,      \* per connection, its goroutine (accepted: held by acceptor)
  clientConns,  \* the hub's map of clients
  data,         \* the chunk the hub is broadcasting
  todo,         \* the clients the hub's range loop has still to visit
  target,       \* the client the hub is writing to
  taken,        \* chunks the hub has taken from the channel
  closed,       \* connections the server has closed
  peer,         \* per connection, the state of the remote side
  out,          \* per connection, the chunks conn.Write accepted
  drained,      \* per connection, how many of those the peer has read
  upSent,       \* per connection, chunks the peer has sent
  upRead,       \* per connection, chunks its handler has read
  serialOut,    \* chunks written to the serial port, in order
  joined        \* history: value of taken when the client was added

serialVars == <<reader, nRead, serialData>>
hubVars == <<clientConns, data, todo, target, taken, closed, joined>>
upVars == <<upRead, serialOut>>
peerVars == <<peer, drained, upSent>>
vars == <<serialVars, acceptor, handler, hubVars, upVars, peerVars, out>>

TypeOK ==
  /\ reader \in {"reading", "sending", "stopped"}
  /\ nRead \in 0 .. MaxChunks
  /\ serialData \in Seq(Nat) /\ Len(serialData) <= ChanCap
  /\ acceptor \in {"accepting", "adding", "stopped"}
  /\ handler \in [Conns -> {"none", "accepted", "reading", "writing",
                            "removing", "done"}]
  /\ clientConns \subseteq Conns
  /\ data \in Nat
  /\ todo \subseteq Conns
  /\ target \in Conns \cup {NoConn}
  /\ taken \in Nat
  /\ closed \subseteq Conns
  /\ peer \in [Conns -> {"none", "open", "fin", "reset"}]
  /\ out \in [Conns -> Seq(Nat)]
  /\ drained \in [Conns -> Nat]
  /\ upSent \in [Conns -> Nat]
  /\ upRead \in [Conns -> Nat]
  /\ serialOut \in Seq(Conns \X Nat)
  /\ joined \in [Conns -> Nat]

Init ==
  /\ reader = "reading" /\ nRead = 0 /\ serialData = << >>
  /\ acceptor = "accepting"
  /\ handler = [c \in Conns |-> "none"]
  /\ clientConns = {} /\ data = 0 /\ todo = {} /\ target = NoConn
  /\ taken = 0 /\ closed = {}
  /\ peer = [c \in Conns |-> "none"]
  /\ out = [c \in Conns |-> << >>]
  /\ drained = [c \in Conns |-> 0]
  /\ upSent = [c \in Conns |-> 0]
  /\ upRead = [c \in Conns |-> 0]
  /\ serialOut = << >>
  /\ joined = [c \in Conns |-> 0]

-----------------------------------------------------------------------------
(* The serial reader. *)

\* Mutant: the chunk sent on is the buffer itself, which the next Read refills.
SerialReadAliased ==
  /\ reader = "reading"
  /\ nRead < MaxChunks
  /\ reader' = "sending"
  /\ nRead' = nRead + 1
  /\ serialData' = [i \in DOMAIN serialData |-> nRead + 1]
  /\ UNCHANGED <<acceptor, handler, hubVars, upVars, peerVars, out>>

\* serialPort.Read returned bytes; the chunk sent on is a copy of the buffer.
SerialRead ==
  /\ reader = "reading"
  /\ nRead < MaxChunks
  /\ reader' = "sending"
  /\ nRead' = nRead + 1
  /\ UNCHANGED <<serialData, acceptor, handler, hubVars, upVars, peerVars, out>>

\* serialPort.Read failed: the goroutine returns, and nothing else hears of it.
SerialFail ==
  /\ reader = "reading"
  /\ reader' = "stopped"
  /\ UNCHANGED <<nRead, serialData, acceptor, handler, hubVars, upVars,
                 peerVars, out>>

\* Mutant: a slice that grows in the place of the channel.
SerialSendUnbounded ==
  /\ reader = "sending"
  /\ serialData' = Append(serialData, nRead)
  /\ reader' = "reading"
  /\ UNCHANGED <<nRead, acceptor, handler, hubVars, upVars, peerVars, out>>

\* Mutant: a select with a default case, which drops the chunk when it is full.
SerialSendOrDrop ==
  /\ reader = "sending"
  /\ serialData' = IF Len(serialData) < ChanCap
                   THEN Append(serialData, nRead) ELSE serialData
  /\ reader' = "reading"
  /\ UNCHANGED <<nRead, acceptor, handler, hubVars, upVars, peerVars, out>>

\* serialData <- data blocks while the channel is full.
SerialSend ==
  /\ reader = "sending"
  /\ Len(serialData) < ChanCap
  /\ serialData' = Append(serialData, nRead)
  /\ reader' = "reading"
  /\ UNCHANGED <<nRead, acceptor, handler, hubVars, upVars, peerVars, out>>

-----------------------------------------------------------------------------
(* The acceptor. *)

Accept(c) ==
  /\ acceptor = "accepting"
  /\ peer[c] = "none"
  /\ peer' = [peer EXCEPT ![c] = "open"]
  /\ handler' = [handler EXCEPT ![c] = "accepted"]
  /\ acceptor' = "adding"
  /\ UNCHANGED <<serialVars, hubVars, upVars, drained, upSent, out>>

\* listener.Accept failed: the goroutine returns, the server runs on.
AcceptFail ==
  /\ acceptor = "accepting"
  /\ acceptor' = "stopped"
  /\ UNCHANGED <<serialVars, handler, hubVars, upVars, peerVars, out>>

-----------------------------------------------------------------------------
(* The hub.  It is at its select when it is inside no broadcast. *)

AtSelect == todo = {} /\ target = NoConn

HubTake ==
  /\ AtSelect
  /\ serialData # << >>
  /\ data' = Head(serialData)
  /\ serialData' = Tail(serialData)
  /\ taken' = taken + 1
  /\ todo' = clientConns
  /\ UNCHANGED <<reader, nRead, acceptor, handler, clientConns, target, closed,
                 joined, upVars, peerVars, out>>

\* The range loop visits the clients in any order and is committed to the one
\* it has reached: conn.Write blocks the hub until that write is over.
HubPick(c) ==
  /\ target = NoConn
  /\ c \in todo
  /\ target' = c
  /\ todo' = todo \ {c}
  /\ UNCHANGED <<serialVars, acceptor, handler, clientConns, data, taken,
                 closed, joined, upVars, peerVars, out>>

HasRoom(c) == Len(out[c]) < drained[c] + SockCap

\* Mutant: a write that ends early is repeated from the start of the chunk.
HubWriteRepeats(c) ==
  /\ target = c
  /\ peer[c] # "reset"
  /\ HasRoom(c)
  /\ out' = [out EXCEPT ![c] = Append(@, data)]
  /\ target' \in {c, NoConn}
  /\ UNCHANGED <<serialVars, acceptor, handler, clientConns, data, todo, taken,
                 closed, joined, upVars, peerVars>>

HubWrite(c) ==
  /\ target = c
  /\ peer[c] # "reset"
  /\ HasRoom(c)
  /\ out' = [out EXCEPT ![c] = Append(@, data)]
  /\ target' = NoConn
  /\ UNCHANGED <<serialVars, acceptor, handler, clientConns, data, todo, taken,
                 closed, joined, upVars, peerVars>>

\* Mutant: the failed client is closed and stays in the map.
HubWriteFailKeeps(c) ==
  /\ target = c
  /\ peer[c] = "reset"
  /\ closed' = closed \cup {c}
  /\ target' = NoConn
  /\ UNCHANGED <<serialVars, acceptor, handler, clientConns, data, todo, taken,
                 joined, upVars, peerVars, out>>

HubWriteFail(c) ==
  /\ target = c
  /\ peer[c] = "reset"
  /\ closed' = closed \cup {c}
  /\ clientConns' = clientConns \ {c}
  /\ target' = NoConn
  /\ UNCHANGED <<serialVars, acceptor, handler, data, todo, taken, joined,
                 upVars, peerVars, out>>

HubAdd(c) ==
  /\ AtSelect
  /\ acceptor = "adding" /\ handler[c] = "accepted"
  /\ clientConns' = clientConns \cup {c}
  /\ handler' = [handler EXCEPT ![c] = "reading"]
  /\ acceptor' = "accepting"
  /\ joined' = [joined EXCEPT ![c] = taken]
  /\ UNCHANGED <<serialVars, data, todo, target, taken, closed, upVars,
                 peerVars, out>>

\* Mutant: the client is forgotten without conn.Close().
HubRemoveLeaks(c) ==
  /\ AtSelect
  /\ handler[c] = "removing"
  /\ clientConns' = clientConns \ {c}
  /\ handler' = [handler EXCEPT ![c] = "done"]
  /\ UNCHANGED <<serialVars, acceptor, data, todo, target, taken, closed,
                 joined, upVars, peerVars, out>>

HubRemove(c) ==
  /\ AtSelect
  /\ handler[c] = "removing"
  /\ clientConns' = clientConns \ {c}
  /\ closed' = closed \cup {c}
  /\ handler' = [handler EXCEPT ![c] = "done"]
  /\ UNCHANGED <<serialVars, acceptor, data, todo, target, taken, joined,
                 upVars, peerVars, out>>

-----------------------------------------------------------------------------
(* The handler of a client. *)

Readable(c) == c \notin closed /\ upRead[c] < upSent[c]

ClientRead(c) ==
  /\ handler[c] = "reading"
  /\ Readable(c)
  /\ upRead' = [upRead EXCEPT ![c] = @ + 1]
  /\ handler' = [handler EXCEPT ![c] = "writing"]
  /\ UNCHANGED <<serialVars, acceptor, hubVars, serialOut, peerVars, out>>

\* Mutant: a write that reports an error is repeated, though bytes went out.
ClientSerialWriteRetry(c) ==
  /\ handler[c] = "writing"
  /\ serialOut' \in {serialOut, Append(serialOut, <<c, upRead[c]>>)}
  /\ handler' \in {handler, [handler EXCEPT ![c] = "reading"]}
  /\ UNCHANGED <<serialVars, acceptor, hubVars, upRead, peerVars, out>>

\* Mutant: the handler ends with a write that failed (return for the log line).
ClientSerialWriteOrEnd(c) ==
  /\ handler[c] = "writing"
  /\ \/ /\ serialOut' = Append(serialOut, <<c, upRead[c]>>)
        /\ handler' = [handler EXCEPT ![c] = "reading"]
     \/ handler' = [handler EXCEPT ![c] = "removing"] /\ UNCHANGED serialOut
  /\ UNCHANGED <<serialVars, acceptor, hubVars, upRead, peerVars, out>>

\* serialPort.Write of the chunk just read; an error is logged, the chunk is
\* lost, and the loop goes on.
ClientSerialWrite(c) ==
  /\ handler[c] = "writing"
  /\ serialOut' \in {serialOut, Append(serialOut, <<c, upRead[c]>>)}
  /\ handler' = [handler EXCEPT ![c] = "reading"]
  /\ UNCHANGED <<serialVars, acceptor, hubVars, upRead, peerVars, out>>

\* Mutant: a read deadline ends a client that is silent.
ClientReadEndIdle(c) ==
  /\ handler[c] = "reading"
  /\ ~ Readable(c)
  /\ handler' = [handler EXCEPT ![c] = "removing"]
  /\ UNCHANGED <<serialVars, acceptor, hubVars, upVars, peerVars, out>>

\* c.Read failed: the server closed the connection, the peer broke it off, or
\* the peer finished and everything it sent has been read (EOF).
ClientReadEnd(c) ==
  /\ handler[c] = "reading"
  /\ \/ c \in closed
     \/ peer[c] = "reset"
     \/ peer[c] = "fin" /\ upRead[c] = upSent[c]
  /\ handler' = [handler EXCEPT ![c] = "removing"]
  /\ UNCHANGED <<serialVars, acceptor, hubVars, upVars, peerVars, out>>

-----------------------------------------------------------------------------
(* The peers and the network. *)

\* Also while the connection still waits for the acceptor.
PeerSend(c) ==
  /\ peer[c] \in {"none", "open"}
  /\ upSent[c] < MaxUp[c]
  /\ upSent' = [upSent EXCEPT ![c] = @ + 1]
  /\ UNCHANGED <<serialVars, acceptor, handler, hubVars, upVars, peer, drained,
                 out>>

\* What has arrived can be read even after the connection was reset.
PeerDrain(c) ==
  /\ drained[c] < Len(out[c])
  /\ drained' = [drained EXCEPT ![c] = @ + 1]
  /\ UNCHANGED <<serialVars, acceptor, handler, hubVars, upVars, peer, upSent,
                 out>>

PeerFinish(c) ==
  /\ peer[c] = "open"
  /\ peer' = [peer EXCEPT ![c] = "fin"]
  /\ UNCHANGED <<serialVars, acceptor, handler, hubVars, upVars, drained,
                 upSent, out>>

PeerReset(c) ==
  /\ peer[c] \in {"open", "fin"}
  /\ peer' = [peer EXCEPT ![c] = "reset"]
  /\ UNCHANGED <<serialVars, acceptor, handler, hubVars, upVars, drained,
                 upSent, out>>

-----------------------------------------------------------------------------
Serial == SerialRead \/ SerialFail \/ SerialSend

\* The hub inside a broadcast.
HubBroadcast(c) == HubPick(c) \/ HubWrite(c) \/ HubWriteFail(c)

Handler(c) == ClientRead(c) \/ ClientSerialWrite(c) \/ ClientReadEnd(c)

Peer(c) == PeerSend(c) \/ PeerDrain(c) \/ PeerFinish(c) \/ PeerReset(c)

Next ==
  \/ Serial
  \/ AcceptFail
  \/ HubTake
  \/ \E c \in Conns :
       \/ Accept(c)
       \/ HubAdd(c) \/ HubRemove(c) \/ HubBroadcast(c)
       \/ Handler(c)
       \/ Peer(c)

Spec == Init /\ [][Next]_vars

(***************************************************************************)
(* Fairness.  Goroutines are scheduled, so each keeps going while it can;  *)
(* select picks at random among the ready cases, so a case that is ready   *)
(* again and again is taken (strong fairness).  Serial writes return.      *)
(***************************************************************************)
ServerFairness ==
  /\ WF_vars(SerialSend)
  /\ SF_vars(HubTake)
  /\ SF_vars(\E c \in Conns : HubAdd(c))
  /\ \A c \in Conns : SF_vars(HubRemove(c))
  /\ WF_vars(\E c \in Conns : HubBroadcast(c))
  /\ \A c \in Conns : WF_vars(Handler(c))

\* The assumption on the other side: a connected peer reads what it is sent.
PeersRead(S) == \A c \in S : WF_vars(PeerDrain(c))

FairSpec == Spec /\ ServerFairness /\ PeersRead(Conns)

-----------------------------------------------------------------------------
(***************************************************************************)
(* The hub, the handler and the socket of a client agree on its life: a    *)
(* client is in the map only while its handler runs and its socket is      *)
(* open; a client that left the map has a closed socket; and the hub never *)
(* visits, in a broadcast, a client that is no longer in the map.          *)
(***************************************************************************)
RegisteredWhileServed ==
  /\ \A c \in Conns :
       c \in clientConns <=> /\ handler[c] \in {"reading", "writing", "removing"}
                            /\ c \notin closed
  /\ todo \subseteq clientConns
  /\ target # NoConn => target \in clientConns \ todo

(***************************************************************************)
(* What one client sends reaches the serial port in the order it was sent, *)
(* no chunk twice, whatever the other clients' handlers write in between   *)
(* (a failed serial write may leave a gap).                                *)
(***************************************************************************)
UplinkInOrder ==
  \A i, j \in DOMAIN serialOut :
    i < j /\ serialOut[i][1] = serialOut[j][1] => serialOut[i][2] < serialOut[j][2]

(***************************************************************************)
(* The server implements the broadcast its comment promises ("serial data  *)
(* is broadcast to all clients"): a round is a chunk taken from the        *)
(* channel, a member a connection in clientConns, its stream what          *)
(* conn.Write accepted.                                                    *)
(***************************************************************************)
standing ==
  [c \in Conns |-> IF c \in clientConns THEN "member"
                   ELSE IF handler[c] \in {"none", "accepted"} THEN "outside"
                   ELSE "gone"]

B == INSTANCE Broadcast WITH
       cursor <- taken, status <- standing, start <- joined, stream <- out

ImplementsBroadcast == B!Spec

(***************************************************************************)
(* A chunk the serial reader has read is written to every client that was  *)
(* in the map when its round began, unless the client is dropped: the      *)
(* channel, its bound and the death of the serial reader lose nothing.     *)
(***************************************************************************)
Owed(c, n) == c \in clientConns /\ joined[c] < n /\ n <= nRead

Given(c, n) == joined[c] + Len(out[c]) >= n

EveryChunkIsDelivered ==
  \A c \in Conns, n \in 1 .. MaxChunks :
    Owed(c, n) ~> (Given(c, n) \/ c \notin clientConns)

(***************************************************************************)
(* When a peer is gone its connection is closed, its handler ends and it   *)
(* leaves the map: no goroutine and no socket is leaked, whichever of the  *)
(* hub's failed write and the handler's failed read notices first.         *)
(***************************************************************************)
GonePeerIsReaped ==
  \A c \in Conns :
    peer[c] \in {"fin", "reset"} ~>
      (handler[c] = "done" /\ c \in closed /\ c \notin clientConns)
=============================================================================
