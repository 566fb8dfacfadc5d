----------------------------- MODULE RelayProofs -----------------------------
(***************************************************************************)
(* Proofs about Relay, for all capacities and amounts of data: each side   *)
(* is the environment the other side's theorems assume, so that what was   *)
(* proved of TcpServer and of TcpClient holds of the two together.         *)
(***************************************************************************)
EXTENDS Relay, SequenceTheorems, TLAPS

(* What the client has sent is bounded by what the application wrote. *)
Counted ==
  /\ sent \in Nat /\ upRead \in Nat /\ appSent \in Nat /\ downRead \in Nat
  /\ sent <= upRead /\ upRead <= appSent /\ appSent <= MaxUp
  /\ up = "writing" => sent < upRead

(* The server's kernel learns of the client's end after it has ended. *)
Ends ==
  /\ peer \in [{Conn} -> {"none", "open", "fin", "reset"}]
  /\ handler \in [{Conn} -> {"none", "accepted", "reading", "writing", "removing",
                             "done"}]
  /\ agent = "dialing" => sock = "none"
  /\ peer[Conn] # "none" => sock # "none"
  /\ peer[Conn] \in {"fin", "reset"} => Hangs
  /\ server = "up" => remote = "up"

(* The server's handler and hub learn of it after its kernel. *)
Kept == Conn \in closed \/ handler[Conn] = "removing" => Hangs

Inv == Counted /\ Ends /\ Kept

-----------------------------------------------------------------------------
(* A step of the client leaves the server alone, and never undoes its end. *)
LEMMA ClientStep == Inv /\ Client => Inv'
<1> SUFFICES ASSUME Inv, Client PROVE Inv'
  OBVIOUS
<1> USE RelayAssumption DEF Inv, Counted, Ends, Kept, Hangs, ByClient, serverVars
<1>1. CASE ByClient(C!DialOk /\ server = "up") \/ ByClient(C!DialFail)
  BY <1>1 DEF C!DialOk, C!DialFail, C!upVars, C!downVars, C!worldVars, C!osVars,
              C!portVars, C!Running
<1>2. CASE ByClient(C!Create) \/ ByClient(C!CreateFail)
  BY <1>2 DEF C!Create, C!CreateFail, C!upVars, C!downVars, C!worldVars, C!osVars,
              C!Running
<1>3. CASE ByClient(C!Up)
  BY <1>3 DEF C!Up, C!UpRead, C!UpReadFail, C!UpWrite, C!UpWriteFail, C!downVars,
              C!worldVars, C!osVars, C!portVars
<1>4. CASE ByClient(C!Down)
  BY <1>4 DEF C!Down, C!DownRead, C!DownReadEnd, C!DownWrite, C!DownWriteFail,
              C!upVars, C!worldVars, C!osVars, C!portVars
<1>5. CASE ByClient(C!Leave)
  BY <1>5 DEF C!Leave, C!AgentDone, C!AgentSignal, C!AgentReturn, C!Exit, C!upVars,
              C!downVars, C!worldVars, C!osVars, C!portVars, C!Running
<1>6. CASE ByClient(C!AppWrite) \/ ByClient(C!AppRead)
  BY <1>6 DEF C!AppWrite, C!AppRead, C!upVars, C!downVars, C!osVars, C!portVars
<1>7. ASSUME NEW s \in {"int", "term"}, ByClient(C!Signal(s))
      PROVE  Inv'
  BY <1>7 DEF C!Signal, C!upVars, C!downVars, C!worldVars, C!portVars
<1> QED
  BY <1>1, <1>2, <1>3, <1>4, <1>5, <1>6, <1>7 DEF Client, Connects

(* A step of the server's goroutines. *)
LEMMA ServerStep == Inv /\ Server => Inv'
<1> SUFFICES ASSUME Inv, Server PROVE Inv'
  OBVIOUS
<1> USE DEF Inv, Counted, Ends, Kept, Hangs, ByServer, clientVars, S!serialVars,
            S!hubVars, S!upVars, S!peerVars
<1>1. CASE ByServer(S!Serial) \/ ByServer(S!AcceptFail) \/ ByServer(S!HubTake)
  BY <1>1 DEF S!Serial, S!SerialRead, S!SerialFail, S!SerialSend, S!AcceptFail,
              S!HubTake
<1>2. CASE ByServer(Accepts)
  BY <1>2 DEF Accepts, S!Accept
<1>3. CASE ByServer(S!HubAdd(Conn)) \/ ByServer(S!HubRemove(Conn))
  BY <1>3 DEF S!HubAdd, S!HubRemove
<1>4. CASE ByServer(S!HubBroadcast(Conn))
  BY <1>4 DEF S!HubBroadcast, S!HubPick, S!HubWrite, S!HubWriteFail
<1>5. CASE ByServer(S!Handler(Conn))
  BY <1>5 DEF S!Handler, S!ClientRead, S!ClientSerialWrite, S!ClientReadEnd
<1> QED
  BY <1>1, <1>2, <1>3, <1>4, <1>5 DEF Server

(* The invariant of the ends. *)
THEOREM EndsInOrder == Spec => []Inv
<1>1. Init => Inv
  BY RelayAssumption DEF Init, S!Init, C!Init, Inv, Counted, Ends, Kept, Hangs
<1>2. Inv /\ [Next]_vars => Inv'
  <2> SUFFICES ASSUME Inv, [Next]_vars PROVE Inv'
    OBVIOUS
  <2>1. CASE ByServer(ClientGone)
    BY <2>1 DEF ByServer, clientVars, ClientGone, S!PeerReset, S!PeerFinish,
                S!serialVars, S!hubVars, S!upVars, Inv, Counted, Ends, Kept, Hangs
  <2>2. CASE ServerStops
    BY <2>2 DEF ServerStops, serverVars, clientVars, C!RemoteEnd, C!dialVars,
                C!portVars, C!upVars, C!downVars, C!osVars, Inv, Counted, Ends, Kept,
                Hangs
  <2>3. CASE UNCHANGED vars
    BY <2>3 DEF vars, serverVars, clientVars, Inv, Counted, Ends, Kept, Hangs
  <2> QED
    BY <2>1, <2>2, <2>3, ClientStep, ServerStep DEF Next
<1> QED
  BY <1>1, <1>2, PTL DEF Spec

(***************************************************************************)
(* The server never closes the connection of a client that lives, for any  *)
(* capacities and any amount of data.                                      *)
(***************************************************************************)
THEOREM LiveClientKept == Spec => []LiveClientIsKept
<1>1. Inv => LiveClientIsKept
  BY DEF Inv, Kept, LiveClientIsKept
<1> QED
  BY <1>1, EndsInOrder, PTL

-----------------------------------------------------------------------------
(***************************************************************************)
(* The client is a peer such as TcpServer assumes: the two together        *)
(* implement the server's specification.                                   *)
(***************************************************************************)
THEOREM ServerImplemented == Spec => ImplementsServer
<1>1. Init => S!Init
  BY DEF Init
<1>2. Inv /\ [Next]_vars => [S!Next]_(S!vars)
  <2> SUFFICES ASSUME Inv, [Next]_vars PROVE S!Next \/ UNCHANGED S!vars
    OBVIOUS
  <2> DEFINE up1 == [c \in {Conn} |-> sent]
             down1 == [c \in {Conn} |-> downRead]
  <2>0. UNCHANGED serverVars /\ UNCHANGED <<sent, downRead>> => UNCHANGED S!vars
    BY DEF serverVars, S!vars, S!serialVars, S!hubVars, S!upVars, S!peerVars
  <2>1. CASE ByClient(C!Up)
    <3>1. CASE C!UpWrite
      <4>1. sock = "open" /\ process = "running" /\ sent' = sent + 1 /\ sent < MaxUp
            /\ downRead' = downRead
        BY <2>1, <3>1, RelayAssumption
           DEF C!UpWrite, C!Running, C!downVars, Inv, Counted
      <4>2. peer[Conn] \in {"none", "open"}
        BY <4>1 DEF Inv, Ends, Hangs
      <4>3. up1' = [up1 EXCEPT ![Conn] = @ + 1] /\ up1[Conn] < MaxUp
        BY <4>1
      <4>4. S!PeerSend(Conn)
        BY <2>1, <4>1, <4>2, <4>3
           DEF ByClient, serverVars, S!PeerSend, S!serialVars, S!hubVars, S!upVars
      <4> QED
        BY <4>4 DEF S!Next, S!Peer
    <3>2. CASE C!UpRead \/ C!UpReadFail \/ C!UpWriteFail
      BY <2>0, <2>1, <3>2 DEF ByClient, C!UpRead, C!UpReadFail, C!UpWriteFail,
                              C!downVars
    <3> QED
      BY <2>1, <3>1, <3>2 DEF ByClient, C!Up
  <2>2. CASE ByClient(C!Down)
    <3>1. CASE C!DownRead
      <4>1. downRead' = downRead + 1 /\ downRead < Len(out[Conn]) /\ sent' = sent
        BY <3>1 DEF C!DownRead, C!upVars
      <4>2. down1' = [down1 EXCEPT ![Conn] = @ + 1] /\ down1[Conn] < Len(out[Conn])
        BY <4>1
      <4>3. S!PeerDrain(Conn)
        BY <2>2, <4>1, <4>2
           DEF ByClient, serverVars, S!PeerDrain, S!serialVars, S!hubVars, S!upVars
      <4> QED
        BY <4>3 DEF S!Next, S!Peer
    <3>2. CASE C!DownReadEnd \/ C!DownWrite \/ C!DownWriteFail
      BY <2>0, <2>2, <3>2 DEF ByClient, C!DownReadEnd, C!DownWrite, C!DownWriteFail,
                              C!upVars
    <3> QED
      BY <2>2, <3>1, <3>2 DEF ByClient, C!Down
  <2>3. CASE ByClient(Connects)
    BY <2>0, <2>3 DEF ByClient, Connects, C!DialOk, C!DialFail, C!Create, C!CreateFail,
                      C!upVars, C!downVars
  <2>4. CASE ByClient(C!Leave)
    BY <2>0, <2>4 DEF ByClient, C!Leave, C!AgentDone, C!AgentSignal, C!AgentReturn,
                      C!Exit, C!upVars, C!downVars
  <2>5. CASE ByClient(C!AppWrite) \/ ByClient(C!AppRead)
    BY <2>0, <2>5 DEF ByClient, C!AppWrite, C!AppRead, C!upVars, C!downVars
  <2>6. ASSUME NEW s \in {"int", "term"}, ByClient(C!Signal(s))
        PROVE  UNCHANGED S!vars
    BY <2>0, <2>6 DEF ByClient, C!Signal, C!upVars, C!downVars
  <2>7. CASE Server
    BY <2>7 DEF Server, ByServer, Accepts, S!Next
  <2>8. CASE ByServer(ClientGone)
    BY <2>8 DEF ByServer, ClientGone, S!Next, S!Peer
  <2>9. CASE ServerStops
    BY <2>0, <2>9 DEF ServerStops, clientVars, C!RemoteEnd, C!upVars, C!downVars
  <2>10. CASE UNCHANGED vars
    BY <2>0, <2>10 DEF vars, clientVars
  <2> QED
    BY <2>1, <2>2, <2>3, <2>4, <2>5, <2>6, <2>7, <2>8, <2>9, <2>10 DEF Next, Client
<1> QED
  BY <1>1, <1>2, EndsInOrder, PTL DEF Spec, ImplementsServer, S!Spec

-----------------------------------------------------------------------------
(* The theorems about the server, of the server in the relay. *)
SP == INSTANCE TcpServerProofs WITH
        Conns <- {Conn}, MaxUp <- [c \in {Conn} |-> MaxUp], upRead <- srvRead,
        upSent <- [c \in {Conn} |-> sent], drained <- [c \in {Conn} |-> downRead]

LEMMA ServerAssumption == SP!TcpServerAssumption
  BY RelayAssumption DEF SP!TcpServerAssumption

(* The two instances of the module are the same specification. *)
LEMMA SameServer == S!Spec => SP!Spec
<1>1. S!Init <=> SP!Init
  BY DEF S!Init, SP!Init
<1>2. S!vars = SP!vars /\ (S!vars)' = (SP!vars)'
  BY DEF S!vars, SP!vars, S!serialVars, SP!serialVars, S!hubVars, SP!hubVars,
         S!upVars, SP!upVars, S!peerVars, SP!peerVars
<1>3. S!Next <=> SP!Next
  BY DEF S!Next, SP!Next, S!Serial, S!SerialRead, S!SerialFail, S!SerialSend,
         S!AcceptFail, S!HubTake, S!Accept, S!HubAdd, S!HubRemove,
         S!HubBroadcast, S!HubPick, S!HubWrite, S!HubWriteFail, S!Handler,
         S!ClientRead, S!ClientSerialWrite, S!ClientReadEnd, S!Peer,
         S!PeerSend, S!PeerDrain, S!PeerFinish, S!PeerReset, S!AtSelect,
         S!HasRoom, S!Readable, S!serialVars, S!hubVars, S!upVars,
         S!peerVars, SP!Serial, SP!SerialRead, SP!SerialFail,
         SP!SerialSend, SP!AcceptFail, SP!HubTake, SP!Accept, SP!HubAdd,
         SP!HubRemove, SP!HubBroadcast, SP!HubPick, SP!HubWrite,
         SP!HubWriteFail, SP!Handler, SP!ClientRead, SP!ClientSerialWrite,
         SP!ClientReadEnd, SP!Peer, SP!PeerSend, SP!PeerDrain,
         SP!PeerFinish, SP!PeerReset, SP!AtSelect, SP!HasRoom, SP!Readable,
         SP!serialVars, SP!hubVars, SP!upVars, SP!peerVars
<1>4. [S!Next]_(S!vars) => [SP!Next]_(SP!vars)
  BY <1>2, <1>3
<1> QED
  BY <1>1, <1>4, PTL DEF S!Spec, SP!Spec

(* The server's invariant holds in the relay. *)
LEMMA HubInvariant == Spec => []SP!HubInv
  BY SP!HubInvariant, ServerAssumption, SameServer, ServerImplemented, PTL
     DEF ImplementsServer

(***************************************************************************)
(* The server is such as TcpClient assumes: it sends only on a connection  *)
(* the client has made and no more than the device has said, and ends it   *)
(* once.                                                                   *)
(***************************************************************************)
THEOREM ClientImplemented == Spec => ImplementsClient
<1>1. Init => C!Init
  BY DEF Init
<1>2. Inv /\ SP!HubInv /\ [Next]_vars => [C!Next]_(C!vars)
  <2> SUFFICES ASSUME Inv, SP!HubInv, [Next]_vars PROVE C!Next \/ UNCHANGED C!vars
    OBVIOUS
  <2>0. UNCHANGED clientVars /\ Len(out'[Conn]) = Len(out[Conn]) => UNCHANGED C!vars
    BY DEF clientVars, C!vars, C!dialVars, C!portVars, C!upVars, C!downVars,
           C!worldVars, C!osVars
  <2>1. CASE Client
    BY <2>1 DEF Client, ByClient, Connects, C!Next, C!Connect, C!World
  <2>2. CASE ByServer(S!HubBroadcast(Conn))
    <3>1. CASE S!HubWrite(Conn)
      <4>1. /\ target = Conn /\ out' = [out EXCEPT ![Conn] = Append(@, data)]
            /\ server = "up" /\ UNCHANGED clientVars
        BY <2>2, <3>1 DEF ByServer, S!HubWrite
      <4>2. /\ out \in [{Conn} -> Seq(Nat)] /\ data \in Nat /\ taken \in Nat
            /\ nRead \in Nat /\ nRead <= MaxChunks /\ joined[Conn] \in Nat
            /\ Len(serialData) \in Nat
        BY RelayAssumption DEF SP!HubInv, SP!TypeOK
      <4>3. Conn \in clientConns /\ handler[Conn] \in {"reading", "writing", "removing"}
        BY <4>1, RelayAssumption DEF SP!HubInv, SP!RegisteredWhileServed
      <4>4. joined[Conn] + Len(out[Conn]) = taken - 1
        BY <4>1, <4>3 DEF SP!HubInv, SP!Round, SP!Pending
      <4>5. taken <= nRead
        BY <4>2 DEF SP!HubInv, SP!Queue
      <4>6. Len(out[Conn]) < MaxChunks /\ Len(out'[Conn]) = Len(out[Conn]) + 1
        BY <4>1, <4>2, <4>4, <4>5, RelayAssumption
      <4>7. sock # "none" /\ remote = "up"
        BY <4>1, <4>3 DEF SP!HubInv, SP!Fresh, Inv, Ends
      <4>8. C!RemoteSend
        BY <4>1, <4>6, <4>7 DEF C!RemoteSend, clientVars, C!dialVars, C!portVars,
                                C!upVars, C!downVars, C!osVars
      <4> QED
        BY <4>8 DEF C!Next, C!World
    <3>2. CASE S!HubPick(Conn) \/ S!HubWriteFail(Conn)
      BY <2>0, <2>2, <3>2 DEF ByServer, S!HubPick, S!HubWriteFail
    <3> QED
      BY <2>2, <3>1, <3>2 DEF ByServer, S!HubBroadcast
  <2>3. CASE \/ ByServer(S!Serial) \/ ByServer(S!AcceptFail) \/ ByServer(S!HubTake)
             \/ ByServer(Accepts)
    BY <2>0, <2>3 DEF ByServer, S!Serial, S!SerialRead, S!SerialFail, S!SerialSend,
                      S!AcceptFail, S!HubTake, Accepts, S!Accept
  <2>4. CASE \/ ByServer(S!HubAdd(Conn)) \/ ByServer(S!HubRemove(Conn))
             \/ ByServer(S!Handler(Conn)) \/ ByServer(ClientGone)
    BY <2>0, <2>4 DEF ByServer, S!HubAdd, S!HubRemove, S!Handler, S!ClientRead,
                      S!ClientSerialWrite, S!ClientReadEnd, ClientGone, S!PeerReset,
                      S!PeerFinish
  <2>5. CASE ServerStops
    <3>1. Len(out'[Conn]) = Len(out[Conn]) /\ Goodbye \in {"fin", "reset"}
      BY <2>5 DEF ServerStops, serverVars, Goodbye
    <3>2. UNCHANGED clientVars \/ C!RemoteEnd(Goodbye)
      BY <2>5 DEF ServerStops
    <3> QED
      BY <2>0, <3>1, <3>2 DEF C!Next, C!World
  <2>6. CASE UNCHANGED vars
    BY <2>0, <2>6 DEF vars, serverVars
  <2> QED
    BY <2>1, <2>2, <2>3, <2>4, <2>5, <2>6 DEF Next, Server
<1> QED
  BY <1>1, <1>2, EndsInOrder, HubInvariant, PTL DEF Spec, ImplementsClient, C!Spec

-----------------------------------------------------------------------------
(* The theorems about the client, of the client in the relay. *)
CP == INSTANCE TcpClientProofs WITH MaxDown <- MaxChunks, arrived <- Len(out[Conn])

LEMMA ClientAssumption == CP!TcpClientAssumption
  BY RelayAssumption DEF CP!TcpClientAssumption

(* The two instances of the module are the same specification. *)
LEMMA SameClient == C!Spec => CP!Spec
<1>1. C!Init <=> CP!Init
  BY DEF C!Init, CP!Init
<1>2. C!vars = CP!vars /\ (C!vars)' = (CP!vars)'
  BY DEF C!vars, CP!vars, C!dialVars, C!portVars, C!upVars, C!downVars,
         C!worldVars, C!osVars, CP!dialVars, CP!portVars, CP!upVars,
         CP!downVars, CP!worldVars, CP!osVars
<1>3. C!Next <=> CP!Next
  BY DEF C!Next, CP!Next, C!Connect, C!DialOk, C!DialFail, C!Create,
         C!CreateFail, C!Up, C!UpRead, C!UpReadFail, C!UpWrite, C!UpWriteFail,
         C!Down, C!DownRead, C!DownReadEnd, C!DownWrite, C!DownWriteFail,
         C!Leave, C!AgentDone, C!AgentSignal, C!AgentReturn, C!Exit, C!World,
         C!AppWrite, C!AppRead, C!RemoteSend, C!RemoteEnd, C!Signal,
         C!NextDelay, C!Scaled, C!Report, C!Running, C!dialVars, C!portVars, C!upVars,
         C!downVars, C!worldVars, C!osVars, CP!Connect, CP!DialOk,
         CP!DialFail, CP!Create, CP!CreateFail, CP!Up, CP!UpRead,
         CP!UpReadFail, CP!UpWrite, CP!UpWriteFail, CP!Down, CP!DownRead,
         CP!DownReadEnd, CP!DownWrite, CP!DownWriteFail, CP!Leave,
         CP!AgentDone, CP!AgentSignal, CP!AgentReturn, CP!Exit, CP!World,
         CP!AppWrite, CP!AppRead, CP!RemoteSend, CP!RemoteEnd, CP!Signal,
         CP!NextDelay, CP!Scaled, CP!Report, CP!Running, CP!dialVars, CP!portVars,
         CP!upVars, CP!downVars, CP!worldVars, CP!osVars
<1>4. [C!Next]_(C!vars) => [CP!Next]_(CP!vars)
  BY <1>2, <1>3
<1> QED
  BY <1>1, <1>4, PTL DEF C!Spec, CP!Spec

(***************************************************************************)
(* In the relay every variable of both sides keeps its type; above all no  *)
(* goroutine of either side hands on more than it was given.               *)
(***************************************************************************)
THEOREM TypeCorrect == Spec => []TypeOK
<1>1. Spec => []SP!TypeOK
  BY SP!TypeCorrect, ServerAssumption, SameServer, ServerImplemented, PTL
     DEF ImplementsServer
<1>2. Spec => []CP!TypeOK
  BY CP!TypeCorrect, ClientAssumption, SameClient, ClientImplemented, PTL
     DEF ImplementsClient
<1>3. SP!TypeOK => S!TypeOK
  BY DEF S!TypeOK, SP!TypeOK
<1>4. CP!TypeOK => C!TypeOK
  BY DEF C!TypeOK, CP!TypeOK
<1> DEFINE Up == server \in {"up", "stopped"}
<1>5. Init => Up
  BY DEF Init
<1>6. Up /\ [Next]_vars => Up'
  BY DEF Next, vars, Client, Server, ByClient, ByServer, ServerStops
<1>7. S!TypeOK /\ C!TypeOK /\ Up => TypeOK
  BY DEF TypeOK
<1> HIDE DEF Up
<1> QED
  BY <1>1, <1>2, <1>3, <1>4, <1>5, <1>6, <1>7, PTL DEF Spec

-----------------------------------------------------------------------------
(***************************************************************************)
(* What has been proved of each side, of the two together: the server's    *)
(* hub, streams, uplink and buffers, and the client's port.                *)
(***************************************************************************)
Sides ==
  /\ SP!HubInv /\ SP!Streams /\ SP!Written /\ SP!Buffered
  /\ CP!TypeOK /\ CP!PacedByApplication

THEOREM SidesHold == Spec => []Sides
<1>1. Spec => SP!Spec
  BY ServerImplemented, SameServer DEF ImplementsServer
<1>2. Spec => CP!Spec
  BY ClientImplemented, SameClient DEF ImplementsClient
<1>3. SP!Spec => [](SP!HubInv /\ SP!Streams /\ SP!Written /\ SP!Buffered)
  BY ServerAssumption, SP!HubInvariant, SP!StreamsContiguous, SP!WrittenInvariant,
     SP!BufferedInvariant, PTL
<1>4. CP!Spec => [](CP!TypeOK /\ CP!PacedByApplication)
  BY ClientAssumption, CP!TypeCorrect, CP!ApplicationPaces, PTL
<1> QED
  BY <1>1, <1>2, <1>3, <1>4, PTL DEF Sides

-----------------------------------------------------------------------------
(* A sequence that is another one with an element more. *)
LEMMA OneLonger ==
  ASSUME NEW n \in Nat, NEW f \in [1 .. n -> Nat], NEW g \in [1 .. n + 1 -> Nat],
         \A i \in 1 .. n : g[i] = f[i]
  PROVE  g = Append(f, g[n + 1]) /\ Len(f) = n
<1>1. f \in Seq(Nat) /\ Len(f) = n /\ g \in Seq(Nat) /\ Len(g) = n + 1
  BY SeqDef
<1>2. g[n + 1] \in Nat
  OBVIOUS
<1>3. /\ Append(f, g[n + 1]) \in Seq(Nat)
      /\ Len(Append(f, g[n + 1])) = n + 1
      /\ \A i \in 1 .. n : Append(f, g[n + 1])[i] = f[i]
      /\ Append(f, g[n + 1])[n + 1] = g[n + 1]
  BY <1>1, <1>2, AppendProperties
<1>4. \A i \in 1 .. n + 1 : g[i] = Append(f, g[n + 1])[i]
  BY <1>3
<1> QED
  BY <1>1, <1>3, <1>4, SeqEqual

(* The beginning of a sequence. *)
LEMMA Beginning ==
  ASSUME NEW n \in Nat, NEW s \in Seq(Nat), n <= Len(s)
  PROVE  [i \in 1 .. n |-> s[i]] \in [1 .. n -> Nat]
<1>1. s \in [1 .. Len(s) -> Nat] /\ Len(s) \in Nat
  BY LenProperties
<1> QED
  BY <1>1

(* The types and bounds the cable rests on. *)
LEMMA Ranges ==
  ASSUME Sides
  PROVE  /\ nRead \in Nat /\ taken \in Nat /\ joined[Conn] \in Nat
         /\ appRead \in Nat /\ appSent \in Nat
         /\ out \in [{Conn} -> Seq(Nat)] /\ out[Conn] \in Seq(Nat)
         /\ Len(out[Conn]) \in Nat /\ appRead <= Len(out[Conn])
         /\ heard \in [1 .. appRead -> Nat] /\ Len(heard) = appRead
         /\ serialOut \in Seq({Conn} \X Nat)
         /\ taken <= nRead /\ nRead <= taken + ChanCap + 1
         /\ ChanCap \in Nat /\ SockCap \in Nat /\ PtyCap \in Nat
<1>1. /\ nRead \in Nat /\ taken \in Nat /\ joined[Conn] \in Nat
      /\ out \in [{Conn} -> Seq(Nat)] /\ serialOut \in Seq({Conn} \X Nat)
      /\ Len(serialData) \in Nat /\ Len(serialData) <= ChanCap
      /\ ChanCap \in Nat /\ SockCap \in Nat /\ PtyCap \in Nat
  BY RelayAssumption DEF Sides, SP!HubInv, SP!TypeOK
<1>2. Len(out[Conn]) \in Nat /\ out[Conn] \in [1 .. Len(out[Conn]) -> Nat]
  BY <1>1, LenProperties
<1>3. appRead \in Nat /\ appSent \in Nat /\ appRead <= Len(out[Conn])
  BY <1>2 DEF Sides, CP!TypeOK
<1>4. heard \in [1 .. appRead -> Nat]
  BY <1>1, <1>3, Beginning DEF heard
<1>5. Len(heard) = appRead
  BY <1>3, <1>4, LenProperties, SeqDef DEF heard
<1>6. taken <= nRead /\ nRead <= taken + ChanCap + 1
  BY <1>1 DEF Sides, SP!HubInv, SP!Queue
<1> QED
  BY <1>1, <1>2, <1>3, <1>4, <1>5, <1>6

(* A member is plugged in, and before it is added a connection is not. *)
LEMMA PluggedIs ==
  ASSUME Sides
  PROVE  /\ plugged = "in" <=> Conn \in clientConns
         /\ plugged = "before" <=> handler[Conn] \in {"none", "accepted"}
  BY DEF Sides, SP!HubInv, SP!RegisteredWhileServed, plugged

-----------------------------------------------------------------------------
(* What the application does. *)
LEMMA CableClient ==
  ASSUME Sides, Client
  PROVE  Cable!Next \/ UNCHANGED Cable!vars
<1> USE DEF ByClient, serverVars, Cable!vars, Cable!deviceVars, Cable!typedVars
<1>0. UNCHANGED <<nRead, clientConns, handler, joined, out, serialOut>>
  BY DEF Client
<1>1. UNCHANGED <<nRead, plugged, joined[Conn], passed>>
  BY <1>0 DEF plugged, passed
<1>2. CASE ByClient(C!AppWrite)
  <2>1. appSent' = appSent + 1 /\ UNCHANGED heard
    BY <1>0, <1>2 DEF C!AppWrite, heard
  <2> QED
    BY <1>1, <2>1 DEF Cable!Next, Cable!Type
<1>3. CASE ByClient(C!AppRead)
  <2>1. appRead' = appRead + 1 /\ UNCHANGED appSent /\ appRead < given
    BY <1>3 DEF C!AppRead
  <2>2. appRead + 1 \in 1 .. Len(out[Conn])
    BY <2>1, Ranges DEF Sides, CP!TypeOK
  <2>3. heard' = [i \in 1 .. appRead + 1 |-> out[Conn][i]]
    BY <1>0, <2>1 DEF heard
  <2>4. /\ heard' \in [1 .. appRead + 1 -> Nat]
        /\ heard'[appRead + 1] = joined[Conn] + appRead + 1
    <3>1. appRead + 1 \in Nat /\ appRead + 1 <= Len(out[Conn])
      BY <2>2, Ranges
    <3>2. heard' \in [1 .. appRead + 1 -> Nat]
      BY <2>3, <3>1, Ranges, Beginning
    <3>0. appRead \in Nat /\ joined[Conn] \in Nat
      BY Ranges
    <3>3. heard'[appRead + 1] = out[Conn][appRead + 1]
      BY <2>3, <3>0
    <3>4. out[Conn][appRead + 1] = joined[Conn] + (appRead + 1)
      BY <2>2 DEF Sides, SP!Streams
    <3>5. joined[Conn] + (appRead + 1) = joined[Conn] + appRead + 1
      BY <3>0
    <3> QED
      BY <3>2, <3>3, <3>4, <3>5
  <2>5. heard' = Append(heard, joined[Conn] + Len(heard) + 1)
    <3>1. \A i \in 1 .. appRead : heard'[i] = heard[i]
      <4>1. \A i \in 1 .. appRead : i \in 1 .. appRead + 1
        BY Ranges
      <4> QED
        BY <2>3, <4>1 DEF heard
    <3> QED
      BY <2>4, <3>1, Ranges, OneLonger
  <2>6. plugged # "before"
    <3>1. Len(out[Conn]) # 0
      BY <2>2, Ranges
    <3> QED
      BY <3>1, PluggedIs DEF Sides, SP!HubInv, SP!Fresh
  <2>7. joined[Conn] + Len(heard) < nRead
    BY <2>2, Ranges DEF Sides, SP!Streams
  <2> QED
    BY <1>1, <2>1, <2>5, <2>6, <2>7 DEF Cable!Next, Cable!Hear
<1>4. CASE UNCHANGED <<appSent, appRead>>
  BY <1>0, <1>1, <1>4 DEF heard
<1>5. CASE ByClient(Connects) \/ ByClient(C!Leave)
  BY <1>4, <1>5 DEF Connects, C!DialOk, C!DialFail, C!Create, C!CreateFail, C!Leave,
                    C!AgentDone, C!AgentSignal, C!AgentReturn, C!Exit, C!worldVars
<1>6. CASE ByClient(C!Up) \/ ByClient(C!Down)
  BY <1>4, <1>6 DEF C!Up, C!UpRead, C!UpReadFail, C!UpWrite, C!UpWriteFail, C!Down,
                    C!DownRead, C!DownReadEnd, C!DownWrite, C!DownWriteFail, C!worldVars
<1>7. CASE \E s \in {"int", "term"} : ByClient(C!Signal(s))
  BY <1>4, <1>7 DEF C!Signal, C!worldVars
<1> QED
  BY <1>2, <1>3, <1>5, <1>6, <1>7 DEF Client

(* What the server's goroutines do. *)
LEMMA CableServer ==
  ASSUME Sides, Server
  PROVE  Cable!Next \/ UNCHANGED Cable!vars
<1> USE DEF ByServer, clientVars, Cable!vars, Cable!deviceVars, Cable!typedVars,
            S!serialVars, S!hubVars, S!upVars, S!peerVars
<1>0. UNCHANGED <<appRead, appSent>>
  BY DEF Server
<1>1. CASE ByServer(S!Serial)
  <2>1. UNCHANGED <<clientConns, handler, joined, out, serialOut>>
    BY <1>1 DEF S!Serial, S!SerialRead, S!SerialFail, S!SerialSend
  <2>2. UNCHANGED <<plugged, joined[Conn], heard, passed>>
    BY <1>0, <2>1 DEF plugged, heard, passed
  <2>3. CASE S!SerialRead
    <3>1. nRead' = nRead + 1 /\ reader = "reading"
      BY <2>3 DEF S!SerialRead
    <3>2. plugged = "in" =>
            nRead < joined[Conn] + Len(heard) + (ChanCap + SockCap + PtyCap + 3)
      <4> SUFFICES ASSUME Conn \in clientConns
                   PROVE  nRead < joined[Conn] + appRead + (ChanCap + SockCap + PtyCap + 3)
        BY PluggedIs, Ranges
      <4>0. /\ downRead \in Nat /\ Len(serialData) \in Nat
            /\ Len(serialData) <= ChanCap
        BY Ranges DEF Sides, CP!TypeOK, SP!HubInv, SP!TypeOK
      <4>1. nRead = taken + Len(serialData)
        BY <3>1 DEF Sides, SP!HubInv, SP!Queue
      <4>2. taken <= joined[Conn] + Len(out[Conn]) + 1
        <5>1. joined[Conn] + Len(out[Conn])
                = IF SP!Pending(Conn) THEN taken - 1 ELSE taken
          BY DEF Sides, SP!HubInv, SP!Round
        <5>2. taken \in Nat /\ joined[Conn] \in Nat /\ Len(out[Conn]) \in Nat
          BY Ranges
        <5> QED
          BY <5>1, <5>2
      <4>3. Len(out[Conn]) <= downRead + SockCap
        BY DEF Sides, SP!Buffered
      <4>4. downRead <= appRead + PtyCap + 1
        BY DEF Sides, CP!PacedByApplication
      <4>5. /\ nRead \in Nat /\ taken \in Nat /\ joined[Conn] \in Nat
            /\ appRead \in Nat /\ Len(out[Conn]) \in Nat
            /\ ChanCap \in Nat /\ SockCap \in Nat /\ PtyCap \in Nat
        BY Ranges
      <4> QED
        BY <4>0, <4>1, <4>2, <4>3, <4>4, <4>5
    <3> QED
      BY <1>0, <2>2, <3>1, <3>2 DEF Cable!Next, Cable!Say
  <2>4. CASE S!SerialFail \/ S!SerialSend
    BY <1>0, <2>2, <2>4 DEF S!SerialFail, S!SerialSend
  <2> QED
    BY <1>1, <2>3, <2>4 DEF S!Serial
<1>2. CASE ByServer(S!AcceptFail) \/ ByServer(S!HubTake)
  <2>1. UNCHANGED <<nRead, clientConns, handler, joined, out, serialOut>>
    BY <1>2 DEF S!AcceptFail, S!HubTake
  <2> QED
    BY <1>0, <2>1 DEF plugged, heard, passed
<1>3. CASE ByServer(Accepts)
  <2>1. /\ UNCHANGED <<nRead, clientConns, joined, out, serialOut>>
        /\ peer[Conn] = "none" /\ handler' = [handler EXCEPT ![Conn] = "accepted"]
    BY <1>3 DEF Accepts, S!Accept
  <2>2. handler \in [{Conn} -> {"none", "accepted", "reading", "writing", "removing",
                               "done"}]
        /\ handler[Conn] = "none"
    BY <2>1 DEF Sides, SP!HubInv, SP!TypeOK, SP!Fresh
  <2>3. handler'[Conn] = "accepted"
    BY <2>1, <2>2
  <2>4. UNCHANGED <<plugged, heard, passed>>
    BY <1>0, <2>1, <2>2, <2>3 DEF plugged, heard, passed
  <2> QED
    BY <1>0, <2>1, <2>4
<1>4. CASE ByServer(S!HubAdd(Conn))
  <2>1. /\ UNCHANGED <<nRead, out, serialOut>> /\ handler[Conn] = "accepted"
        /\ clientConns' = clientConns \cup {Conn}
        /\ joined' = [joined EXCEPT ![Conn] = taken]
    BY <1>4 DEF S!HubAdd
  <2>2. joined \in [{Conn} -> Nat]
    BY DEF Sides, SP!HubInv, SP!TypeOK
  <2>3. joined'[Conn] = taken
    BY <2>1, <2>2
  <2>4. plugged = "before" /\ plugged' = "in"
    BY <2>1, PluggedIs DEF plugged
  <2>5. taken \in 0 .. nRead /\ nRead <= taken + (ChanCap + 1)
    <3>1. /\ taken \in Nat /\ nRead \in Nat /\ ChanCap \in Nat
          /\ taken <= nRead /\ nRead <= taken + ChanCap + 1
      BY Ranges
    <3> QED
      BY <3>1
  <2>6. UNCHANGED <<heard, passed>>
    BY <1>0, <2>1 DEF heard, passed
  <2> QED
    BY <1>0, <2>1, <2>3, <2>4, <2>5, <2>6 DEF Cable!Next, Cable!Plug
<1>5. CASE ByServer(S!HubRemove(Conn)) \/ ByServer(S!HubBroadcast(Conn))
  <2>1. /\ UNCHANGED <<nRead, joined, serialOut>>
        /\ \/ handler' = handler
           \/ /\ handler[Conn] = "removing"
              /\ handler' = [handler EXCEPT ![Conn] = "done"]
    BY <1>5 DEF S!HubRemove, S!HubBroadcast, S!HubPick, S!HubWrite, S!HubWriteFail
  <2>2. clientConns' = clientConns \/ clientConns' = clientConns \ {Conn}
    BY <1>5 DEF S!HubRemove, S!HubBroadcast, S!HubPick, S!HubWrite, S!HubWriteFail
  <2>3. out' = out \/ out' = [out EXCEPT ![Conn] = Append(out[Conn], data)]
    BY <1>5 DEF S!HubRemove, S!HubBroadcast, S!HubPick, S!HubWrite, S!HubWriteFail
  <2>4. UNCHANGED heard
    <3>1. /\ out \in [{Conn} -> Seq(Nat)] /\ out[Conn] \in Seq(Nat)
          /\ Len(out[Conn]) \in Nat /\ appRead \in Nat /\ appRead <= Len(out[Conn])
      BY Ranges
    <3>2. data \in Nat
      BY DEF Sides, SP!HubInv, SP!TypeOK
    <3>3. \A i \in 1 .. Len(out[Conn]) : Append(out[Conn], data)[i] = out[Conn][i]
      BY <3>1, <3>2, AppendProperties
    <3>4. \A i \in 1 .. appRead : out'[Conn][i] = out[Conn][i]
      BY <2>3, <3>1, <3>3
    <3> QED
      BY <1>0, <3>4 DEF heard
  <2>5. (handler'[Conn] \in {"none", "accepted"})
          <=> (handler[Conn] \in {"none", "accepted"})
    <3>1. handler \in [{Conn} -> {"none", "accepted", "reading", "writing",
                                 "removing", "done"}]
      BY DEF Sides, SP!HubInv, SP!TypeOK
    <3> QED
      BY <2>1, <3>1
  <2>6. CASE Conn \in clientConns /\ Conn \notin clientConns'
    <3>1. plugged = "in" /\ plugged' = "out"
      <4>1. handler[Conn] \notin {"none", "accepted"}
        BY <2>6 DEF Sides, SP!HubInv, SP!RegisteredWhileServed
      <4> QED
        BY <2>5, <2>6, <4>1 DEF plugged
    <3> QED
      BY <1>0, <2>1, <2>4, <3>1 DEF Cable!Next, Cable!Unplug, passed
  <2>7. CASE Conn \in clientConns <=> Conn \in clientConns'
    BY <1>0, <2>1, <2>4, <2>5, <2>7 DEF plugged, passed
  <2> QED
    BY <2>2, <2>6, <2>7
<1>6. CASE ByServer(S!Handler(Conn))
  <2>1. UNCHANGED <<nRead, clientConns, joined, out>>
    BY <1>6 DEF S!Handler, S!ClientRead, S!ClientSerialWrite, S!ClientReadEnd
  <2>2. UNCHANGED plugged
    <3>1. handler \in [{Conn} -> {"none", "accepted", "reading", "writing",
                                 "removing", "done"}]
      BY DEF Sides, SP!HubInv, SP!TypeOK
    <3>2. handler[Conn] \notin {"none", "accepted"}
          /\ handler'[Conn] \notin {"none", "accepted"}
      BY <1>6, <3>1 DEF S!Handler, S!ClientRead, S!ClientSerialWrite, S!ClientReadEnd
    <3> QED
      BY <2>1, <3>2 DEF plugged
  <2>3. UNCHANGED heard
    BY <1>0, <2>1 DEF heard
  <2>4. CASE UNCHANGED serialOut
    BY <1>0, <2>1, <2>2, <2>3, <2>4 DEF passed
  <2>5. CASE serialOut' # serialOut
    <3>1. /\ handler[Conn] = "writing"
          /\ serialOut' = Append(serialOut, <<Conn, srvRead[Conn]>>)
      BY <1>6, <2>5 DEF S!Handler, S!ClientRead, S!ClientSerialWrite, S!ClientReadEnd
    <3>2. srvRead[Conn] \in 1 .. appSent
      <4>1. srvRead[Conn] \in Nat /\ srvRead[Conn] > 0 /\ srvRead[Conn] <= sent
        BY <3>1 DEF Sides, SP!HubInv, SP!TypeOK, SP!Written
      <4>2. /\ sent \in Nat /\ upRead \in Nat /\ appSent \in Nat
            /\ sent <= upRead /\ upRead <= appSent
        BY RelayAssumption DEF Sides, CP!TypeOK
      <4> QED
        BY <4>1, <4>2
    <3>3. serialOut \in Seq({Conn} \X Nat)
      BY Ranges
    <3>4. /\ Len(serialOut) \in Nat /\ DOMAIN serialOut = 1 .. Len(serialOut)
          /\ \A i \in 1 .. Len(serialOut) :
               serialOut[i][1] = Conn /\ serialOut[i][2] \in Nat
      BY <3>3, LenProperties
    <3>5. \A i \in DOMAIN passed : passed[i] < srvRead[Conn]
      BY <3>1, <3>4 DEF passed, Sides, SP!Written
    <3>6. passed' = Append(passed, srvRead[Conn])
      <4> DEFINE n == Len(serialOut)
                 last == <<Conn, srvRead[Conn]>>
      <4>1. last \in {Conn} \X Nat
        BY <3>2
      <4>2. /\ DOMAIN Append(serialOut, last) = 1 .. n + 1
            /\ Append(serialOut, last)[n + 1] = last
            /\ \A i \in 1 .. n : Append(serialOut, last)[i] = serialOut[i]
        BY <3>3, <4>1, AppendProperties, LenProperties
      <4>3. passed = [i \in 1 .. n |-> serialOut[i][2]]
        BY <3>4 DEF passed
      <4>4. passed' = [i \in 1 .. n + 1 |-> serialOut'[i][2]]
        BY <3>1, <4>2 DEF passed
      <4>5. /\ \A i \in 1 .. n : serialOut'[i] = serialOut[i]
            /\ serialOut'[n + 1] = last /\ last[2] = srvRead[Conn]
        BY <3>1, <4>2
      <4>6. passed \in [1 .. n -> Nat] /\ passed' \in [1 .. n + 1 -> Nat]
            /\ passed'[n + 1] = srvRead[Conn]
            /\ \A i \in 1 .. n : passed'[i] = passed[i]
        BY <3>2, <3>4, <4>3, <4>4, <4>5
      <4> QED
        BY <3>4, <4>6, OneLonger
    <3> QED
      BY <1>0, <2>1, <2>2, <2>3, <3>2, <3>5, <3>6 DEF Cable!Next, Cable!Pass
  <2> QED
    BY <2>4, <2>5
<1> QED
  BY <1>1, <1>2, <1>3, <1>4, <1>5, <1>6 DEF Server

(***************************************************************************)
(* For any capacities and any amount of data, the two processes and the    *)
(* connection between them are a cable: what the device says is heard      *)
(* without a gap from where the application came in, what the application  *)
(* types is passed on in order and at most once, and never more chunks are *)
(* under way than the channel, the socket and the PTY hold, and three.     *)
(***************************************************************************)
THEOREM CableImplemented == Spec => ImplementsCable
<1>1. Init => Cable!Init
  BY DEF Init, S!Init, C!Init, Cable!Init, plugged, heard, passed
<1>2. Sides /\ [Next]_vars => [Cable!Next]_(Cable!vars)
  <2> SUFFICES ASSUME Sides, [Next]_vars
               PROVE  Cable!Next \/ UNCHANGED Cable!vars
    OBVIOUS
  <2>1. /\ UNCHANGED <<nRead, clientConns, handler, joined, out, serialOut>>
        /\ UNCHANGED <<appRead, appSent>>
        => UNCHANGED Cable!vars
    BY DEF Cable!vars, Cable!deviceVars, Cable!typedVars, plugged, heard, passed
  <2>2. CASE ByServer(ClientGone)
    BY <2>1, <2>2 DEF ByServer, clientVars, ClientGone, S!PeerReset, S!PeerFinish,
                      S!serialVars, S!hubVars, S!upVars
  <2>3. CASE ServerStops
    BY <2>1, <2>3 DEF ServerStops, serverVars, clientVars, C!RemoteEnd
  <2>4. CASE UNCHANGED vars
    BY <2>1, <2>4 DEF vars, serverVars, clientVars
  <2> QED
    BY <2>2, <2>3, <2>4, CableClient, CableServer DEF Next
<1> QED
  BY <1>1, <1>2, SidesHold, PTL DEF Spec, ImplementsCable, Cable!Spec

-----------------------------------------------------------------------------
(* What has been proved of every cable, of this one. *)
KP == INSTANCE CableProofs WITH
        said <- nRead, plug <- plugged, since <- joined[Conn], typed <- appSent,
        Depth <- ChanCap + SockCap + PtyCap + 3, Backlog <- ChanCap + 1

(* The two instances of the module are the same specification. *)
LEMMA SameCable == Cable!Spec => KP!Spec
<1>1. Cable!Init <=> KP!Init
  BY DEF Cable!Init, KP!Init
<1>2. [Cable!Next]_(Cable!vars) => [KP!Next]_(KP!vars)
  BY DEF Cable!Next, Cable!Plug, Cable!Unplug, Cable!Say, Cable!Hear, Cable!Type,
         Cable!Pass, Cable!vars, Cable!deviceVars, Cable!typedVars, KP!Next, KP!Plug,
         KP!Unplug, KP!Say, KP!Hear, KP!Type, KP!Pass, KP!vars, KP!deviceVars,
         KP!typedVars
<1> QED
  BY <1>1, <1>2, PTL DEF Cable!Spec, KP!Spec

(***************************************************************************)
(* From one end to the other: what the application reads are the device's  *)
(* chunks from where it came in, none missing and none twice; what the     *)
(* device is given are the application's, in order and none twice; and the *)
(* device is ahead of a connected application by no more chunks than the   *)
(* buffers hold, so a slow application slows the reading of the device.    *)
(***************************************************************************)
EndToEnd ==
  /\ \A i \in 1 .. appRead : out[Conn][i] = joined[Conn] + i
  /\ \A i \in DOMAIN serialOut : serialOut[i][2] \in 1 .. appSent
  /\ \A i, j \in DOMAIN serialOut : i < j => serialOut[i][2] < serialOut[j][2]
  /\ Conn \in clientConns =>
       nRead <= joined[Conn] + appRead + (ChanCap + SockCap + PtyCap + 3)

THEOREM RelayIsACable == Spec => []EndToEnd
<1>1. Spec => KP!Spec
  BY CableImplemented, SameCable DEF ImplementsCable
<1>2. Spec => [](KP!Gapless /\ KP!InOrder)
  BY <1>1, KP!HeardIsGapless, KP!PassedIsInOrder, PTL
<1>3. /\ ChanCap + SockCap + PtyCap + 3 \in Nat /\ ChanCap + 1 \in Nat
      /\ ChanCap + 1 <= ChanCap + SockCap + PtyCap + 3
  BY RelayAssumption
<1>4. Spec => []KP!Short
  BY <1>1, <1>3, KP!NeverTooFarAhead
<1>5. Sides /\ KP!Gapless /\ KP!InOrder /\ KP!Short => EndToEnd
  <2> SUFFICES ASSUME Sides, KP!Gapless, KP!InOrder, KP!Short PROVE EndToEnd
    OBVIOUS
  <2>0. Len(heard) = appRead
    BY Ranges
  <2>1. \A i \in 1 .. appRead : out[Conn][i] = joined[Conn] + i
    BY <2>0 DEF KP!Gapless, heard
  <2>2. Len(passed) = Len(serialOut) /\ DOMAIN serialOut = 1 .. Len(serialOut)
    <3>1. serialOut \in Seq({Conn} \X Nat)
      BY Ranges
    <3>2. Len(serialOut) \in Nat /\ DOMAIN serialOut = 1 .. Len(serialOut)
      BY <3>1, LenProperties
    <3>3. passed = [i \in 1 .. Len(serialOut) |-> serialOut[i][2]]
      BY <3>2 DEF passed
    <3> QED
      BY <3>2, <3>3
  <2>3. /\ \A i \in DOMAIN serialOut : serialOut[i][2] \in 1 .. appSent
        /\ \A i, j \in DOMAIN serialOut :
             i < j => serialOut[i][2] < serialOut[j][2]
    BY <2>2 DEF KP!InOrder, passed
  <2>4. Conn \in clientConns =>
          nRead <= joined[Conn] + appRead + (ChanCap + SockCap + PtyCap + 3)
    BY <2>0 DEF KP!Short, plugged
  <2> QED
    BY <2>1, <2>3, <2>4 DEF EndToEnd
<1> QED
  BY <1>2, <1>4, <1>5, SidesHold, PTL
=============================================================================
