--------------------------- MODULE TcpServerProofs ---------------------------
(***************************************************************************)
(* Proofs about TcpServer, for any set of clients and any capacities.      *)
(***************************************************************************)
EXTENDS TcpServer, SequenceTheorems, TLAPS

(* The channel holds the chunks read and not yet taken, in order. *)
Queue ==
  /\ \A i \in 1 .. Len(serialData) : serialData[i] = taken + i
  /\ reader = "sending" => nRead = taken + Len(serialData) + 1
  /\ reader # "sending" => nRead = taken + Len(serialData)

(* A connection the hub has not been told of is untouched. *)
Fresh ==
  \A c \in Conns :
    /\ peer[c] = "none" => handler[c] = "none"
    /\ handler[c] \in {"none", "accepted"} => c \notin closed /\ out[c] = << >>

(* In a round, the clients still to be served are one chunk behind. *)
Pending(c) == c \in todo \/ c = target

Round ==
  /\ ~ AtSelect => data = taken /\ taken > 0
  /\ \A c \in clientConns :
       joined[c] + Len(out[c]) = IF Pending(c) THEN taken - 1 ELSE taken

(* No handler has read a chunk that was not sent, and none has written one it *)
(* has not read, or has yet to write.                                         *)
Written ==
  /\ \A c \in Conns :
       upRead[c] <= upSent[c] /\ (handler[c] = "writing" => upRead[c] > 0)
  /\ \A i \in DOMAIN serialOut :
       LET c == serialOut[i][1] IN
         /\ serialOut[i][2] <= upRead[c]
         /\ handler[c] = "writing" => serialOut[i][2] < upRead[c]

(* A socket holds what its peer has yet to read, and no more than it can. *)
Buffered ==
  \A c \in Conns : /\ drained[c] <= Len(out[c])
                   /\ Len(out[c]) <= drained[c] + SockCap

(* The inductive invariant of the hub, its channel and its clients. *)
HubInv == TypeOK /\ RegisteredWhileServed /\ Fresh /\ Queue /\ Round

-----------------------------------------------------------------------------
(***************************************************************************)
(* Every variable keeps its type, and the channel its capacity.            *)
(***************************************************************************)
THEOREM TypeCorrect == Spec => []TypeOK
<1>1. Init => TypeOK
  BY TcpServerAssumption DEF Init, TypeOK
<1>2. TypeOK /\ [Next]_vars => TypeOK'
  <2> SUFFICES ASSUME TypeOK, [Next]_vars PROVE TypeOK'
    OBVIOUS
  <2> USE TcpServerAssumption
     DEF TypeOK, HasRoom, AtSelect, vars, serialVars, hubVars, upVars, peerVars
  <2>1. CASE SerialRead
    BY <2>1 DEF SerialRead
  <2>2. CASE SerialFail
    BY <2>2 DEF SerialFail
  <2>3. CASE SerialSend
    BY <2>3 DEF SerialSend
  <2>4. CASE AcceptFail
    BY <2>4 DEF AcceptFail
  <2>5. CASE HubTake
    BY <2>5 DEF HubTake
  <2>6. ASSUME NEW c \in Conns, Accept(c) PROVE TypeOK'
    BY <2>6 DEF Accept
  <2>7. ASSUME NEW c \in Conns, HubAdd(c) PROVE TypeOK'
    BY <2>7 DEF HubAdd
  <2>8. ASSUME NEW c \in Conns, HubRemove(c) PROVE TypeOK'
    BY <2>8 DEF HubRemove
  <2>9. ASSUME NEW c \in Conns, HubPick(c) PROVE TypeOK'
    BY <2>9 DEF HubPick
  <2>10. ASSUME NEW c \in Conns, HubWrite(c) PROVE TypeOK'
    <3>1. Append(out[c], data) \in Seq(Nat)
      OBVIOUS
    <3>2. out' \in [Conns -> Seq(Nat)]
      BY <2>10, <3>1 DEF HubWrite
    <3> QED
      BY <2>10, <3>2 DEF HubWrite
  <2>11. ASSUME NEW c \in Conns, HubWriteFail(c) PROVE TypeOK'
    BY <2>11 DEF HubWriteFail
  <2>12. ASSUME NEW c \in Conns, ClientRead(c) PROVE TypeOK'
    <3>1. upRead[c] + 1 \in Nat
      OBVIOUS
    <3>2. upRead' \in [Conns -> Nat]
      BY <2>12, <3>1 DEF ClientRead
    <3> QED
      BY <2>12, <3>2 DEF ClientRead
  <2>13. ASSUME NEW c \in Conns, ClientSerialWrite(c) PROVE TypeOK'
    <3>1. Append(serialOut, <<c, upRead[c]>>) \in Seq(Conns \X Nat)
      OBVIOUS
    <3>2. serialOut' \in Seq(Conns \X Nat)
      BY <2>13, <3>1 DEF ClientSerialWrite
    <3> QED
      BY <2>13, <3>2 DEF ClientSerialWrite
  <2>14. ASSUME NEW c \in Conns, ClientReadEnd(c) PROVE TypeOK'
    BY <2>14 DEF ClientReadEnd
  <2>15. ASSUME NEW c \in Conns, PeerSend(c) PROVE TypeOK'
    <3>1. upSent[c] + 1 \in Nat
      OBVIOUS
    <3>2. upSent' \in [Conns -> Nat]
      BY <2>15, <3>1 DEF PeerSend
    <3> QED
      BY <2>15, <3>2 DEF PeerSend
  <2>16. ASSUME NEW c \in Conns, PeerDrain(c) PROVE TypeOK'
    <3>1. drained[c] + 1 \in Nat
      OBVIOUS
    <3>2. drained' \in [Conns -> Nat]
      BY <2>16, <3>1 DEF PeerDrain
    <3> QED
      BY <2>16, <3>2 DEF PeerDrain
  <2>17. ASSUME NEW c \in Conns, PeerFinish(c) PROVE TypeOK'
    BY <2>17 DEF PeerFinish
  <2>18. ASSUME NEW c \in Conns, PeerReset(c) PROVE TypeOK'
    BY <2>18 DEF PeerReset
  <2>19. CASE UNCHANGED vars
    BY <2>19
  <2> QED
    BY <2>1, <2>2, <2>3, <2>4, <2>5, <2>6, <2>7, <2>8, <2>9, <2>10, <2>11, <2>12,
       <2>13, <2>14, <2>15, <2>16, <2>17, <2>18, <2>19
       DEF Next, Serial, HubBroadcast, Handler, Peer
<1> QED
  BY <1>1, <1>2, PTL DEF Spec

-----------------------------------------------------------------------------
(* Map, handlers and sockets stay in agreement. *)
LEMMA RegisteredStep ==
  ASSUME TypeOK, RegisteredWhileServed, Fresh, [Next]_vars
  PROVE  RegisteredWhileServed'
<1> USE TcpServerAssumption
   DEF TypeOK, RegisteredWhileServed, Fresh, AtSelect, vars, serialVars, hubVars,
       upVars, peerVars
<1>1. CASE HubTake
  BY <1>1 DEF HubTake
<1>2. ASSUME NEW c \in Conns, Accept(c) PROVE RegisteredWhileServed'
  BY <1>2 DEF Accept
<1>3. ASSUME NEW c \in Conns, HubAdd(c) PROVE RegisteredWhileServed'
  BY <1>3 DEF HubAdd
<1>4. ASSUME NEW c \in Conns, HubRemove(c) PROVE RegisteredWhileServed'
  BY <1>4 DEF HubRemove
<1>5. ASSUME NEW c \in Conns, HubPick(c) PROVE RegisteredWhileServed'
  BY <1>5 DEF HubPick
<1>6. ASSUME NEW c \in Conns, HubWrite(c) PROVE RegisteredWhileServed'
  BY <1>6 DEF HubWrite
<1>7. ASSUME NEW c \in Conns, HubWriteFail(c) PROVE RegisteredWhileServed'
  BY <1>7 DEF HubWriteFail
<1>8. ASSUME NEW c \in Conns, ClientRead(c) PROVE RegisteredWhileServed'
  BY <1>8 DEF ClientRead
<1>9. ASSUME NEW c \in Conns, ClientSerialWrite(c) PROVE RegisteredWhileServed'
  BY <1>9 DEF ClientSerialWrite
<1>10. ASSUME NEW c \in Conns, ClientReadEnd(c) PROVE RegisteredWhileServed'
  BY <1>10 DEF ClientReadEnd
<1>11. CASE SerialRead \/ SerialFail \/ SerialSend \/ AcceptFail
  BY <1>11 DEF SerialRead, SerialFail, SerialSend, AcceptFail
<1>12. ASSUME NEW c \in Conns,
              PeerSend(c) \/ PeerDrain(c) \/ PeerFinish(c) \/ PeerReset(c)
     PROVE  RegisteredWhileServed'
  BY <1>12 DEF PeerSend, PeerDrain, PeerFinish, PeerReset
<1>13. CASE UNCHANGED vars
  BY <1>13
<1> QED
  BY <1>1, <1>2, <1>3, <1>4, <1>5, <1>6, <1>7, <1>8, <1>9, <1>10, <1>11, <1>12,
     <1>13
     DEF Next, Serial, HubBroadcast, Handler, Peer

(* Nothing touches a connection before the hub adds it. *)
LEMMA FreshStep ==
  ASSUME TypeOK, RegisteredWhileServed, Fresh, [Next]_vars
  PROVE  Fresh'
<1> USE TcpServerAssumption
   DEF TypeOK, RegisteredWhileServed, Fresh, vars, serialVars, hubVars, upVars,
       peerVars
<1>1. ASSUME NEW c \in Conns, Accept(c) PROVE Fresh'
  BY <1>1 DEF Accept
<1>2. ASSUME NEW c \in Conns, HubAdd(c) PROVE Fresh'
  BY <1>2 DEF HubAdd
<1>3. ASSUME NEW c \in Conns, HubRemove(c) PROVE Fresh'
  BY <1>3 DEF HubRemove
<1>4. ASSUME NEW c \in Conns, HubWrite(c) PROVE Fresh'
  BY <1>4 DEF HubWrite
<1>5. ASSUME NEW c \in Conns, HubWriteFail(c) PROVE Fresh'
  BY <1>5 DEF HubWriteFail
<1>6. ASSUME NEW c \in Conns, ClientRead(c) PROVE Fresh'
  BY <1>6 DEF ClientRead
<1>7. ASSUME NEW c \in Conns, ClientSerialWrite(c) PROVE Fresh'
  BY <1>7 DEF ClientSerialWrite
<1>8. ASSUME NEW c \in Conns, ClientReadEnd(c) PROVE Fresh'
  BY <1>8 DEF ClientReadEnd
<1>9. CASE SerialRead \/ SerialFail \/ SerialSend \/ AcceptFail \/ HubTake
  BY <1>9 DEF SerialRead, SerialFail, SerialSend, AcceptFail, HubTake
<1>10. ASSUME NEW c \in Conns,
              HubPick(c) \/ PeerSend(c) \/ PeerDrain(c) \/ PeerFinish(c)
              \/ PeerReset(c)
     PROVE  Fresh'
  BY <1>10 DEF HubPick, PeerSend, PeerDrain, PeerFinish, PeerReset
<1>11. CASE UNCHANGED vars
  BY <1>11
<1> QED
  BY <1>1, <1>2, <1>3, <1>4, <1>5, <1>6, <1>7, <1>8, <1>9, <1>10, <1>11
     DEF Next, Serial, HubBroadcast, Handler, Peer

(* The channel delivers the chunks in the order they were read. *)
LEMMA QueueStep ==
  ASSUME TypeOK, Queue, [Next]_vars
  PROVE  Queue'
<1> USE DEF Queue, vars, serialVars, hubVars, upVars, peerVars
<1>0. taken \in Nat /\ nRead \in Nat /\ serialData \in Seq(Nat)
  BY TcpServerAssumption DEF TypeOK
<1>1. CASE SerialRead
  BY <1>0, <1>1 DEF SerialRead
<1>2. CASE SerialFail
  BY <1>0, <1>2 DEF SerialFail
<1>3. CASE SerialSend
  <2>1. /\ serialData' = Append(serialData, nRead)
        /\ nRead' = nRead /\ taken' = taken /\ reader' = "reading"
        /\ nRead = taken + Len(serialData) + 1
    BY <1>3 DEF SerialSend
  <2>2. /\ Len(serialData') = Len(serialData) + 1
        /\ \A i \in 1 .. Len(serialData) : serialData'[i] = serialData[i]
        /\ serialData'[Len(serialData) + 1] = nRead
    BY <1>0, <2>1, AppendProperties
  <2> QED
    BY <1>0, <2>1, <2>2
<1>4. CASE HubTake
  <2>1. /\ serialData # << >> /\ serialData' = Tail(serialData)
        /\ nRead' = nRead /\ taken' = taken + 1 /\ reader' = reader
    BY <1>4 DEF HubTake
  <2>2. /\ Len(serialData) \in Nat
        /\ Len(serialData') \in Nat
        /\ Len(serialData') = Len(serialData) - 1
        /\ \A i \in 1 .. Len(serialData') : serialData'[i] = serialData[i + 1]
    BY <1>0, <2>1, HeadTailProperties
  <2>3. ASSUME NEW i \in 1 .. Len(serialData')
        PROVE  serialData'[i] = (taken + 1) + i
    <3>1. i + 1 \in 1 .. Len(serialData)
      BY <2>2
    <3>2. serialData[i + 1] = taken + (i + 1)
      BY <3>1
    <3>3. serialData'[i] = serialData[i + 1]
      BY <2>2
    <3>4. taken + (i + 1) = (taken + 1) + i
      BY <1>0
    <3> QED
      BY <3>2, <3>3, <3>4
  <2>4. /\ reader = "sending" => nRead = (taken + 1) + Len(serialData') + 1
        /\ reader # "sending" => nRead = (taken + 1) + Len(serialData')
    <3>1. /\ Len(serialData) \in Nat
          /\ Len(serialData') = Len(serialData) - 1
      BY <2>2
    <3> QED
      BY <1>0, <3>1
  <2>5. \A i \in 1 .. Len(serialData') : serialData'[i] = taken' + i
    BY <2>1, <2>3
  <2> QED
    BY <2>1, <2>4, <2>5
<1>5. CASE AcceptFail
  BY <1>5 DEF AcceptFail
<1>6. ASSUME NEW c \in Conns,
              \/ Accept(c) \/ HubAdd(c) \/ HubRemove(c) \/ HubPick(c)
              \/ HubWrite(c) \/ HubWriteFail(c) \/ ClientRead(c)
              \/ ClientSerialWrite(c) \/ ClientReadEnd(c) \/ PeerSend(c)
              \/ PeerDrain(c) \/ PeerFinish(c) \/ PeerReset(c)
      PROVE   Queue'
  BY <1>6 DEF Accept, HubAdd, HubRemove, HubPick, HubWrite, HubWriteFail,
              ClientRead, ClientSerialWrite, ClientReadEnd, PeerSend,
              PeerDrain, PeerFinish, PeerReset
<1>7. CASE UNCHANGED vars
  BY <1>7
<1> QED
  BY <1>1, <1>2, <1>3, <1>4, <1>5, <1>6, <1>7
  DEF Next, Serial, HubBroadcast, Handler, Peer

(* A member is at the current chunk, or is still to be visited. *)
LEMMA RoundStep ==
  ASSUME TypeOK, RegisteredWhileServed, Fresh, Queue, Round, [Next]_vars
  PROVE  Round'
<1> USE DEF Round, Pending, AtSelect, vars, serialVars, hubVars, upVars, peerVars
<1>0. /\ taken \in Nat /\ data \in Nat /\ todo \subseteq Conns
      /\ clientConns \subseteq Conns /\ NoConn \notin Conns
      /\ joined \in [Conns -> Nat] /\ out \in [Conns -> Seq(Nat)]
      /\ \A c \in Conns : Len(out[c]) \in Nat
  BY TcpServerAssumption DEF TypeOK
<1>1. CASE HubTake
  <2>1. serialData # << >> /\ serialData \in Seq(Nat)
    BY <1>1 DEF HubTake, TypeOK
  <2>2. Head(serialData) = taken + 1
    <3>1. 1 \in 1 .. Len(serialData)
      BY <2>1, EmptySeq
    <3>2. Head(serialData) = serialData[1]
      BY <2>1
    <3> QED
      BY <3>1, <3>2 DEF Queue
  <2>3. /\ data' = Head(serialData) /\ taken' = taken + 1
        /\ todo = {} /\ target = NoConn /\ todo' = clientConns
        /\ UNCHANGED <<clientConns, target, joined, out>>
    BY <1>1 DEF HubTake
  <2> QED
    BY <1>0, <2>2, <2>3
<1>2. ASSUME NEW c \in Conns, HubAdd(c) PROVE Round'
  <2>1. /\ todo = {} /\ target = NoConn
        /\ clientConns' = clientConns \cup {c}
        /\ joined' = [joined EXCEPT ![c] = taken]
        /\ UNCHANGED <<todo, target, taken, out>>
    BY <1>2 DEF HubAdd
  <2>2. out[c] = << >>
    BY <1>2 DEF HubAdd, Fresh
  <2>3. joined'[c] = taken /\ Len(out'[c]) = 0
    BY <1>0, <2>1, <2>2
  <2>4. c \notin todo' /\ c # target'
    BY <1>0, <2>1
  <2>5. \A d \in clientConns' \ {c} : joined'[d] + Len(out'[d]) =
                                      IF Pending(d)' THEN taken' - 1 ELSE taken'
    BY <1>0, <2>1
  <2>6. joined'[c] + Len(out'[c]) = IF Pending(c)' THEN taken' - 1 ELSE taken'
    BY <1>0, <2>1, <2>3, <2>4
  <2>7. AtSelect'
    BY <2>1
  <2> QED
    BY <2>1, <2>5, <2>6, <2>7
<1>3. ASSUME NEW c \in Conns, HubRemove(c) PROVE Round'
  BY <1>0, <1>3 DEF HubRemove
<1>4. ASSUME NEW c \in Conns, HubPick(c) PROVE Round'
  BY <1>0, <1>4 DEF HubPick
<1>5. ASSUME NEW c \in Conns, HubWrite(c) PROVE Round'
  <2>1. /\ target = c /\ target' = NoConn
        /\ out' = [out EXCEPT ![c] = Append(out[c], data)]
        /\ UNCHANGED <<clientConns, data, todo, taken, joined>>
    BY <1>5 DEF HubWrite
  <2>2. Len(out'[c]) = Len(out[c]) + 1
    BY <1>0, <2>1, AppendProperties
  <2>3. c \in clientConns \ todo
    BY <1>0, <2>1 DEF RegisteredWhileServed
  <2>4. joined[c] + Len(out[c]) = taken - 1
    BY <2>1, <2>3
  <2>5. joined'[c] + Len(out'[c]) = taken
    BY <1>0, <2>1, <2>2, <2>4
  <2>6. c \notin todo' /\ c # target'
    BY <1>0, <2>1, <2>3
  <2>7. \A d \in Conns \ {c} : out'[d] = out[d]
    BY <1>0, <2>1
  <2>8. \A d \in clientConns' \ {c} : joined'[d] + Len(out'[d]) =
                                      IF Pending(d)' THEN taken' - 1 ELSE taken'
    BY <1>0, <2>1, <2>7
  <2>9. ~ AtSelect' => data' = taken' /\ taken' > 0
    BY <1>0, <2>1, <2>3
  <2> QED
    BY <2>1, <2>5, <2>6, <2>8, <2>9
<1>6. ASSUME NEW c \in Conns, HubWriteFail(c) PROVE Round'
  BY <1>0, <1>6 DEF HubWriteFail
<1>7. CASE SerialRead \/ SerialFail \/ SerialSend \/ AcceptFail
  BY <1>7 DEF SerialRead, SerialFail, SerialSend, AcceptFail
<1>8. ASSUME NEW c \in Conns,
              \/ Accept(c) \/ ClientRead(c) \/ ClientSerialWrite(c)
              \/ ClientReadEnd(c) \/ PeerSend(c) \/ PeerDrain(c)
              \/ PeerFinish(c) \/ PeerReset(c)
      PROVE   Round'
  BY <1>8 DEF Accept, ClientRead, ClientSerialWrite, ClientReadEnd, PeerSend,
              PeerDrain, PeerFinish, PeerReset
<1>9. CASE UNCHANGED vars
  BY <1>9
<1> QED
  BY <1>1, <1>2, <1>3, <1>4, <1>5, <1>6, <1>7, <1>8, <1>9
  DEF Next, Serial, HubBroadcast, Handler, Peer

(* It holds before the first client and the first chunk. *)
LEMMA HubInvInit == Init => HubInv
  BY TcpServerAssumption
  DEF Init, HubInv, TypeOK, RegisteredWhileServed, Fresh, Queue, Round, AtSelect

(* Every step of every goroutine and peer preserves it. *)
LEMMA HubInvStep == HubInv /\ TypeOK' /\ [Next]_vars => HubInv'
  BY RegisteredStep, FreshStep, QueueStep, RoundStep DEF HubInv

(* The invariant of the hub, strengthened until a step preserves it. *)
THEOREM HubInvariant == Spec => []HubInv
  BY HubInvInit, HubInvStep, TypeCorrect, PTL DEF Spec

(***************************************************************************)
(* The hub's map, the handlers and the sockets agree on who is served, for *)
(* any number of clients.                                                  *)
(***************************************************************************)
THEOREM Registered == Spec => []RegisteredWhileServed
<1>1. HubInv => RegisteredWhileServed
  BY DEF HubInv
<1> QED
  BY <1>1, HubInvariant, PTL

-----------------------------------------------------------------------------
(* A handler writes what it has just read, once, and only then reads again. *)
LEMMA UplinkStep ==
  ASSUME TypeOK, Written, UplinkInOrder, [Next]_vars
  PROVE  Written' /\ UplinkInOrder'
<1> USE DEF Written, UplinkInOrder, vars, serialVars, hubVars, upVars, peerVars
<1>0. /\ upRead \in [Conns -> Nat] /\ serialOut \in Seq(Conns \X Nat)
      /\ upSent \in [Conns -> Nat]
      /\ handler \in [Conns -> {"none", "accepted", "reading", "writing",
                                "removing", "done"}]
      /\ \A i \in DOMAIN serialOut : /\ serialOut[i][1] \in Conns
                                     /\ serialOut[i][2] \in Nat
  BY DEF TypeOK
<1>1. ASSUME NEW c \in Conns, ClientRead(c)
      PROVE  Written' /\ UplinkInOrder'
  BY <1>0, <1>1 DEF ClientRead, Readable
<1>2. ASSUME NEW c \in Conns, ClientSerialWrite(c)
      PROVE  Written' /\ UplinkInOrder'
  <2>1. CASE serialOut' = serialOut
    BY <1>0, <1>2, <2>1 DEF ClientSerialWrite
  <2>2. CASE serialOut' = Append(serialOut, <<c, upRead[c]>>)
    <3> DEFINE n == Len(serialOut)
    <3>1. /\ n \in Nat
          /\ DOMAIN serialOut = 1 .. n /\ DOMAIN serialOut' = 1 .. n + 1
          /\ \A i \in 1 .. n : serialOut'[i] = serialOut[i]
          /\ serialOut'[n + 1] = <<c, upRead[c]>>
      BY <1>0, <2>2, AppendProperties, LenProperties
    <3>2. \A i \in 1 .. n : serialOut[i][1] = c => serialOut[i][2] < upRead[c]
      BY <1>0, <1>2, <3>1 DEF ClientSerialWrite
    <3>3. /\ upRead' = upRead /\ upSent' = upSent
          /\ handler' = [handler EXCEPT ![c] = "reading"]
      BY <1>2 DEF ClientSerialWrite
    <3> HIDE DEF n
    <3>4. Written'
      BY <1>0, <3>1, <3>3
    <3>5. ASSUME NEW i \in 1 .. n + 1, NEW j \in 1 .. n + 1,
                 i < j, serialOut'[i][1] = serialOut'[j][1]
          PROVE  serialOut'[i][2] < serialOut'[j][2]
      <4>1. i \in 1 .. n /\ serialOut'[i] = serialOut[i]
        BY <3>1, <3>5
      <4>2. CASE j = n + 1
        BY <3>1, <3>2, <3>5, <4>1, <4>2
      <4>3. CASE j # n + 1
        <5>1. j \in 1 .. n /\ serialOut'[j] = serialOut[j]
          BY <3>1, <4>3
        <5> QED
          BY <3>1, <3>5, <4>1, <5>1
      <4> QED
        BY <4>2, <4>3
    <3> QED
      BY <3>1, <3>4, <3>5
  <2> QED
    BY <1>2, <2>1, <2>2 DEF ClientSerialWrite
<1>3. ASSUME NEW c \in Conns,
              \/ Accept(c) \/ HubAdd(c) \/ HubRemove(c) \/ ClientReadEnd(c)
      PROVE  Written' /\ UplinkInOrder'
  BY <1>0, <1>3 DEF Accept, HubAdd, HubRemove, ClientReadEnd
<1>4. ASSUME NEW c \in Conns,
              \/ HubPick(c) \/ HubWrite(c) \/ HubWriteFail(c)
              \/ PeerDrain(c) \/ PeerFinish(c) \/ PeerReset(c)
      PROVE  Written' /\ UplinkInOrder'
  BY <1>4 DEF HubPick, HubWrite, HubWriteFail, PeerDrain, PeerFinish, PeerReset
<1>7. ASSUME NEW c \in Conns, PeerSend(c) PROVE Written' /\ UplinkInOrder'
  <2>1. /\ UNCHANGED <<upRead, serialOut, handler>>
        /\ \A d \in Conns : upSent[d] <= upSent'[d] /\ upSent'[d] \in Nat
    BY <1>0, <1>7 DEF PeerSend
  <2> QED
    BY <1>0, <2>1
<1>5. CASE SerialRead \/ SerialFail \/ SerialSend \/ AcceptFail \/ HubTake
  BY <1>5 DEF SerialRead, SerialFail, SerialSend, AcceptFail, HubTake
<1>6. CASE UNCHANGED vars
  BY <1>6
<1> QED
  BY <1>1, <1>2, <1>3, <1>4, <1>5, <1>6, <1>7
  DEF Next, Serial, HubBroadcast, Handler, Peer

(* What was sent, read and written of each client's data is in step. *)
THEOREM WrittenInvariant == Spec => [](Written /\ UplinkInOrder)
<1>1. Init => Written /\ UplinkInOrder
  BY DEF Init, Written, UplinkInOrder
<1> QED
  BY <1>1, UplinkStep, TypeCorrect, PTL DEF Spec

(***************************************************************************)
(* What each client sends is written to the serial port in order and at    *)
(* most once, for any number of clients.                                   *)
(***************************************************************************)
THEOREM UplinkOrdered == Spec => []UplinkInOrder
  BY WrittenInvariant, PTL

-----------------------------------------------------------------------------
(***************************************************************************)
(* The server implements Broadcast: whatever the goroutines' interleaving, *)
(* the size of the channel and of the sockets, a client is given the       *)
(* chunks that follow its arrival, each once and in order, and no round    *)
(* begins before the previous one has reached every client still there.    *)
(***************************************************************************)
THEOREM Implements == Spec => ImplementsBroadcast
<1>1. Init => B!Init
  BY DEF Init, B!Init, standing
<1>2. HubInv /\ [Next]_vars => [B!Next]_(B!vars)
  <2> SUFFICES ASSUME HubInv, [Next]_vars
               PROVE  [B!Next]_(B!vars)
    OBVIOUS
  <2> USE DEF B!vars, vars, serialVars, hubVars, upVars, peerVars
  <2>0. /\ taken \in Nat /\ todo \subseteq Conns /\ clientConns \subseteq Conns
        /\ joined \in [Conns -> Nat] /\ out \in [Conns -> Seq(Nat)]
        /\ handler \in [Conns -> {"none", "accepted", "reading", "writing",
                                  "removing", "done"}]
        /\ NoConn \notin Conns
        /\ \A c \in Conns : Len(out[c]) \in Nat
    BY TcpServerAssumption DEF HubInv, TypeOK
  <2>1. CASE HubTake
    <3>1. B!Begin
      <4>1. \A c \in Conns : standing[c] = "member" => B!Reached(c) = taken
        BY <2>0, <2>1
        DEF HubTake, AtSelect, HubInv, Round, Pending, standing, B!Reached
      <4>2. standing' = standing
        BY <2>1 DEF HubTake, standing
      <4> QED
        BY <2>1, <4>1, <4>2 DEF HubTake, B!Begin
    <3> QED
      BY <3>1 DEF B!Next
  <2>2. ASSUME NEW c \in Conns, HubAdd(c) PROVE B!Join(c)
    <3>1. standing[c] = "outside"
      BY <2>2 DEF HubAdd, standing, HubInv, RegisteredWhileServed
    <3>2. standing' = [standing EXCEPT ![c] = "member"]
      BY <2>0, <2>2 DEF HubAdd, standing
    <3> QED
      BY <2>2, <3>1, <3>2 DEF HubAdd, B!Join
  <2>3. ASSUME NEW c \in Conns, HubWrite(c) PROVE B!Deliver(c)
    <3>1. c \in clientConns /\ data = taken
      BY <2>0, <2>3
      DEF HubWrite, HubInv, RegisteredWhileServed, Round, AtSelect
    <3>2. joined[c] + Len(out[c]) = taken - 1
      BY <2>3, <3>1 DEF HubWrite, HubInv, Round, Pending
    <3>3. standing' = standing /\ standing[c] = "member"
      BY <2>3, <3>1 DEF HubWrite, standing
    <3>4. B!Reached(c) < taken /\ data = B!Reached(c) + 1
      BY <2>0, <3>1, <3>2 DEF B!Reached
    <3> QED
      BY <2>3, <3>3, <3>4 DEF HubWrite, B!Deliver
  <2>4. ASSUME NEW c \in Conns, HubWriteFail(c) PROVE B!Leave(c)
    <3>1. c \in clientConns
      BY <2>0, <2>4 DEF HubWriteFail, HubInv, RegisteredWhileServed
    <3>2. handler[c] \notin {"none", "accepted"}
      BY <3>1 DEF HubInv, RegisteredWhileServed
    <3>3. /\ standing[c] = "member"
          /\ standing' = [standing EXCEPT ![c] = "gone"]
      BY <2>0, <2>4, <3>1, <3>2 DEF HubWriteFail, standing
    <3> QED
      BY <2>4, <3>3 DEF HubWriteFail, B!Leave
  <2>5. ASSUME NEW c \in Conns, HubRemove(c)
        PROVE  B!Leave(c) \/ UNCHANGED B!vars
    <3>1. UNCHANGED <<taken, joined, out>>
      BY <2>5 DEF HubRemove
    <3>2. CASE c \in clientConns
      <4>1. /\ standing[c] = "member"
            /\ standing' = [standing EXCEPT ![c] = "gone"]
        BY <2>0, <2>5, <3>2 DEF HubRemove, standing
      <4> QED
        BY <3>1, <4>1 DEF B!Leave
    <3>3. CASE c \notin clientConns
      <4>1. standing' = standing
        BY <2>0, <2>5, <3>3 DEF HubRemove, standing
      <4> QED
        BY <3>1, <4>1
    <3> QED
      BY <3>2, <3>3
  <2>6. ASSUME NEW c \in Conns,
                \/ Accept(c) \/ ClientRead(c) \/ ClientSerialWrite(c)
                \/ ClientReadEnd(c)
        PROVE  UNCHANGED B!vars
    <3>1. standing' = standing
      BY <2>0, <2>6 DEF Accept, ClientRead, ClientSerialWrite, ClientReadEnd,
                        standing, HubInv, Fresh
    <3> QED
      BY <2>6, <3>1 DEF Accept, ClientRead, ClientSerialWrite, ClientReadEnd
  <2>7. ASSUME NEW c \in Conns,
                \/ HubPick(c) \/ PeerSend(c) \/ PeerDrain(c) \/ PeerFinish(c)
                \/ PeerReset(c)
        PROVE  UNCHANGED B!vars
    BY <2>7 DEF HubPick, PeerSend, PeerDrain, PeerFinish, PeerReset, standing
  <2>8. CASE SerialRead \/ SerialFail \/ SerialSend \/ AcceptFail
    BY <2>8 DEF SerialRead, SerialFail, SerialSend, AcceptFail, standing
  <2>9. CASE UNCHANGED vars
    BY <2>9 DEF standing
  <2> QED
    BY <2>1, <2>2, <2>3, <2>4, <2>5, <2>6, <2>7, <2>8, <2>9
    DEF Next, Serial, HubBroadcast, Handler, Peer, B!Next
<1> QED
  BY <1>1, <1>2, HubInvariant, PTL DEF Spec, ImplementsBroadcast, B!Spec

-----------------------------------------------------------------------------
(* What is proved of every broadcast, of the broadcast of this server. *)
BP == INSTANCE BroadcastProofs WITH
        cursor <- taken, status <- standing, start <- joined, stream <- out

LEMMA SameBroadcast == B!Spec => BP!Spec
<1>1. B!Init <=> BP!Init
  BY DEF B!Init, BP!Init
<1>2. [B!Next]_(B!vars) <=> [BP!Next]_(BP!vars)
  BY DEF B!Next, BP!Next, B!Begin, BP!Begin, B!Join, BP!Join, B!Deliver, BP!Deliver,
         B!Leave, BP!Leave, B!Reached, BP!Reached, B!vars, BP!vars
<1> QED
  BY <1>1, <1>2, PTL DEF B!Spec, BP!Spec

(* What conn.Write accepted for a client are chunks that follow its joining, *)
(* and were taken from the channel.                                          *)
Streams ==
  \A c \in Conns :
    /\ \A i \in 1 .. Len(out[c]) : out[c][i] = joined[c] + i
    /\ out[c] # << >> => joined[c] + Len(out[c]) <= taken

(***************************************************************************)
(* The bytes a client is written are those of consecutive reads of the     *)
(* serial port, from its joining on, for any number of clients, whatever   *)
(* they or the others do, also while it is dropped and ever after.         *)
(***************************************************************************)
THEOREM StreamsContiguous == Spec => []Streams
<1>1. HubInv /\ BP!Contiguous /\ BP!Lockstep => Streams
  BY DEF HubInv, Fresh, standing, BP!Contiguous, BP!Lockstep, BP!Reached, Streams
<1> QED
  BY <1>1, HubInvariant, Implements, SameBroadcast, BP!StreamsAreContiguous,
     BP!ClientsMoveInLockstep, PTL
     DEF ImplementsBroadcast

-----------------------------------------------------------------------------
(* A write waits for room, and a peer reads only what was written. *)
LEMMA BufferedStep ==
  ASSUME TypeOK, Buffered, [Next]_vars
  PROVE  Buffered'
<1> USE DEF Buffered, vars, serialVars, hubVars, upVars, peerVars
<1>0. /\ out \in [Conns -> Seq(Nat)] /\ drained \in [Conns -> Nat]
      /\ data \in Nat /\ SockCap \in Nat
      /\ \A c \in Conns : Len(out[c]) \in Nat
  BY TcpServerAssumption DEF TypeOK
<1>1. ASSUME NEW c \in Conns, HubWrite(c) PROVE Buffered'
  <2>1. /\ out' = [out EXCEPT ![c] = Append(out[c], data)]
        /\ drained' = drained /\ Len(out[c]) < drained[c] + SockCap
    BY <1>1 DEF HubWrite, HasRoom
  <2>2. Len(out'[c]) = Len(out[c]) + 1
    BY <1>0, <2>1, AppendProperties
  <2>3. \A d \in Conns \ {c} : out'[d] = out[d]
    BY <1>0, <2>1
  <2> QED
    BY <1>0, <2>1, <2>2, <2>3
<1>2. ASSUME NEW c \in Conns, PeerDrain(c) PROVE Buffered'
  BY <1>0, <1>2 DEF PeerDrain
<1>3. UNCHANGED <<out, drained>> => Buffered'
  OBVIOUS
<1>4. ASSUME NEW c \in Conns,
              \/ Accept(c) \/ HubAdd(c) \/ HubRemove(c) \/ HubPick(c)
              \/ HubWriteFail(c) \/ Handler(c) \/ PeerSend(c)
              \/ PeerFinish(c) \/ PeerReset(c)
      PROVE   UNCHANGED <<out, drained>>
  BY <1>4 DEF Accept, HubAdd, HubRemove, HubPick, HubWriteFail, Handler, ClientRead,
              ClientSerialWrite, ClientReadEnd, PeerSend, PeerFinish, PeerReset
<1>5. CASE Serial \/ AcceptFail \/ HubTake \/ UNCHANGED vars
  BY <1>5 DEF Serial, SerialRead, SerialFail, SerialSend, AcceptFail, HubTake
<1> QED
  BY <1>1, <1>2, <1>3, <1>4, <1>5 DEF Next, HubBroadcast, Peer

(* The sockets never hold more than they can, nor less than was read. *)
THEOREM BufferedInvariant == Spec => []Buffered
<1>1. ASSUME Init PROVE Buffered
  <2> SUFFICES ASSUME NEW c \in Conns
               PROVE  drained[c] <= Len(out[c]) /\ Len(out[c]) <= drained[c] + SockCap
    BY DEF Buffered
  <2>1. drained[c] = 0 /\ out[c] = << >> /\ Len(<< >>) = 0
    BY <1>1 DEF Init
  <2>2. SockCap \in Nat
    BY TcpServerAssumption
  <2> QED
    BY <2>1, <2>2
<1> QED
  BY <1>1, BufferedStep, TypeCorrect, PTL DEF Spec

(***************************************************************************)
(* The server holds no more than a socket, the channel and two chunks in   *)
(* hand for any client it serves: when that is full the serial port is not *)
(* read any more, however fast the others are.  Its memory is bounded, and *)
(* the price is that all go at the pace of the slowest.                    *)
(***************************************************************************)
PacedBySlowest ==
  \A c \in clientConns :
    nRead <= joined[c] + drained[c] + SockCap + ChanCap + 2

THEOREM SlowestPaces == Spec => []PacedBySlowest
<1>1. HubInv /\ Buffered => PacedBySlowest
  <2> SUFFICES ASSUME HubInv, Buffered, NEW c \in clientConns
               PROVE  nRead <= joined[c] + drained[c] + SockCap + ChanCap + 2
    BY DEF PacedBySlowest
  <2>1. /\ c \in Conns /\ taken \in Nat /\ nRead \in Nat
        /\ joined[c] \in Nat /\ drained[c] \in Nat
        /\ Len(out[c]) \in Nat /\ SockCap \in Nat /\ ChanCap \in Nat
        /\ Len(serialData) \in Nat /\ Len(serialData) <= ChanCap
    BY TcpServerAssumption DEF HubInv, TypeOK
  <2>2. nRead <= taken + Len(serialData) + 1
    BY <2>1 DEF HubInv, Queue
  <2>3. taken <= joined[c] + Len(out[c]) + 1
    BY <2>1 DEF HubInv, Round
  <2>4. Len(out[c]) <= drained[c] + SockCap
    BY <2>1 DEF Buffered
  <2> QED
    BY <2>1, <2>2, <2>3, <2>4
<1> QED
  BY <1>1, HubInvariant, BufferedInvariant, PTL
=============================================================================
