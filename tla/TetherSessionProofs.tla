------------------------- MODULE TetherSessionProofs -------------------------
(***************************************************************************)
(* Proofs about TetherSession, for any number of dials, chunks and frames, *)
(* with or without pairing.                                                *)
(***************************************************************************)
EXTENDS TetherSession, TLAPS

(* The mutex is held by a goroutine in the middle of a call that took it. *)
Holder ==
  /\ mu = "agent" => agent \in {"registering", "pairing", "closing"}
  /\ mu = "sender" => sender = "sending"
  /\ mu = "beat" => beat = "beating"
  /\ mu = "reader" => reader = "closing"

(* A reader that waits for a frame in a cancelled session has read none since. *)
Late ==
  /\ late <= 1
  /\ ~ ctxDone \/ reader = "reading" => late = 0

(* A session is seen as not connected only when it is over, and a chunk the *)
(* connection did not take is in the sender's hand or was its last.         *)
Over ==
  /\ conn # "none" /\ ~ connected => link = "down" \/ conn = "closed"
  /\ sender # "none" \/ agent \in {"dialed", "registering", "pairing"} => conn # "none"
  /\ sender \in {"none", "reading"} => nRead = uplink
  /\ sender = "sending" => nRead = uplink + 1
  /\ sender = "ended" =>
       nRead = uplink \/ (nRead = uplink + 1 /\ (link = "down" \/ conn = "closed"))

(* Where the session stands against the agent's progress. *)
Progress ==
  /\ agent = "dialing" => conn = "none" /\ reader = "none"
  /\ conn # "closed" => last # "close"
  /\ agent \in {"dialing", "dialed", "registering"} =>
       /\ sender = "none" /\ beat = "none"
       /\ conn # "closed" => last = "none"
  /\ agent = "pairing" =>
       /\ AutoPair /\ sender = "none" /\ beat = "none"
       /\ conn # "closed" => last = "register"
  /\ sender # "none" \/ beat # "none" => conn = "closed" \/ last # "none"

-----------------------------------------------------------------------------
(* Every action keeps the types. *)
LEMMA TypeStep ==
  ASSUME TypeOK, [Next]_vars
  PROVE  TypeOK'
<1> USE TetherSessionAssumption DEF TypeOK,
          vars, goVars, clientVars, netVars, sentVars, countVars, osVars, Running,
          Wants, Sent, Failed, StartBridge, RegisterFailed, SendFailed, Closing,
          Writers, Closers, ReaderMoves, AgentEnds, NetMoves
<1>1. CASE DialOk
  BY <1>1 DEF DialOk, MoreDials
<1>2. CASE DialFail
  BY <1>2 DEF DialFail, MoreDials
<1>3. CASE DialCancel
  BY <1>3 DEF DialCancel
<1>4. CASE ReaderCheck
  BY <1>4 DEF ReaderCheck, AfterCheck
<1>5. CASE ReaderRead
  BY <1>5 DEF ReaderRead
<1>6. CASE ReaderHandled
  BY <1>6 DEF ReaderHandled
<1>7. CASE ReaderFail
  <2>1. connected' \in BOOLEAN
    BY <1>7, Zenon DEF ReaderFail
  <2> QED
    BY <1>7, <2>1 DEF ReaderFail
<1>8. CASE LocalRead
  BY <1>8 DEF LocalRead
<1>9. CASE LocalFail
  BY <1>9 DEF LocalFail
<1>10. CASE Tick
  BY <1>10 DEF Tick, AfterTick
<1>11. CASE AgentDone
  BY <1>11 DEF AgentDone
<1>12. CASE AgentSignal
  BY <1>12 DEF AgentSignal
<1>13. CASE Exit
  BY <1>13 DEF Exit, MainLeaves
<1>14. CASE ServerSend
  BY <1>14 DEF ServerSend
<1>15. CASE LinkFail
  BY <1>15 DEF LinkFail
<1>16. CASE Timeout
  <2>1. link' \in {"up", "silent", "down"} /\ unacked' \in BOOLEAN
    BY <1>16, Zenon DEF Timeout
  <2> QED
    BY <1>16, <2>1 DEF Timeout
<1>17. ASSUME NEW w \in Writers, SendLock(w) PROVE TypeOK'
  BY <1>17 DEF SendLock
<1>18. ASSUME NEW w \in Writers, NotConnected(w) PROVE TypeOK'
  <2>1. /\ agent' \in {"dialing", "dialed", "registering", "pairing", "bridging",
                    "closing", "returned"}
        /\ sender' \in {"none", "reading", "sending", "ended"}
        /\ beat' \in {"none", "idle", "beating"}
    BY <1>18 DEF NotConnected
  <2>2. done' \in BOOLEAN
    BY <1>18 DEF NotConnected
  <2> QED
    BY <1>18, <2>1, <2>2 DEF NotConnected
<1>19. ASSUME NEW w \in Writers, WriteOk(w) PROVE TypeOK'
  <2>1. /\ agent' \in {"dialing", "dialed", "registering", "pairing", "bridging",
                    "closing", "returned"}
        /\ sender' \in {"none", "reading", "sending", "ended"}
        /\ beat' \in {"none", "idle", "beating"}
    BY <1>19 DEF WriteOk
  <2>2. done' \in BOOLEAN
    BY <1>19 DEF WriteOk
  <2>3. unacked' \in BOOLEAN
    BY <1>19, Zenon DEF WriteOk
  <2>4. /\ last' \in {"none", "register", "connect", "data", "heartbeat", "close"}
        /\ uplink' \in 0 .. nRead /\ nRead' = nRead
    BY <1>19 DEF WriteOk, Took
  <2> QED
    BY <1>19, <2>1, <2>2, <2>3, <2>4 DEF WriteOk
<1>20. ASSUME NEW w \in Writers, WriteFail(w) PROVE TypeOK'
  <2>1. /\ agent' \in {"dialing", "dialed", "registering", "pairing", "bridging",
                    "closing", "returned"}
        /\ sender' \in {"none", "reading", "sending", "ended"}
        /\ beat' \in {"none", "idle", "beating"}
    BY <1>20 DEF WriteFail
  <2>2. done' \in BOOLEAN
    BY <1>20 DEF WriteFail
  <2> QED
    BY <1>20, <2>1, <2>2 DEF WriteFail
<1>21. ASSUME NEW w \in Closers, CloseLock(w) PROVE TypeOK'
  BY <1>21 DEF CloseLock
<1>22. ASSUME NEW w \in Closers, CloseFrame(w) PROVE TypeOK'
  <2>1. /\ agent' \in {"dialing", "dialed", "registering", "pairing", "bridging",
                    "closing", "returned"}
        /\ reader' \in {"none", "checking", "reading", "handling", "closing", "ended"}
    BY <1>22 DEF CloseFrame, CloseConn
  <2>2. connected' \in BOOLEAN
    BY <1>22, Zenon DEF CloseFrame, CloseConn
  <2> QED
    BY <1>22, <2>1, <2>2 DEF CloseFrame, CloseConn
<1>23. ASSUME NEW w \in Closers, CloseSilently(w) PROVE TypeOK'
  <2>1. /\ agent' \in {"dialing", "dialed", "registering", "pairing", "bridging",
                    "closing", "returned"}
        /\ reader' \in {"none", "checking", "reading", "handling", "closing", "ended"}
    BY <1>23 DEF CloseSilently, CloseConn
  <2>2. connected' \in BOOLEAN
    BY <1>23, Zenon DEF CloseSilently, CloseConn
  <2> QED
    BY <1>23, <2>1, <2>2 DEF CloseSilently, CloseConn
<1>24. ASSUME NEW x \in {"int", "term"}, Signal(x) PROVE TypeOK'
  <2>1. notified' \in BOOLEAN
    BY <1>24, Zenon DEF Signal
  <2> QED
    BY <1>24, <2>1 DEF Signal
<1>25. CASE UNCHANGED vars
  BY <1>25
<1> QED
  BY <1>1, <1>2, <1>3, <1>4, <1>5, <1>6, <1>7, <1>8, <1>9, <1>10, <1>11,
     <1>12, <1>13, <1>14, <1>15, <1>16, <1>17, <1>18, <1>19, <1>20, <1>21,
     <1>22, <1>23, <1>24, <1>25
  DEF Next, Dial, Send, Reader

(* Only the holder leaves the call that took the mutex. *)
LEMMA HolderStep ==
  ASSUME TypeOK, Holder, Progress, [Next]_vars
  PROVE  Holder'
<1> USE DEF vars, goVars, clientVars, netVars, sentVars, countVars, osVars,
            Holder, Progress, Writers, Closers
<1>1. CASE Dial \/ DialCancel
  BY <1>1 DEF Dial, DialOk, DialFail, DialCancel
<1>2. ASSUME NEW w \in Writers, SendLock(w)
      PROVE  Holder'
  BY <1>2 DEF SendLock, Wants
<1>3. ASSUME NEW w \in Writers, NotConnected(w) \/ WriteFail(w)
      PROVE  Holder'
  BY <1>3 DEF NotConnected, WriteFail, Wants, Failed, StartBridge,
              RegisterFailed, SendFailed
<1>4. ASSUME NEW w \in Writers, WriteOk(w)
      PROVE  Holder'
  BY <1>4 DEF WriteOk, Took, Wants, Sent, StartBridge
<1>5. CASE Reader \/ ReaderHandled
  BY <1>5 DEF Reader, ReaderCheck, ReaderRead, ReaderHandled, ReaderFail, ReaderMoves,
              AfterCheck
<1>6. ASSUME NEW w \in Closers, CloseLock(w)
      PROVE  Holder'
  BY <1>6 DEF CloseLock, Closing
<1>7. ASSUME NEW w \in Closers, CloseFrame(w) \/ CloseSilently(w)
      PROVE  Holder'
  BY <1>7 DEF CloseFrame, CloseSilently, CloseConn, Closing
<1>8. CASE LocalRead \/ LocalFail \/ Tick
  BY <1>8 DEF LocalRead, LocalFail, SendFailed, Tick, AfterTick
<1>9. CASE AgentDone \/ AgentSignal \/ Exit
  BY <1>9 DEF AgentDone, AgentSignal, AgentEnds, Exit
<1>10. ASSUME NEW x \in {"int", "term"}, Signal(x)
      PROVE  Holder'
  BY <1>10 DEF Signal
<1>11. CASE ServerSend \/ LinkFail \/ Timeout \/ UNCHANGED vars
  BY <1>11 DEF ServerSend, LinkFail, Timeout, NetMoves
<1> QED
  BY <1>1, <1>2, <1>3, <1>4, <1>5, <1>6, <1>7, <1>8, <1>9, <1>10, <1>11 DEF Next, Send

(* The socket is closed under the mutex, with connected. *)
LEMMA ConnectedStep ==
  ASSUME TypeOK, Holder, ConnectedMeansOpen, [Next]_vars
  PROVE  ConnectedMeansOpen'
<1> USE DEF vars, goVars, clientVars, netVars, sentVars, countVars, osVars,
            ConnectedMeansOpen, Holder, Wants, Writers, Closers
<1>1. CASE Dial \/ DialCancel
  BY <1>1 DEF Dial, DialOk, DialFail, DialCancel
<1>2. ASSUME NEW w \in Writers, SendLock(w)
      PROVE  ConnectedMeansOpen'
  BY <1>2 DEF SendLock, Wants
<1>3. ASSUME NEW w \in Writers, NotConnected(w) \/ WriteFail(w)
      PROVE  ConnectedMeansOpen'
  BY <1>3 DEF NotConnected, WriteFail, Wants, Failed, StartBridge,
              RegisterFailed, SendFailed
<1>4. ASSUME NEW w \in Writers, WriteOk(w)
      PROVE  ConnectedMeansOpen'
  BY <1>4 DEF WriteOk, Took, Wants, Sent, StartBridge
<1>5. CASE Reader \/ ReaderHandled
  <2>1. CASE ReaderFail
    <3>1. connected' = connected \/ connected' = FALSE
      BY <2>1 DEF ReaderFail
    <3> QED
      BY <2>1, <3>1 DEF ReaderFail, ReaderMoves, Wants
  <2>2. CASE ReaderCheck \/ ReaderRead \/ ReaderHandled
    BY <2>2 DEF ReaderCheck, ReaderRead, ReaderHandled, ReaderMoves, Wants
  <2> QED
    BY <1>5, <2>1, <2>2 DEF Reader
<1>6. ASSUME NEW w \in Closers, CloseLock(w)
      PROVE  ConnectedMeansOpen'
  BY <1>6 DEF CloseLock, Closing
<1>7. ASSUME NEW w \in Closers, CloseFrame(w) \/ CloseSilently(w)
      PROVE  ConnectedMeansOpen'
  BY <1>7 DEF CloseFrame, CloseSilently, CloseConn, Closing
<1>8. CASE LocalRead \/ LocalFail \/ Tick
  BY <1>8 DEF LocalRead, LocalFail, SendFailed, Tick, AfterTick
<1>9. CASE AgentDone \/ AgentSignal \/ Exit
  BY <1>9 DEF AgentDone, AgentSignal, AgentEnds, Exit
<1>10. ASSUME NEW x \in {"int", "term"}, Signal(x)
      PROVE  ConnectedMeansOpen'
  BY <1>10 DEF Signal
<1>11. CASE ServerSend \/ LinkFail \/ Timeout \/ UNCHANGED vars
  BY <1>11 DEF ServerSend, LinkFail, Timeout, NetMoves
<1> QED
  BY <1>1, <1>2, <1>3, <1>4, <1>5, <1>6, <1>7, <1>8, <1>9, <1>10, <1>11 DEF Next, Send

(* A cancelled reader stops at its next check. *)
LEMMA LateStep ==
  ASSUME TypeOK, Late, [Next]_vars
  PROVE  Late'
<1> USE DEF vars, goVars, clientVars, netVars, sentVars, countVars, osVars
<1>1. CASE ReaderRead
  BY <1>1 DEF ReaderRead, ReaderMoves, Late, TypeOK
<1>2. CASE ReaderCheck
  BY <1>2 DEF ReaderCheck, ReaderMoves, AfterCheck, Late
<1>3. CASE ReaderHandled \/ ReaderFail
  BY <1>3 DEF ReaderHandled, ReaderFail, ReaderMoves, Late
<1>4. CASE DialOk \/ DialCancel
  BY <1>4 DEF DialOk, DialCancel, Late
<1>5. ASSUME NEW w \in Closers, CloseLock(w) \/ CloseFrame(w) \/ CloseSilently(w)
      PROVE  Late'
  BY <1>5 DEF CloseLock, CloseFrame, CloseSilently, CloseConn, Late
<1>6. CASE UNCHANGED <<late, ctxDone, reader>>
  BY <1>6 DEF Late
<1>7. ASSUME NEW w \in Writers, Send(w) \/ WriteOk(w) \/ WriteFail(w)
      PROVE  UNCHANGED <<late, ctxDone, reader>>
  BY <1>7 DEF Send, SendLock, NotConnected, WriteOk, WriteFail
<1>8. ASSUME NEW x \in {"int", "term"}, Signal(x)
      PROVE  UNCHANGED <<late, ctxDone, reader>>
  BY <1>8 DEF Signal
<1>9. CASE DialFail \/ LocalRead \/ LocalFail \/ Tick \/ UNCHANGED vars
  BY <1>6, <1>9 DEF DialFail, LocalRead, LocalFail, Tick
<1>10. CASE AgentDone \/ AgentSignal \/ Exit \/ ServerSend \/ LinkFail \/ Timeout
  BY <1>6, <1>10 DEF AgentDone, AgentSignal, AgentEnds, Exit, ServerSend, LinkFail,
                     Timeout, NetMoves
<1> QED
  BY <1>1, <1>2, <1>3, <1>4, <1>5, <1>6, <1>7, <1>8, <1>9, <1>10
     DEF Next, Dial, Reader

(* The last call of Close that finds the socket open says so to the server. *)
LEMMA LeakStep ==
  ASSUME SocketIsNotLeaked, [Next]_vars
  PROVE  SocketIsNotLeaked'
<1> USE DEF vars, goVars, clientVars, netVars, sentVars, countVars, osVars
<1>1. CASE DialOk
  BY <1>1 DEF DialOk, SocketIsNotLeaked
<1>2. CASE Reader \/ ReaderHandled
  BY <1>2 DEF Reader, ReaderCheck, ReaderRead, ReaderHandled, ReaderFail, ReaderMoves,
              AfterCheck, SocketIsNotLeaked
<1>3. ASSUME NEW w \in Writers, WriteOk(w) PROVE SocketIsNotLeaked'
  BY <1>3 DEF WriteOk, SocketIsNotLeaked
<1>4. ASSUME NEW w \in Closers, CloseFrame(w) PROVE SocketIsNotLeaked'
  BY <1>4 DEF CloseFrame, CloseConn, SocketIsNotLeaked
<1>5. ASSUME NEW w \in Closers, CloseSilently(w) PROVE SocketIsNotLeaked'
  BY <1>5 DEF CloseSilently, CloseConn, SocketIsNotLeaked
<1>6. CASE LinkFail \/ Timeout
  BY <1>6 DEF LinkFail, Timeout, NetMoves, SocketIsNotLeaked
<1>7. CASE UNCHANGED <<conn, reader, last, link>>
  BY <1>7 DEF SocketIsNotLeaked
<1>8. ASSUME NEW w \in Writers, Send(w) \/ WriteFail(w)
      PROVE  UNCHANGED <<conn, reader, last, link>>
  BY <1>8 DEF Send, SendLock, NotConnected, WriteFail
<1>9. ASSUME NEW w \in Closers, CloseLock(w)
      PROVE  UNCHANGED <<conn, reader, last, link>>
  BY <1>9 DEF CloseLock
<1>10. ASSUME NEW x \in {"int", "term"}, Signal(x)
      PROVE  UNCHANGED <<conn, reader, last, link>>
  BY <1>10 DEF Signal
<1>11. CASE DialFail \/ DialCancel \/ LocalRead \/ LocalFail \/ Tick \/ UNCHANGED vars
  BY <1>7, <1>11 DEF DialFail, DialCancel, LocalRead, LocalFail, Tick
<1>12. CASE AgentDone \/ AgentSignal \/ Exit \/ ServerSend
  BY <1>7, <1>12 DEF AgentDone, AgentSignal, AgentEnds, Exit, ServerSend, NetMoves
<1> QED
  BY <1>1, <1>2, <1>3, <1>4, <1>5, <1>6, <1>7, <1>8, <1>9, <1>10, <1>11, <1>12
     DEF Next, Dial

(* The bridge starts on a registered session, which nothing has closed. *)
LEMMA ProgressStep ==
  ASSUME TypeOK, Holder, Progress, [Next]_vars
  PROVE  Progress'
<1> USE DEF vars, goVars, clientVars, netVars, sentVars, countVars, osVars,
            TypeOK, Holder, Progress, Writers, Closers
<1>1. CASE Dial \/ DialCancel
  BY <1>1 DEF Dial, DialOk, DialFail, DialCancel
<1>2. ASSUME NEW w \in Writers, SendLock(w)
      PROVE  Progress'
  BY <1>2 DEF SendLock, Wants
<1>3. ASSUME NEW w \in Writers, NotConnected(w) \/ WriteFail(w)
      PROVE  Progress'
  BY <1>3 DEF NotConnected, WriteFail, Wants, Failed, StartBridge,
              RegisterFailed, SendFailed
<1>4. ASSUME NEW w \in Writers, WriteOk(w)
      PROVE  Progress'
  BY <1>4 DEF WriteOk, Took, Wants, Sent, StartBridge
<1>5. CASE Reader \/ ReaderHandled
  BY <1>5 DEF Reader, ReaderCheck, ReaderRead, ReaderHandled, ReaderFail, ReaderMoves,
              AfterCheck
<1>6. ASSUME NEW w \in Closers, CloseLock(w)
      PROVE  Progress'
  BY <1>6 DEF CloseLock, Closing
<1>7. ASSUME NEW w \in Closers, CloseFrame(w) \/ CloseSilently(w)
      PROVE  Progress'
  BY <1>7 DEF CloseFrame, CloseSilently, CloseConn, Closing
<1>8. CASE LocalRead \/ LocalFail \/ Tick
  BY <1>8 DEF LocalRead, LocalFail, SendFailed, Tick, AfterTick
<1>9. CASE AgentDone \/ AgentSignal \/ Exit
  BY <1>9 DEF AgentDone, AgentSignal, AgentEnds, Exit
<1>10. ASSUME NEW x \in {"int", "term"}, Signal(x)
      PROVE  Progress'
  BY <1>10 DEF Signal
<1>11. CASE ServerSend \/ LinkFail \/ Timeout \/ UNCHANGED vars
  BY <1>11 DEF ServerSend, LinkFail, Timeout, NetMoves
<1> QED
  BY <1>1, <1>2, <1>3, <1>4, <1>5, <1>6, <1>7, <1>8, <1>9, <1>10, <1>11 DEF Next, Send

(* The sender reads a chunk only when it has sent the one before, and nobody *)
(* clears connected on a session that works.                                 *)
LEMMA OverStep ==
  ASSUME TypeOK, Holder, Progress, Over, [Next]_vars
  PROVE  Over'
<1> USE DEF vars, goVars, clientVars, netVars, sentVars, countVars, osVars, Over
<1>1. CASE LocalRead
  BY <1>1 DEF LocalRead, TypeOK
<1>2. CASE LocalFail
  BY <1>2 DEF LocalFail, SendFailed
<1>3. ASSUME NEW w \in Writers, WriteOk(w) PROVE Over'
  BY <1>3 DEF WriteOk, Wants, Took, Sent, StartBridge, Progress, Holder, TypeOK, Writers
<1>4. ASSUME NEW w \in Writers, NotConnected(w) PROVE Over'
  BY <1>4 DEF NotConnected, Wants, Failed, StartBridge, RegisterFailed, SendFailed,
              Progress, Holder, Writers
<1>5. ASSUME NEW w \in Writers, WriteFail(w) PROVE Over'
  BY <1>5 DEF WriteFail, Wants, Failed, StartBridge, RegisterFailed, SendFailed,
              Progress, Holder, Writers
<1>6. ASSUME NEW w \in Writers, SendLock(w) PROVE Over'
  BY <1>6 DEF SendLock
<1>7. ASSUME NEW w \in Closers, CloseLock(w) PROVE Over'
  BY <1>7 DEF CloseLock
<1>8. ASSUME NEW w \in Closers, CloseFrame(w) \/ CloseSilently(w) PROVE Over'
  BY <1>8 DEF CloseFrame, CloseSilently, CloseConn
<1>9. CASE Reader \/ ReaderHandled
  <2>1. CASE ReaderFail
    BY <2>1 DEF ReaderFail, ReaderMoves
  <2>2. CASE ReaderCheck \/ ReaderRead \/ ReaderHandled
    BY <2>2 DEF ReaderCheck, ReaderRead, ReaderHandled, ReaderMoves
  <2> QED
    BY <1>9, <2>1, <2>2 DEF Reader
<1>10. CASE Dial \/ DialCancel
  BY <1>10 DEF Dial, DialOk, DialFail, DialCancel, Progress
<1>11. CASE LinkFail \/ Timeout
  BY <1>11 DEF LinkFail, Timeout, NetMoves
<1>12. CASE Tick \/ AgentDone \/ AgentSignal \/ Exit \/ ServerSend \/ UNCHANGED vars
  BY <1>12 DEF Tick, AgentDone, AgentSignal, AgentEnds, Exit, ServerSend, NetMoves
<1>13. ASSUME NEW x \in {"int", "term"}, Signal(x) PROVE Over'
  BY <1>13 DEF Signal
<1> QED
  BY <1>1, <1>2, <1>3, <1>4, <1>5, <1>6, <1>7, <1>8, <1>9, <1>10, <1>11, <1>12, <1>13
     DEF Next, Send

-----------------------------------------------------------------------------
(* The inductive invariant of the session. *)
Invariant ==
  /\ TypeOK /\ Holder /\ Late /\ Progress
  /\ ConnectedMeansOpen /\ SocketIsNotLeaked /\ Over

(* It holds before the first dial. *)
LEMMA InvariantInit == Init => Invariant
<1> SUFFICES ASSUME Init PROVE Invariant
  OBVIOUS
<1>1. TypeOK
  <2>1. /\ done \in BOOLEAN /\ connected \in BOOLEAN /\ ctxDone \in BOOLEAN
        /\ unacked \in BOOLEAN /\ notified \in BOOLEAN
    BY Zenon DEF Init
  <2> QED
    BY <2>1, TetherSessionAssumption DEF Init, TypeOK
<1>2. Holder /\ Late /\ Progress
  BY DEF Init, Holder, Late, Progress
<1>3. ConnectedMeansOpen /\ SocketIsNotLeaked /\ Over
  BY DEF Init, ConnectedMeansOpen, SocketIsNotLeaked, Over, Writers, Wants
<1> QED
  BY <1>1, <1>2, <1>3 DEF Invariant

(* The invariant of the session always holds. *)
THEOREM InvariantHolds == Spec => []Invariant
<1>1. Invariant /\ [Next]_vars => Invariant'
  BY TypeStep, HolderStep, LateStep, ProgressStep, ConnectedStep, LeakStep,
     OverStep
  DEF Invariant
<1> QED
  BY InvariantInit, <1>1, PTL DEF Spec

(* Every variable keeps its type. *)
THEOREM TypeCorrect == Spec => []TypeOK
<1>1. Invariant => TypeOK
  BY DEF Invariant
<1> QED
  BY <1>1, InvariantHolds, PTL

(***************************************************************************)
(* A goroutine that finds connected set under the mutex has an open socket *)
(* until its write is over.                                                *)
(***************************************************************************)
THEOREM ConnectedIsNeverStale == Spec => []ConnectedMeansOpen
<1>1. Invariant => ConnectedMeansOpen
  BY DEF Invariant
<1> QED
  BY <1>1, InvariantHolds, PTL

(***************************************************************************)
(* No order of the two calls of Close, of the dial's cancellation and of   *)
(* the writers leaves a socket open without a reader, or closes one that   *)
(* is still connected without telling the server.                          *)
(***************************************************************************)
THEOREM NoSocketLeaks == Spec => []SocketIsNotLeaked
<1>1. Invariant => SocketIsNotLeaked
  BY DEF Invariant
<1> QED
  BY <1>1, InvariantHolds, PTL

(***************************************************************************)
(* However many frames have arrived, a cancelled session hands at most one *)
(* more to the callbacks.                                                  *)
(***************************************************************************)
THEOREM CancelIsPrompt == Spec => []OneFrameAfterCancel
<1>1. Invariant => OneFrameAfterCancel
  BY DEF Invariant, Late, OneFrameAfterCancel
<1> QED
  BY <1>1, InvariantHolds, PTL

(***************************************************************************)
(* The sender drops a chunk it read only when the session is over: a       *)
(* cleared connected, read under the mutex, always means a link that is    *)
(* down or a socket that Close has ended.  (Nothing is proved about chunks *)
(* the socket took on a link that is silent or down: they may be lost.)    *)
(***************************************************************************)
THEOREM OnlyTheEndCostsAChunk == Spec => []ChunkGivenUpMeansOver
<1>1. Invariant => ChunkGivenUpMeansOver
  BY DEF Invariant, Over, TypeOK, ChunkGivenUpMeansOver
<1> QED
  BY <1>1, InvariantHolds, PTL

-----------------------------------------------------------------------------
(* Every step of the agent is a step of the session or changes none of it. *)
LEMMA SessionStep ==
  ASSUME TypeOK, Progress, Over, [Next]_vars
  PROVE  [S!Next]_S!sessionVars
<1> USE DEF vars, goVars, clientVars, netVars, sentVars, countVars, osVars,
            TypeOK, Progress, Over, Writers, Closers, S!sessionVars
<1>1. CASE Dial \/ DialCancel
  BY <1>1 DEF Dial, DialOk, DialFail, DialCancel
<1>2. ASSUME NEW w \in Writers, SendLock(w)
      PROVE  [S!Next]_S!sessionVars
  BY <1>2 DEF SendLock, Wants
<1>3. ASSUME NEW w \in Writers, NotConnected(w) \/ WriteFail(w)
      PROVE  [S!Next]_S!sessionVars
  BY <1>3 DEF NotConnected, WriteFail, Wants, Failed, StartBridge,
              RegisterFailed, SendFailed
<1>4. ASSUME NEW w \in Writers, WriteOk(w)
      PROVE  [S!Next]_S!sessionVars
  <2>1. CASE w = "sender"
    <3>1. S!Data
      BY <1>4, <2>1 DEF WriteOk, Wants, Took, S!Data, S!Open
    <3> QED
      BY <3>1 DEF S!Next
  <2>2. CASE w = "beat"
    <3>1. S!Beat
      BY <1>4, <2>2 DEF WriteOk, Wants, Took, S!Beat, S!Open
    <3> QED
      BY <3>1 DEF S!Next
  <2>3. CASE w = "agent" /\ agent = "registering"
    <3>1. S!Register
      BY <1>4, <2>3 DEF WriteOk, Took, S!Register
    <3> QED
      BY <3>1 DEF S!Next
  <2>4. CASE w = "agent" /\ agent = "pairing"
    <3>1. S!Pair
      BY <1>4, <2>4 DEF WriteOk, Took, S!Pair
    <3> QED
      BY <3>1 DEF S!Next
  <2> QED
    BY <1>4, <2>1, <2>2, <2>3, <2>4 DEF WriteOk, Wants
<1>5. CASE Reader \/ ReaderHandled
  BY <1>5 DEF Reader, ReaderCheck, ReaderRead, ReaderHandled, ReaderFail, ReaderMoves,
              AfterCheck
<1>6. ASSUME NEW w \in Closers, CloseLock(w)
      PROVE  [S!Next]_S!sessionVars
  BY <1>6 DEF CloseLock, Closing
<1>7. ASSUME NEW w \in Closers, CloseFrame(w) \/ CloseSilently(w)
      PROVE  [S!Next]_S!sessionVars
  <2>1. CASE CloseFrame(w)
    <3>1. S!End
      BY <2>1 DEF CloseFrame, CloseConn, S!End
    <3> QED
      BY <3>1 DEF S!Next
  <2>2. CASE CloseSilently(w)
    BY <2>2 DEF CloseSilently, CloseConn
  <2> QED
    BY <1>7, <2>1, <2>2
<1>8. CASE LocalRead \/ LocalFail \/ Tick
  BY <1>8 DEF LocalRead, LocalFail, SendFailed, Tick, AfterTick
<1>9. CASE AgentDone \/ AgentSignal \/ Exit
  BY <1>9 DEF AgentDone, AgentSignal, AgentEnds, Exit
<1>10. ASSUME NEW x \in {"int", "term"}, Signal(x)
      PROVE  [S!Next]_S!sessionVars
  BY <1>10 DEF Signal
<1>11. CASE ServerSend \/ LinkFail \/ Timeout \/ UNCHANGED vars
  BY <1>11 DEF ServerSend, LinkFail, Timeout, NetMoves
<1> QED
  BY <1>1, <1>2, <1>3, <1>4, <1>5, <1>6, <1>7, <1>8, <1>9, <1>10, <1>11 DEF Next, Send

(***************************************************************************)
(* The agent implements the session, whatever order its goroutines get the *)
(* mutex in and wherever connection, port and process fail.                *)
(***************************************************************************)
THEOREM Implements == Spec => ImplementsSession
<1>1. Init => S!Init
  BY DEF Init, S!Init
<1>2. Invariant /\ [Next]_vars => [S!Next]_S!sessionVars
  BY SessionStep DEF Invariant
<1> QED
  BY <1>1, <1>2, InvariantHolds, PTL DEF Spec, ImplementsSession, S!Spec
=============================================================================
