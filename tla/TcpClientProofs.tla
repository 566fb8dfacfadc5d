--------------------------- MODULE TcpClientProofs ---------------------------
(***************************************************************************)
(* Proofs about TcpClient, for every number of attempts, every delay and   *)
(* every amount of data.                                                   *)
(***************************************************************************)
EXTENDS TcpClient, TLAPS

(* A goroutine that writes has read one chunk more than it has written, and one *)
(* that reads none.                                                             *)
Carried ==
  /\ upRead <= sent + 1 /\ (up # "ended" => upRead = sent + InHand(up))
  /\ downRead <= given + 1 /\ (down # "ended" => downRead = given + InHand(down))

(* What the agent has opened, by how far it has come. *)
Opened ==
  /\ agent \in {"dialing", "connected"} => pty = "none" /\ link # "ours"
  /\ agent = "dialing" => sock = "none"
  /\ agent = "returned" => sock # "open" /\ pty # "open" /\ link # "ours"
  /\ process = "exited" => agent = "returned" \/ signal # "none"

(* Before the bridge there are no goroutines and no reports. *)
Started ==
  agent \in {"dialing", "connected"} =>
    up = "none" /\ down = "none" /\ done = << >>

(* A clean end that is not the port's is reported after the last chunk there was. *)
Clean ==
  \A i \in DOMAIN done :
    done[i] = "nil" /\ up # "ended" =>
      given = arrived /\ remote = "fin" /\ down = "ended"

-----------------------------------------------------------------------------
(* A scaled delay is a natural number, and no shorter if the multiplier is at *)
(* least one.                                                                 *)
LEMMA ScaledType ==
  ASSUME NEW d \in Nat
  PROVE  Scaled(d) \in Nat
<1>1. d * Num \in Nat /\ Den \in Nat \ {0}
  BY TcpClientAssumption
<1> QED
  BY <1>1 DEF Scaled

LEMMA ScaledGrows ==
  ASSUME NEW d \in Nat, Num >= Den
  PROVE  d <= Scaled(d)
<1> DEFINE q == Scaled(d)
<1>1. d * Num \in Nat /\ Den \in Nat \ {0} /\ Num \in Nat /\ q \in Nat
  BY ScaledType, TcpClientAssumption
<1>2. d * Num < Den * (q + 1)
  BY <1>1 DEF Scaled
<1>3. Den * d <= d * Num
  <2>1. \E k \in Nat : Num = Den + k
    <3>1. Num - Den \in Nat /\ Num = Den + (Num - Den)
      BY <1>1
    <3> QED
      BY <3>1
  <2>2. PICK k \in Nat : Num = Den + k
    BY <2>1
  <2>3. d * Num = Den * d + d * k /\ d * k >= 0
    BY <1>1, <2>2
  <2> QED
    BY <1>1, <2>3
<1>4. ASSUME q + 1 <= d PROVE FALSE
  <2>1. \E k \in Nat : d = q + 1 + k
    <3>1. d - (q + 1) \in Nat /\ d = q + 1 + (d - (q + 1))
      BY <1>1, <1>4
    <3> QED
      BY <3>1
  <2>2. PICK k \in Nat : d = q + 1 + k
    BY <2>1
  <2>3. Den * d = Den * (q + 1) + Den * k /\ Den * k >= 0
    BY <1>1, <2>2
  <2> QED
    BY <1>1, <1>2, <1>3, <2>3
<1> QED
  BY <1>1, <1>4

(* The delay is never negative. *)
LEMMA NextDelayType ==
  ASSUME NEW d \in Nat
  PROVE  NextDelay(d) \in Nat
BY ScaledType, TcpClientAssumption DEF NextDelay

(* A delay between the first one and the maximum stays there. *)
LEMMA NextDelayBounded ==
  ASSUME NEW d \in Nat, Initial <= d, d <= Max, Num >= Den
  PROVE  Initial <= NextDelay(d) /\ NextDelay(d) <= Max
<1>1. Scaled(d) \in Nat /\ d <= Scaled(d)
  BY ScaledType, ScaledGrows
<1> QED
  BY <1>1, TcpClientAssumption DEF NextDelay

(***************************************************************************)
(* Only Create starts goroutines, and only goroutines report.              *)
(***************************************************************************)
LEMMA StartedStep == Started /\ [Next]_vars => Started'
<1> SUFFICES ASSUME Started, [Next]_vars PROVE Started'
  OBVIOUS
<1>1. CASE Connect
  BY <1>1 DEF Started, Connect, DialOk, DialFail, Create, CreateFail, upVars, downVars
<1>2. CASE Up \/ Down
  BY <1>2 DEF Started, Up, UpRead, UpReadFail, UpWrite, UpWriteFail, Down, DownRead,
              DownReadEnd, DownWrite, DownWriteFail, Report
<1>3. CASE Leave
  BY <1>3 DEF Started, Leave, AgentDone, AgentSignal, AgentReturn, Exit, upVars, downVars
<1>4. CASE World
  BY <1>4 DEF Started, World, AppWrite, AppRead, RemoteSend, RemoteEnd, Signal, upVars,
              downVars
<1>5. CASE UNCHANGED vars
  BY <1>5 DEF Started, vars, upVars, downVars
<1> QED
  BY <1>1, <1>2, <1>3, <1>4, <1>5 DEF Next

(***************************************************************************)
(* Type correctness: the attempts stay within their number, and no         *)
(* goroutine writes more than it has read.                                 *)
(***************************************************************************)
LEMMA TypeStep == TypeOK /\ Started /\ Carried /\ [Next]_vars => TypeOK' /\ Carried'
<1> SUFFICES ASSUME TypeOK, Started, Carried, [Next]_vars PROVE TypeOK' /\ Carried'
  OBVIOUS
<1> USE TcpClientAssumption
<1>1. CASE DialOk
  BY <1>1 DEF TypeOK, Carried, InHand, DialOk, dialVars, upVars, downVars, worldVars, osVars
<1>2. CASE DialFail
  BY <1>2, NextDelayType
     DEF TypeOK, Carried, InHand, DialFail, portVars, upVars, downVars, worldVars, osVars
<1>3. CASE Create
  BY <1>3 DEF TypeOK, Started, Carried, InHand, Create, dialVars, worldVars, osVars
<1>4. CASE CreateFail
  BY <1>4 DEF TypeOK, Carried, InHand, CreateFail, dialVars, upVars, downVars, worldVars, osVars
<1>5. CASE UpRead
  BY <1>5 DEF TypeOK, Carried, InHand, UpRead, dialVars, portVars, downVars, worldVars, osVars
<1>6. CASE UpReadFail
  BY <1>6 DEF TypeOK, Carried, InHand, UpReadFail, Report, dialVars, portVars, downVars,
              worldVars, osVars
<1>7. CASE UpWrite
  BY <1>7 DEF TypeOK, Carried, InHand, UpWrite, dialVars, portVars, downVars, worldVars, osVars
<1>8. CASE UpWriteFail
  BY <1>8 DEF TypeOK, Carried, InHand, UpWriteFail, Report, dialVars, portVars, downVars,
              worldVars, osVars
<1>9. CASE DownRead
  BY <1>9 DEF TypeOK, Carried, InHand, DownRead, dialVars, portVars, upVars, worldVars, osVars
<1>10. CASE DownReadEnd
  BY <1>10 DEF TypeOK, Carried, InHand, DownReadEnd, Report, dialVars, portVars, upVars,
               worldVars, osVars
<1>11. CASE DownWrite
  BY <1>11 DEF TypeOK, Carried, InHand, DownWrite, dialVars, portVars, upVars, worldVars, osVars
<1>12. CASE DownWriteFail
  BY <1>12 DEF TypeOK, Carried, InHand, DownWriteFail, Report, dialVars, portVars, upVars,
               worldVars, osVars
<1>13. CASE AgentDone
  BY <1>13 DEF TypeOK, Carried, InHand, AgentDone, dialVars, portVars, upVars, downVars,
               worldVars, osVars
<1>14. CASE AgentSignal
  <2>1. notified' \in BOOLEAN
    BY <1>14, Zenon DEF AgentSignal
  <2> QED
    BY <1>14, <2>1 DEF TypeOK, Carried, InHand, AgentSignal, dialVars, portVars, upVars,
                       downVars, worldVars
<1>15. CASE AgentReturn
  BY <1>15
     DEF TypeOK, Carried, InHand, AgentReturn, dialVars, upVars, downVars, worldVars, osVars
<1>16. CASE Exit
  BY <1>16 DEF TypeOK, Carried, InHand, Exit, dialVars, portVars, upVars, downVars, worldVars
<1>17. CASE AppWrite
  BY <1>17 DEF TypeOK, Carried, InHand, AppWrite, dialVars, portVars, upVars, downVars,
               osVars
<1>18. CASE AppRead
  BY <1>18 DEF TypeOK, Carried, InHand, AppRead, dialVars, portVars, upVars, downVars,
               osVars
<1>19. CASE RemoteSend
  BY <1>19 DEF TypeOK, Carried, InHand, RemoteSend, dialVars, portVars, upVars,
               downVars, osVars
<1>20. ASSUME NEW r \in {"fin", "reset"}, RemoteEnd(r)
       PROVE  TypeOK' /\ Carried'
  BY <1>20 DEF TypeOK, Carried, InHand, RemoteEnd, dialVars, portVars, upVars, downVars,
               osVars
<1>21. ASSUME NEW s \in {"int", "term"}, Signal(s)
       PROVE  TypeOK' /\ Carried'
  <2>1. notified' \in BOOLEAN
    BY <1>21, Zenon DEF Signal
  <2> QED
    BY <1>21, <2>1 DEF TypeOK, Carried, InHand, Signal, dialVars, portVars, upVars, downVars,
                       worldVars
<1>22. CASE UNCHANGED vars
  BY <1>22 DEF TypeOK, Carried, InHand, vars, dialVars, portVars, upVars, downVars,
               worldVars, osVars
<1> QED
  BY <1>1, <1>2, <1>3, <1>4, <1>5, <1>6, <1>7, <1>8, <1>9, <1>10, <1>11, <1>12,
     <1>13, <1>14, <1>15, <1>16, <1>17, <1>18, <1>19, <1>20, <1>21, <1>22
     DEF Next, Connect, Up, Down, Leave, World

(***************************************************************************)
(* TypeOK is always true.                                                  *)
(***************************************************************************)
THEOREM TypeCorrect == Spec => []TypeOK
<1>1. ASSUME Init PROVE TypeOK /\ Started /\ Carried
  <2>1. notified \in BOOLEAN
    BY <1>1, Zenon DEF Init
  <2> QED
    BY <1>1, <2>1, TcpClientAssumption DEF Init, TypeOK, Started, Carried, InHand
<1> QED
  BY <1>1, StartedStep, TypeStep, PTL DEF Spec

-----------------------------------------------------------------------------
(***************************************************************************)
(* Only the agent opens and closes, and it returns through its deferred    *)
(* calls or before it opened anything.                                     *)
(***************************************************************************)
LEMMA OpenedStep == Opened /\ [Next]_vars => Opened'
<1> SUFFICES ASSUME Opened, [Next]_vars PROVE Opened'
  OBVIOUS
<1>1. CASE DialOk
  BY <1>1 DEF Opened, DialOk, osVars
<1>2. CASE DialFail
  BY <1>2 DEF Opened, DialFail, portVars, osVars, Running
<1>3. CASE Create
  BY <1>3 DEF Opened, Create, osVars, Running
<1>4. CASE CreateFail
  BY <1>4 DEF Opened, CreateFail, osVars, Running
<1>5. CASE Up
  BY <1>5 DEF Opened, Up, UpRead, UpReadFail, UpWrite, UpWriteFail, portVars, osVars
<1>6. CASE Down
  BY <1>6 DEF Opened, Down, DownRead, DownReadEnd, DownWrite, DownWriteFail, portVars,
              osVars
<1>7. CASE AgentDone
  BY <1>7 DEF Opened, AgentDone, portVars, osVars, Running
<1>8. CASE AgentSignal
  BY <1>8 DEF Opened, AgentSignal, portVars, Running
<1>9. CASE AgentReturn
  BY <1>9 DEF Opened, AgentReturn, osVars
<1>10. CASE Exit
  BY <1>10 DEF Opened, Exit, portVars
<1>11. CASE World
  BY <1>11 DEF Opened, World, AppWrite, AppRead, RemoteSend, RemoteEnd, Signal,
               portVars, osVars, Running
<1>12. CASE UNCHANGED vars
  BY <1>12 DEF Opened, vars, portVars, osVars
<1> QED
  BY <1>1, <1>2, <1>3, <1>4, <1>5, <1>6, <1>7, <1>8, <1>9, <1>10, <1>11, <1>12
     DEF Next, Connect, Leave

(***************************************************************************)
(* A client that ends by itself leaves neither the connection nor the PTY  *)
(* nor the link behind.                                                    *)
(***************************************************************************)
THEOREM LeavesNothing == Spec => []NothingLeftBehind
<1>1. Init => Opened
  BY DEF Init, Opened
<1>2. Opened => NothingLeftBehind
  BY DEF Opened, NothingLeftBehind
<1> QED
  BY <1>1, <1>2, OpenedStep, PTL DEF Spec

-----------------------------------------------------------------------------
(***************************************************************************)
(* Reports and ends go together: a goroutine reports as it ends, and the   *)
(* agent only takes reports out, as it stops waiting.                      *)
(***************************************************************************)
LEMMA ReportedStep == TypeOK /\ Started /\ OneReportEach /\ [Next]_vars => OneReportEach'
<1> SUFFICES ASSUME TypeOK, Started, OneReportEach, [Next]_vars PROVE OneReportEach'
  OBVIOUS
<1>0. done \in Seq({"nil", "error"})
  BY DEF TypeOK
<1>1. CASE DialOk \/ DialFail \/ CreateFail
  BY <1>1 DEF Started, OneReportEach, Ended, DialOk, DialFail, CreateFail, upVars, downVars
<1>2. CASE Create
  BY <1>2 DEF Started, OneReportEach, Ended, Create
<1>3. CASE UpRead \/ UpWrite
  BY <1>3 DEF Started, OneReportEach, Ended, UpRead, UpWrite, downVars
<1>4. CASE UpReadFail \/ UpWriteFail
  BY <1>0, <1>4 DEF Started, OneReportEach, Ended, Report, UpReadFail, UpWriteFail, downVars
<1>5. CASE DownRead \/ DownWrite
  BY <1>5 DEF Started, OneReportEach, Ended, DownRead, DownWrite, upVars
<1>6. CASE DownReadEnd \/ DownWriteFail
  BY <1>0, <1>6 DEF Started, OneReportEach, Ended, Report, DownReadEnd, DownWriteFail, upVars
<1>7. CASE AgentDone
  BY <1>0, <1>7 DEF Started, OneReportEach, Ended, AgentDone, upVars, downVars
<1>8. CASE AgentSignal \/ AgentReturn \/ Exit
  BY <1>8 DEF Started, OneReportEach, Ended, AgentSignal, AgentReturn, Exit, upVars, downVars
<1>9. CASE World
  BY <1>9 DEF Started, OneReportEach, Ended, World, AppWrite, AppRead, RemoteSend,
              RemoteEnd, Signal, upVars, downVars
<1>10. CASE UNCHANGED vars
  BY <1>10 DEF Started, OneReportEach, Ended, vars, upVars, downVars
<1> QED
  BY <1>1, <1>2, <1>3, <1>4, <1>5, <1>6, <1>7, <1>8, <1>9, <1>10
     DEF Next, Connect, Up, Down, Leave

(***************************************************************************)
(* The channel never holds more than a report of each goroutine that has   *)
(* ended, so two places are enough; and, while the agent waits, no less.   *)
(***************************************************************************)
THEOREM ReportsFit == Spec => []OneReportEach
<1>1. Init => Started /\ OneReportEach
  BY DEF Init, Started, OneReportEach, Ended
<1> QED
  BY <1>1, TypeCorrect, StartedStep, ReportedStep, PTL DEF Spec

-----------------------------------------------------------------------------
(***************************************************************************)
(* After a clean end nothing arrives any more, and nothing is left.  The   *)
(* goroutine of the port reports as it ends, so its reports do not count.  *)
(***************************************************************************)
LEMMA CleanStep == TypeOK /\ Started /\ Carried /\ Clean /\ [Next]_vars => Clean'
<1> SUFFICES ASSUME TypeOK, Started, Carried, Clean, [Next]_vars PROVE Clean'
  OBVIOUS
<1>0. done \in Seq({"nil", "error"})
  BY DEF TypeOK
<1>1. CASE DownReadEnd
  <2>1. CASE Report("error")
    <3>1. /\ UNCHANGED <<given, arrived, remote, up>> /\ down' = "ended"
          /\ \A i \in DOMAIN done' :
               done'[i] = "error" \/ (i \in DOMAIN done /\ done'[i] = done[i])
      BY <1>0, <1>1, <2>1 DEF DownReadEnd, Report, worldVars, upVars
    <3> QED
      BY <3>1 DEF Clean
  <2>2. CASE ~ Report("error")
    <3>1. given = arrived /\ remote = "fin" /\ down' = "ended"
          /\ UNCHANGED <<given, arrived, remote>>
      BY <1>1, <2>2 DEF DownReadEnd, worldVars, Carried, InHand, TypeOK
    <3> QED
      BY <3>1 DEF Clean
  <2> QED
    BY <2>1, <2>2
<1>2. CASE UpReadFail \/ UpWriteFail
  BY <1>2 DEF Clean, UpReadFail, UpWriteFail
<1>9. CASE DownWriteFail
  <2>1. /\ UNCHANGED <<given, arrived, remote, up>> /\ down' = "ended"
        /\ \A i \in DOMAIN done' :
             done'[i] = "error" \/ (i \in DOMAIN done /\ done'[i] = done[i])
    BY <1>0, <1>9 DEF DownWriteFail, Report, worldVars, upVars
  <2> QED
    BY <2>1 DEF Clean
<1>3. CASE AgentDone
  <2>1. /\ UNCHANGED <<given, arrived, remote, down, up>>
        /\ \A i \in DOMAIN done' : i + 1 \in DOMAIN done /\ done'[i] = done[i + 1]
    BY <1>0, <1>3 DEF AgentDone, worldVars, upVars, downVars
  <2> QED
    BY <2>1 DEF Clean
<1>4. CASE Connect \/ UpRead \/ UpWrite
  BY <1>4 DEF Started, Clean, Connect, DialOk, DialFail, Create, CreateFail, UpRead, UpWrite,
              upVars, downVars, worldVars
<1>5. CASE DownRead \/ DownWrite
  BY <1>5 DEF Clean, DownRead, DownWrite, upVars, worldVars
<1>6. CASE AgentSignal \/ AgentReturn \/ Exit
  BY <1>6 DEF Clean, AgentSignal, AgentReturn, Exit, upVars, downVars, worldVars
<1>7. CASE World
  BY <1>7 DEF Clean, World, AppWrite, AppRead, RemoteSend, RemoteEnd, Signal, upVars,
              downVars, worldVars
<1>8. CASE UNCHANGED vars
  BY <1>8 DEF Clean, vars, upVars, downVars, worldVars
<1> QED
  BY <1>1, <1>2, <1>3, <1>4, <1>5, <1>6, <1>7, <1>8, <1>9 DEF Next, Up, Down, Leave

(***************************************************************************)
(* Either way the bridge loses at most the chunk in hand, whatever the     *)
(* order of failures and ends, and none of a server that ends cleanly.     *)
(***************************************************************************)
THEOREM Lossless == Spec => []BridgeIsLossless
<1>1. Init => Started /\ Carried /\ Clean
  BY DEF Init, Started, Carried, InHand, Clean
<1>2. Carried /\ Clean => BridgeIsLossless
  BY DEF Carried, Clean, BridgeIsLossless
<1> QED
  BY <1>1, <1>2, TypeCorrect, StartedStep, TypeStep, CleanStep, PTL DEF Spec

-----------------------------------------------------------------------------
(***************************************************************************)
(* A client takes no more from the connection than the PTY and one buffer  *)
(* hold beyond what the application has read: one that stops reading makes *)
(* the server wait, not the client grow.                                   *)
(***************************************************************************)
PacedByApplication == given <= appRead + PtyCap /\ downRead <= appRead + PtyCap + 1

THEOREM ApplicationPaces == Spec => []PacedByApplication
<1> DEFINE Room == given <= appRead + PtyCap
<1>1. Init => Started /\ Carried /\ Room
  BY TcpClientAssumption DEF Init, Started, Carried, InHand
<1>2. TypeOK /\ Room /\ [Next]_vars => Room'
  <2> SUFFICES ASSUME TypeOK, Room, [Next]_vars PROVE Room'
    OBVIOUS
  <2>0. given \in Nat /\ appRead \in Nat /\ PtyCap \in Nat
    BY TcpClientAssumption DEF TypeOK
  <2>1. CASE DownWrite
    BY <2>0, <2>1 DEF DownWrite, worldVars
  <2>2. CASE AppRead
    BY <2>0, <2>2 DEF AppRead, downVars
  <2>3. CASE UNCHANGED <<given, appRead>>
    BY <2>3
  <2> QED
    BY <2>1, <2>2, <2>3
       DEF Next, Connect, Up, Down, Leave, World, vars, downVars, worldVars, DialOk,
           DialFail, Create, CreateFail, UpRead, UpReadFail, UpWrite, UpWriteFail,
           DownRead, DownReadEnd, DownWriteFail, AgentDone, AgentSignal, AgentReturn,
           Exit, AppWrite, RemoteSend, RemoteEnd, Signal
<1>3. TypeOK /\ Carried /\ Room => PacedByApplication
  BY TcpClientAssumption DEF TypeOK, Carried, PacedByApplication
<1> QED
  BY <1>1, <1>2, <1>3, TypeCorrect, StartedStep, TypeStep, PTL DEF Spec

-----------------------------------------------------------------------------
(***************************************************************************)
(* The delay stays between the first one and the maximum.                  *)
(***************************************************************************)
THEOREM DelayBounded == Spec => []DelayIsBounded
<1>1. Init => DelayIsBounded
  BY TcpClientAssumption DEF Init, DelayIsBounded
<1>2. TypeOK /\ DelayIsBounded /\ [Next]_vars => DelayIsBounded'
  <2> SUFFICES ASSUME TypeOK, DelayIsBounded, [Next]_vars, Initial <= Max,
                      Num >= Den
               PROVE  Initial <= delay' /\ delay' <= Max
    BY DEF DelayIsBounded
  <2>1. delay \in Nat /\ Initial <= delay /\ delay <= Max
    BY DEF TypeOK, DelayIsBounded
  <2>2. CASE DialFail
    BY <2>1, <2>2, NextDelayBounded DEF DialFail
  <2>3. CASE UNCHANGED delay
    BY <2>1, <2>3
  <2> QED
    BY <2>2, <2>3
       DEF Next, Connect, Up, Down, Leave, World, vars, dialVars, DialOk, Create,
           CreateFail, UpRead, UpReadFail, UpWrite, UpWriteFail, DownRead, DownReadEnd,
           DownWrite, DownWriteFail, AgentDone, AgentSignal, AgentReturn, Exit,
           AppWrite, AppRead, RemoteSend, RemoteEnd, Signal
<1> QED
  BY <1>1, <1>2, TypeCorrect, PTL DEF Spec
=============================================================================
