-------------------------- MODULE VirtualPortProofs --------------------------
(***************************************************************************)
(* Proofs about VirtualPort, for any set of clients, any names and any     *)
(* supply of PTYs.                                                         *)
(***************************************************************************)
EXTENDS VirtualPort, TLAPS

(* What belongs to the other platform is never there. *)
OnePlatform ==
  /\ platform = "unix" => pairs = {}
  /\ platform = "windows" =>
       /\ \A c \in Clients : state[c] \in {"idle", "running"}
       /\ \A n \in Names : link[n] = None

(* A PTY belongs to one client. *)
Unique == \A c, d \in Clients : pty[c] = pty[d] /\ pty[c] # None => c = d

(* A link leads to a running client of its name, or one of them is closing. *)
Explained ==
  \A n \in Names \ littered :
    link[n] # None =>
      \E d \in Clients :
        /\ Name[d] = n
        /\ \/ state[d] = "running" /\ pty[d] = link[n]
           \/ state[d] = "closed"

(* A pair is that of a client of its name, which runs, was killed or could not
   remove it. *)
Paired ==
  \A p \in pairs :
    \E d \in Clients :
      p = Pair(d) /\ (Name[d] \in littered \/ state[d] = "running")

(* Every rival of a lone client is idle. *)
Lonely ==
  \A c \in lone :
    state[c] # "idle" /\ \A r \in Rivals(c) : state[r] = "idle"

-----------------------------------------------------------------------------
(* Every action keeps the types. *)
LEMMA TypeStep ==
  ASSUME TypeOK, [Next]_vars
  PROVE  TypeOK'
<1> USE VirtualPortAssumption DEF TypeOK,  None, Names, Start, Move, Release, Removed,
          BridgePort, Pair, Clash, Rivals, Taken, vars
<1>1. ASSUME NEW c \in Clients, Open(c) PROVE TypeOK'
  BY <1>1 DEF Open
<1>2. ASSUME NEW c \in Clients, OpenFail(c) PROVE TypeOK'
  BY <1>2 DEF OpenFail
<1>3. ASSUME NEW c \in Clients, Clear(c) PROVE TypeOK'
  BY <1>3 DEF Clear
<1>4. ASSUME NEW c \in Clients, Publish(c) PROVE TypeOK'
  BY <1>4 DEF Publish
<1>5. ASSUME NEW c \in Clients, PublishFail(c) PROVE TypeOK'
  BY <1>5 DEF PublishFail
<1>6. ASSUME NEW c \in Clients, ClosePty(c) PROVE TypeOK'
  BY <1>6 DEF ClosePty
<1>7. ASSUME NEW c \in Clients, CloseLink(c) PROVE TypeOK'
  BY <1>7 DEF CloseLink
<1>8. ASSUME NEW c \in Clients, Install(c) PROVE TypeOK'
  BY <1>8 DEF Install
<1>9. ASSUME NEW c \in Clients, Uninstall(c) PROVE TypeOK'
  BY <1>9 DEF Uninstall
<1>10. ASSUME NEW c \in Clients, Kill(c) PROVE TypeOK'
  BY <1>10 DEF Kill
<1>11. ASSUME NEW c \in Clients, ClearFail(c) PROVE TypeOK'
  BY <1>11 DEF ClearFail
<1>12. ASSUME NEW c \in Clients, CloseLinkFail(c) PROVE TypeOK'
  BY <1>12 DEF CloseLinkFail
<1>13. ASSUME NEW c \in Clients, UninstallFail(c) PROVE TypeOK'
  BY <1>13 DEF UninstallFail
<1>14. CASE UNCHANGED vars
  BY <1>14
<1> QED
  BY <1>1, <1>2, <1>3, <1>4, <1>5, <1>6, <1>7, <1>8, <1>9, <1>10, <1>11, <1>12,
     <1>13, <1>14
  DEF Next, Create, Close

(* Every action is of one platform. *)
LEMMA PlatformStep ==
  ASSUME TypeOK, OnePlatform, [Next]_vars
  PROVE  OnePlatform'
<1> USE VirtualPortAssumption DEF TypeOK, OnePlatform,  None, Names, Start, Move, Release, Removed,
          BridgePort, Pair, Clash, Rivals, Taken, vars
<1>1. ASSUME NEW c \in Clients, Open(c) PROVE OnePlatform'
  BY <1>1 DEF Open
<1>2. ASSUME NEW c \in Clients, OpenFail(c) PROVE OnePlatform'
  BY <1>2 DEF OpenFail
<1>3. ASSUME NEW c \in Clients, Clear(c) PROVE OnePlatform'
  BY <1>3 DEF Clear
<1>4. ASSUME NEW c \in Clients, Publish(c) PROVE OnePlatform'
  BY <1>4 DEF Publish
<1>5. ASSUME NEW c \in Clients, PublishFail(c) PROVE OnePlatform'
  BY <1>5 DEF PublishFail
<1>6. ASSUME NEW c \in Clients, ClosePty(c) PROVE OnePlatform'
  BY <1>6 DEF ClosePty
<1>7. ASSUME NEW c \in Clients, CloseLink(c) PROVE OnePlatform'
  BY <1>7 DEF CloseLink
<1>8. ASSUME NEW c \in Clients, Install(c) PROVE OnePlatform'
  BY <1>8 DEF Install
<1>9. ASSUME NEW c \in Clients, Uninstall(c) PROVE OnePlatform'
  BY <1>9 DEF Uninstall
<1>10. ASSUME NEW c \in Clients, Kill(c) PROVE OnePlatform'
  BY <1>10 DEF Kill
<1>11. ASSUME NEW c \in Clients, ClearFail(c) PROVE OnePlatform'
  BY <1>11 DEF ClearFail
<1>12. ASSUME NEW c \in Clients, CloseLinkFail(c) PROVE OnePlatform'
  BY <1>12 DEF CloseLinkFail
<1>13. ASSUME NEW c \in Clients, UninstallFail(c) PROVE OnePlatform'
  BY <1>13 DEF UninstallFail
<1>14. CASE UNCHANGED vars
  BY <1>14
<1> QED
  BY <1>1, <1>2, <1>3, <1>4, <1>5, <1>6, <1>7, <1>8, <1>9, <1>10, <1>11, <1>12,
     <1>13, <1>14
  DEF Next, Create, Close

(* The kernel hands out a number that is free. *)
LEMMA UniqueStep ==
  ASSUME TypeOK, Unique, [Next]_vars
  PROVE  Unique'
<1> USE VirtualPortAssumption DEF TypeOK, Unique,  None, Names, Start, Move, Release, Removed,
          BridgePort, Pair, Clash, Rivals, Taken, vars
<1>1. ASSUME NEW c \in Clients, Open(c) PROVE Unique'
  BY <1>1 DEF Open
<1>2. ASSUME NEW c \in Clients, OpenFail(c) PROVE Unique'
  BY <1>2 DEF OpenFail
<1>3. ASSUME NEW c \in Clients, Clear(c) PROVE Unique'
  BY <1>3 DEF Clear
<1>4. ASSUME NEW c \in Clients, Publish(c) PROVE Unique'
  BY <1>4 DEF Publish
<1>5. ASSUME NEW c \in Clients, PublishFail(c) PROVE Unique'
  BY <1>5 DEF PublishFail
<1>6. ASSUME NEW c \in Clients, ClosePty(c) PROVE Unique'
  BY <1>6 DEF ClosePty
<1>7. ASSUME NEW c \in Clients, CloseLink(c) PROVE Unique'
  BY <1>7 DEF CloseLink
<1>8. ASSUME NEW c \in Clients, Install(c) PROVE Unique'
  BY <1>8 DEF Install
<1>9. ASSUME NEW c \in Clients, Uninstall(c) PROVE Unique'
  BY <1>9 DEF Uninstall
<1>10. ASSUME NEW c \in Clients, Kill(c) PROVE Unique'
  BY <1>10 DEF Kill
<1>11. ASSUME NEW c \in Clients, ClearFail(c) PROVE Unique'
  BY <1>11 DEF ClearFail
<1>12. ASSUME NEW c \in Clients, CloseLinkFail(c) PROVE Unique'
  BY <1>12 DEF CloseLinkFail
<1>13. ASSUME NEW c \in Clients, UninstallFail(c) PROVE Unique'
  BY <1>13 DEF UninstallFail
<1>14. CASE UNCHANGED vars
  BY <1>14
<1> QED
  BY <1>1, <1>2, <1>3, <1>4, <1>5, <1>6, <1>7, <1>8, <1>9, <1>10, <1>11, <1>12,
     <1>13, <1>14
  DEF Next, Create, Close

(* Who makes a link runs, and leaves it only by a kill or a Close that
   removed it or failed to. *)
LEMMA ExplainedStep ==
  ASSUME TypeOK, OnePlatform, Explained, [Next]_vars
  PROVE  Explained'
<1> USE VirtualPortAssumption DEF TypeOK, OnePlatform, Explained,  None, Names, Start, Move, Release, Removed,
          BridgePort, Pair, Clash, Rivals, Taken, vars
<1>1. ASSUME NEW c \in Clients, Open(c) PROVE Explained'
  BY <1>1 DEF Open
<1>2. ASSUME NEW c \in Clients, OpenFail(c) PROVE Explained'
  BY <1>2 DEF OpenFail
<1>3. ASSUME NEW c \in Clients, Clear(c) PROVE Explained'
  BY <1>3 DEF Clear
<1>4. ASSUME NEW c \in Clients, Publish(c) PROVE Explained'
  BY <1>4 DEF Publish
<1>5. ASSUME NEW c \in Clients, PublishFail(c) PROVE Explained'
  BY <1>5 DEF PublishFail
<1>6. ASSUME NEW c \in Clients, ClosePty(c) PROVE Explained'
  BY <1>6 DEF ClosePty
<1>7. ASSUME NEW c \in Clients, CloseLink(c) PROVE Explained'
  BY <1>7 DEF CloseLink
<1>8. ASSUME NEW c \in Clients, Install(c) PROVE Explained'
  BY <1>8 DEF Install
<1>9. ASSUME NEW c \in Clients, Uninstall(c) PROVE Explained'
  BY <1>9 DEF Uninstall
<1>10. ASSUME NEW c \in Clients, Kill(c) PROVE Explained'
  BY <1>10 DEF Kill
<1>11. ASSUME NEW c \in Clients, ClearFail(c) PROVE Explained'
  BY <1>11 DEF ClearFail
<1>12. ASSUME NEW c \in Clients, CloseLinkFail(c) PROVE Explained'
  BY <1>12 DEF CloseLinkFail
<1>13. ASSUME NEW c \in Clients, UninstallFail(c) PROVE Explained'
  BY <1>13 DEF UninstallFail
<1>14. CASE UNCHANGED vars
  BY <1>14
<1> QED
  BY <1>1, <1>2, <1>3, <1>4, <1>5, <1>6, <1>7, <1>8, <1>9, <1>10, <1>11, <1>12,
     <1>13, <1>14
  DEF Next, Create, Close

(* Who installs a pair runs, and leaves it only by a kill or a failed Close. *)
LEMMA PairedStep ==
  ASSUME TypeOK, OnePlatform, Paired, [Next]_vars
  PROVE  Paired'
<1> USE VirtualPortAssumption DEF TypeOK, OnePlatform, Paired,  None, Names, Start, Move, Release, Removed,
          BridgePort, Pair, Clash, Rivals, Taken, vars
<1>1. ASSUME NEW c \in Clients, Open(c) PROVE Paired'
  BY <1>1 DEF Open
<1>2. ASSUME NEW c \in Clients, OpenFail(c) PROVE Paired'
  BY <1>2 DEF OpenFail
<1>3. ASSUME NEW c \in Clients, Clear(c) PROVE Paired'
  BY <1>3 DEF Clear
<1>4. ASSUME NEW c \in Clients, Publish(c) PROVE Paired'
  BY <1>4 DEF Publish
<1>5. ASSUME NEW c \in Clients, PublishFail(c) PROVE Paired'
  BY <1>5 DEF PublishFail
<1>6. ASSUME NEW c \in Clients, ClosePty(c) PROVE Paired'
  BY <1>6 DEF ClosePty
<1>7. ASSUME NEW c \in Clients, CloseLink(c) PROVE Paired'
  BY <1>7 DEF CloseLink
<1>8. ASSUME NEW c \in Clients, Install(c) PROVE Paired'
  BY <1>8 DEF Install
<1>9. ASSUME NEW c \in Clients, Uninstall(c) PROVE Paired'
  BY <1>9 DEF Uninstall
<1>10. ASSUME NEW c \in Clients, Kill(c) PROVE Paired'
  BY <1>10 DEF Kill
<1>11. ASSUME NEW c \in Clients, ClearFail(c) PROVE Paired'
  BY <1>11 DEF ClearFail
<1>12. ASSUME NEW c \in Clients, CloseLinkFail(c) PROVE Paired'
  BY <1>12 DEF CloseLinkFail
<1>13. ASSUME NEW c \in Clients, UninstallFail(c) PROVE Paired'
  BY <1>13 DEF UninstallFail
<1>14. CASE UNCHANGED vars
  BY <1>14
<1> QED
  BY <1>1, <1>2, <1>3, <1>4, <1>5, <1>6, <1>7, <1>8, <1>9, <1>10, <1>11, <1>12,
     <1>13, <1>14
  DEF Next, Create, Close

(* A start ends the loneliness of all its rivals. *)
LEMMA LonelyStep ==
  ASSUME TypeOK, Lonely, [Next]_vars
  PROVE  Lonely'
<1> USE VirtualPortAssumption DEF TypeOK, Lonely,  None, Names, Start, Move, Release, Removed,
          BridgePort, Pair, Clash, Rivals, Taken, vars
<1>1. ASSUME NEW c \in Clients, Open(c) PROVE Lonely'
  BY <1>1 DEF Open
<1>2. ASSUME NEW c \in Clients, OpenFail(c) PROVE Lonely'
  BY <1>2 DEF OpenFail
<1>3. ASSUME NEW c \in Clients, Clear(c) PROVE Lonely'
  BY <1>3 DEF Clear
<1>4. ASSUME NEW c \in Clients, Publish(c) PROVE Lonely'
  BY <1>4 DEF Publish
<1>5. ASSUME NEW c \in Clients, PublishFail(c) PROVE Lonely'
  BY <1>5 DEF PublishFail
<1>6. ASSUME NEW c \in Clients, ClosePty(c) PROVE Lonely'
  BY <1>6 DEF ClosePty
<1>7. ASSUME NEW c \in Clients, CloseLink(c) PROVE Lonely'
  BY <1>7 DEF CloseLink
<1>8. ASSUME NEW c \in Clients, Install(c) PROVE Lonely'
  BY <1>8 DEF Install
<1>9. ASSUME NEW c \in Clients, Uninstall(c) PROVE Lonely'
  BY <1>9 DEF Uninstall
<1>10. ASSUME NEW c \in Clients, Kill(c) PROVE Lonely'
  BY <1>10 DEF Kill
<1>11. ASSUME NEW c \in Clients, ClearFail(c) PROVE Lonely'
  BY <1>11 DEF ClearFail
<1>12. ASSUME NEW c \in Clients, CloseLinkFail(c) PROVE Lonely'
  BY <1>12 DEF CloseLinkFail
<1>13. ASSUME NEW c \in Clients, UninstallFail(c) PROVE Lonely'
  BY <1>13 DEF UninstallFail
<1>14. CASE UNCHANGED vars
  BY <1>14
<1> QED
  BY <1>1, <1>2, <1>3, <1>4, <1>5, <1>6, <1>7, <1>8, <1>9, <1>10, <1>11, <1>12,
     <1>13, <1>14
  DEF Next, Create, Close

(* Only rivals touch a client's name. *)
LEMMA ReachableStep ==
  ASSUME TypeOK, OnePlatform, Lonely, LoneClientKeepsItsName, [Next]_vars
  PROVE  LoneClientKeepsItsName'
<1> USE VirtualPortAssumption DEF TypeOK, OnePlatform, Lonely, LoneClientKeepsItsName,  None, Names, Start, Move, Release, Removed,
          BridgePort, Pair, Clash, Rivals, Taken, vars
<1>1. ASSUME NEW c \in Clients, Open(c) PROVE LoneClientKeepsItsName'
  BY <1>1 DEF Open
<1>2. ASSUME NEW c \in Clients, OpenFail(c) PROVE LoneClientKeepsItsName'
  BY <1>2 DEF OpenFail
<1>3. ASSUME NEW c \in Clients, Clear(c) PROVE LoneClientKeepsItsName'
  BY <1>3 DEF Clear
<1>4. ASSUME NEW c \in Clients, Publish(c) PROVE LoneClientKeepsItsName'
  BY <1>4 DEF Publish
<1>5. ASSUME NEW c \in Clients, PublishFail(c) PROVE LoneClientKeepsItsName'
  BY <1>5 DEF PublishFail
<1>6. ASSUME NEW c \in Clients, ClosePty(c) PROVE LoneClientKeepsItsName'
  BY <1>6 DEF ClosePty
<1>7. ASSUME NEW c \in Clients, CloseLink(c) PROVE LoneClientKeepsItsName'
  BY <1>7 DEF CloseLink
<1>8. ASSUME NEW c \in Clients, Install(c) PROVE LoneClientKeepsItsName'
  BY <1>8 DEF Install
<1>9. ASSUME NEW c \in Clients, Uninstall(c) PROVE LoneClientKeepsItsName'
  BY <1>9 DEF Uninstall
<1>10. ASSUME NEW c \in Clients, Kill(c) PROVE LoneClientKeepsItsName'
  BY <1>10 DEF Kill
<1>11. ASSUME NEW c \in Clients, ClearFail(c) PROVE LoneClientKeepsItsName'
  BY <1>11 DEF ClearFail
<1>12. ASSUME NEW c \in Clients, CloseLinkFail(c) PROVE LoneClientKeepsItsName'
  BY <1>12 DEF CloseLinkFail
<1>13. ASSUME NEW c \in Clients, UninstallFail(c) PROVE LoneClientKeepsItsName'
  BY <1>13 DEF UninstallFail
<1>14. CASE UNCHANGED vars
  BY <1>14
<1> QED
  BY <1>1, <1>2, <1>3, <1>4, <1>5, <1>6, <1>7, <1>8, <1>9, <1>10, <1>11, <1>12,
     <1>13, <1>14
  DEF Next, Create, Close

-----------------------------------------------------------------------------
(* The inductive invariant of the names. *)
Invariant ==
  /\ TypeOK /\ OnePlatform /\ Unique /\ Explained /\ Paired /\ Lonely
  /\ LoneClientKeepsItsName

(* It holds when no client has been started yet. *)
LEMMA InvariantInit == Init => Invariant
  BY VirtualPortAssumption
  DEF Init, Invariant, TypeOK, OnePlatform, Unique, Explained, Paired, Lonely,
      LoneClientKeepsItsName, Names, None

(* The invariant of the names always holds. *)
THEOREM InvariantHolds == Spec => []Invariant
<1>1. Invariant /\ [Next]_vars => Invariant'
  BY TypeStep, PlatformStep, UniqueStep, ExplainedStep, PairedStep, LonelyStep,
     ReachableStep
  DEF Invariant
<1> QED
  BY InvariantInit, <1>1, PTL DEF Spec

(* Every variable keeps its type, and no path leaks a PTY. *)
THEOREM TypeCorrect == Spec => []TypeOK
<1>1. Invariant => TypeOK
  BY DEF Invariant
<1> QED
  BY <1>1, InvariantHolds, PTL

(***************************************************************************)
(* A client nobody of a clashing name overlaps keeps the name it made or   *)
(* found, after any history of overlapping, killed and failed clients and  *)
(* of removals that failed.                                                *)
(***************************************************************************)
THEOREM LoneKeepsName == Spec => []LoneClientKeepsItsName
<1>1. Invariant => LoneClientKeepsItsName
  BY DEF Invariant
<1> QED
  BY <1>1, InvariantHolds, PTL

(***************************************************************************)
(* Whoever closes last leaves nothing: a name without a client of its own  *)
(* is the trace of a kill or of a removal that failed.                     *)
(***************************************************************************)
THEOREM NothingLittered == Spec => []NoLitter
<1>1. Invariant => NoLitter
  <2> SUFFICES ASSUME Invariant PROVE NoLitter
    OBVIOUS
  <2>1. \A n \in Names : link[n] # None => n \in littered \/ Served(n)
    BY DEF Invariant, Explained, Served
  <2>2. \A p \in pairs : p[2] \in littered \/ Served(p[2])
    BY DEF Invariant, Paired, Pair, Served
  <2> QED
    BY <2>1, <2>2 DEF NoLitter
<1> QED
  BY <1>1, InvariantHolds, PTL

(***************************************************************************)
(* However PTY numbers are handed out again, a link leads to a PTY of its  *)
(* own name, but for kills, failed removals and the moment within a Close. *)
(***************************************************************************)
THEOREM LinksAreNotMixed == Spec => []NeverAnotherPort
<1>1. Invariant => NeverAnotherPort
  BY DEF Invariant, TypeOK, Unique, Explained, NeverAnotherPort
<1> QED
  BY <1>1, InvariantHolds, PTL
=============================================================================
