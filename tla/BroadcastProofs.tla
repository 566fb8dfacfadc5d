--------------------------- MODULE BroadcastProofs ---------------------------
(***************************************************************************)
(* What every implementation of Broadcast gives its clients, for any       *)
(* number of them and streams of any length.                               *)
(***************************************************************************)
EXTENDS Broadcast, SequenceTheorems, TLAPS

(* A client that has not joined was given nothing. *)
Outside == \A c \in Conns : status[c] = "outside" => stream[c] = << >>

(* The inductive invariant of the broadcast. *)
BInv == TypeOK /\ Outside /\ Contiguous /\ Lockstep

(* It holds before anybody joined. *)
LEMMA BInvInit == Init => BInv
  BY DEF Init, BInv, TypeOK, Outside, Contiguous, Lockstep

(* Joining, beginning a round, delivering and leaving preserve it. *)
LEMMA BInvStep ==
  ASSUME BInv, [Next]_vars
  PROVE  BInv'
<1> USE DEF BInv, TypeOK, Outside, Contiguous, Lockstep, Reached, vars
<1>1. ASSUME NEW c \in Conns, Join(c) PROVE BInv'
  <2>1. stream[c] = << >> /\ Len(stream[c]) = 0
    BY <1>1 DEF Join
  <2> QED
    BY <1>1, <2>1 DEF Join
<1>2. CASE Begin
  BY <1>2 DEF Begin
<1>3. ASSUME NEW c \in Conns, Deliver(c) PROVE BInv'
  <2>1. start[c] + Len(stream[c]) + 1 \in Nat
    OBVIOUS
  <2>2. /\ stream' = [stream EXCEPT ![c] =
                        Append(stream[c], start[c] + Len(stream[c]) + 1)]
        /\ UNCHANGED <<cursor, status, start>>
        /\ status[c] = "member" /\ start[c] + Len(stream[c]) < cursor
    BY <1>3 DEF Deliver
  <2>3. /\ stream'[c] \in Seq(Nat)
        /\ Len(stream'[c]) = Len(stream[c]) + 1
        /\ \A i \in 1 .. Len(stream[c]) : stream'[c][i] = stream[c][i]
        /\ stream'[c][Len(stream[c]) + 1] = start[c] + Len(stream[c]) + 1
    BY <2>1, <2>2, AppendProperties
  <2>4. TypeOK'
    BY <2>2, <2>3
  <2>5. \A d \in Conns \ {c} : stream'[d] = stream[d]
    BY <2>2
  <2>6. Outside' /\ Lockstep'
    BY <2>2, <2>3, <2>5
  <2>7. Contiguous'
    BY <2>2, <2>3, <2>5
  <2> QED
    BY <2>4, <2>6, <2>7
<1>4. ASSUME NEW c \in Conns, Leave(c) PROVE BInv'
  BY <1>4 DEF Leave
<1>5. CASE UNCHANGED vars
  BY <1>5
<1> QED
  BY <1>1, <1>2, <1>3, <1>4, <1>5 DEF Next

(***************************************************************************)
(* A client's stream is a run of consecutive chunks, beginning with the    *)
(* first one read by the hub after the client was added.                   *)
(***************************************************************************)
THEOREM StreamsAreContiguous == Spec => []Contiguous
<1>1. BInv => Contiguous
  BY DEF BInv
<1> QED
  BY BInvInit, BInvStep, <1>1, PTL DEF Spec

(***************************************************************************)
(* No client runs ahead of the hub and no client still served is more than *)
(* one chunk behind it: the broadcast is only as fast as its slowest       *)
(* client.                                                                 *)
(***************************************************************************)
THEOREM ClientsMoveInLockstep == Spec => []Lockstep
<1>1. BInv => Lockstep
  BY DEF BInv
<1> QED
  BY BInvInit, BInvStep, <1>1, PTL DEF Spec
=============================================================================
