------------------------------ MODULE Broadcast ------------------------------
(***************************************************************************)
(* What the direct-TCP server owes its clients, with no channel, no        *)
(* goroutine and no socket in sight.                                       *)
(*                                                                         *)
(* Serial data is cut into chunks, numbered from 1 in the order they were  *)
(* read.  Chunks are broadcast in rounds: a round hands the next chunk to  *)
(* every member, and no round begins before the previous one has reached   *)
(* every member that is still there.  A client joins once, between two     *)
(* chunks, and from then on its stream is the chunks that follow, none     *)
(* missing, none repeated and none out of order, until it leaves.          *)
(***************************************************************************)
EXTENDS Naturals, Sequences

CONSTANT Conns      \* the connections a client may ever open

VARIABLES
  cursor,           \* the number of rounds begun
  status,           \* where each client stands with the broadcast
  start,            \* the last round begun before the client joined
  stream            \* the chunks the client was given, in order

vars == <<cursor, status, start, stream>>

TypeOK ==
  /\ cursor \in Nat
  /\ status \in [Conns -> {"outside", "member", "gone"}]
  /\ start \in [Conns -> Nat]
  /\ stream \in [Conns -> Seq(Nat)]

Init ==
  /\ cursor = 0
  /\ status = [c \in Conns |-> "outside"]
  /\ start = [c \in Conns |-> 0]
  /\ stream = [c \in Conns |-> << >>]

Reached(c) == start[c] + Len(stream[c])     \* the last chunk c was given

Join(c) ==
  /\ status[c] = "outside"
  /\ status' = [status EXCEPT ![c] = "member"]
  /\ start' = [start EXCEPT ![c] = cursor]
  /\ UNCHANGED <<cursor, stream>>

Begin ==
  /\ \A c \in Conns : status[c] = "member" => Reached(c) = cursor
  /\ cursor' = cursor + 1
  /\ UNCHANGED <<status, start, stream>>

Deliver(c) ==
  /\ status[c] = "member"
  /\ Reached(c) < cursor
  /\ stream' = [stream EXCEPT ![c] = Append(@, Reached(c) + 1)]
  /\ UNCHANGED <<cursor, status, start>>

Leave(c) ==
  /\ status[c] = "member"
  /\ status' = [status EXCEPT ![c] = "gone"]
  /\ UNCHANGED <<cursor, start, stream>>

Next ==
  \/ Begin
  \/ \E c \in Conns : Join(c) \/ Deliver(c) \/ Leave(c)

Spec == Init /\ [][Next]_vars

(***************************************************************************)
(* A client's stream is the run of consecutive chunks that begins with the *)
(* first round after it joined.                                            *)
(***************************************************************************)
Contiguous ==
  \A c \in Conns : \A i \in 1 .. Len(stream[c]) : stream[c][i] = start[c] + i

(* No client is ahead of the broadcast, no member more than a chunk behind. *)
Lockstep ==
  \A c \in Conns :
    /\ Reached(c) <= cursor \/ status[c] = "outside"
    /\ status[c] = "member" => cursor <= Reached(c) + 1
=============================================================================
