-------------------------------- MODULE Cable --------------------------------
(***************************************************************************)
(* What usbredirect promises a serial device and an application: a cable,  *)
(* with no process, goroutine, channel or socket in sight.                 *)
(*                                                                         *)
(* Chunks are numbered, on either side, in the order they were said or     *)
(* typed.  Once plugged in, the application hears what the device says,    *)
(* chunk by chunk and without a gap.  The device gets what is typed in     *)
(* order and at most once; a chunk may be missing.  Nothing is made up.    *)
(*                                                                         *)
(* The cable is short: the device cannot get further ahead of a plugged-in *)
(* application than Depth chunks, and what it said before the plug went in *)
(* is heard only as far as it was still in the first Backlog chunks of it. *)
(***************************************************************************)
EXTENDS Naturals, Sequences

CONSTANTS Depth, Backlog

VARIABLES
  said,         \* chunks the device has said
  plug,         \* the application's end: before, in or out
  since,        \* chunks said that it did not get to hear, being late
  heard,        \* the chunks the application has read, in order
  typed,        \* chunks the application has written
  passed        \* those of them that the device was given, in order

deviceVars == <<said, plug, since, heard>>
typedVars == <<typed, passed>>
vars == <<deviceVars, typedVars>>

Init ==
  /\ said = 0 /\ plug = "before" /\ since = 0 /\ heard = << >>
  /\ typed = 0 /\ passed = << >>

Plug ==
  /\ plug = "before" /\ plug' = "in"
  /\ since' \in 0 .. said /\ said <= since' + Backlog
  /\ UNCHANGED <<said, heard, typedVars>>

Unplug == plug = "in" /\ plug' = "out" /\ UNCHANGED <<said, since, heard, typedVars>>

Say ==
  /\ plug = "in" => said < since + Len(heard) + Depth
  /\ said' = said + 1
  /\ UNCHANGED <<plug, since, heard, typedVars>>

\* Also after the plug was pulled: what had come through by then.
Hear ==
  /\ plug # "before" /\ since + Len(heard) < said
  /\ heard' = Append(heard, since + Len(heard) + 1)
  /\ UNCHANGED <<said, plug, since, typedVars>>

Type == typed' = typed + 1 /\ UNCHANGED <<passed, deviceVars>>

Pass ==
  /\ \E k \in 1 .. typed :
       /\ \A i \in DOMAIN passed : passed[i] < k
       /\ passed' = Append(passed, k)
  /\ UNCHANGED <<typed, deviceVars>>

Next == Plug \/ Unplug \/ Say \/ Hear \/ Type \/ Pass

Spec == Init /\ [][Next]_vars
=============================================================================
