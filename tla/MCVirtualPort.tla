---------------------------- MODULE MCVirtualPort ----------------------------
(* A small instance of VirtualPort for TLC. *)
EXTENDS VirtualPort

CONSTANTS p1, p2, q     \* two clients of one name and one of the next

Processes == {p1, p2, q}

\* COM5, whose bridge is COM6, and COM6: these clash on Windows only.
Configured == [c \in Processes |-> IF c = q THEN 6 ELSE 5]
=============================================================================
