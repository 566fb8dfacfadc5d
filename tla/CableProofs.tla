----------------------------- MODULE CableProofs -----------------------------
(***************************************************************************)
(* What a cable of Cable means to its two ends, for any length.            *)
(***************************************************************************)
EXTENDS Cable, SequenceTheorems, TLAPS

(* The types of the cable; nothing is heard before it is plugged in. *)
TypeInv ==
  /\ said \in Nat /\ since \in Nat /\ typed \in Nat
  /\ plug \in {"before", "in", "out"}
  /\ heard \in Seq(Nat) /\ passed \in Seq(Nat)
  /\ plug = "before" => heard = << >>

(* The application hears consecutive chunks, of those the device has said. *)
Gapless ==
  /\ \A i \in 1 .. Len(heard) : heard[i] = since + i
  /\ heard # << >> => since + Len(heard) <= said

(* The device is given chunks that were typed, in order and each once. *)
InOrder ==
  /\ \A i \in 1 .. Len(passed) : passed[i] \in 1 .. typed
  /\ \A i, j \in 1 .. Len(passed) : i < j => passed[i] < passed[j]

(* The device is never further ahead of a listener than the cable is long. *)
Short == plug = "in" => said <= since + Len(heard) + Depth

-----------------------------------------------------------------------------
(* Every step keeps the types. *)
LEMMA TypeStep ==
  ASSUME TypeInv, [Next]_vars
  PROVE  TypeInv'
<1> USE DEF TypeInv, vars, deviceVars, typedVars
<1>1. CASE Plug
  BY <1>1 DEF Plug
<1>2. CASE Unplug \/ Say \/ Type
  BY <1>2 DEF Unplug, Say, Type
<1>3. CASE Hear
  <2>1. heard' \in Seq(Nat)
    BY <1>3, LenProperties, AppendProperties DEF Hear
  <2> QED
    BY <1>3, <2>1 DEF Hear
<1>4. CASE Pass
  <2>1. passed' \in Seq(Nat)
    BY <1>4, AppendProperties DEF Pass
  <2> QED
    BY <1>4, <2>1 DEF Pass
<1>5. CASE UNCHANGED vars
  BY <1>5
<1> QED
  BY <1>1, <1>2, <1>3, <1>4, <1>5 DEF Next

(* The types hold of every cable. *)
LEMMA TypeCorrect == Spec => []TypeInv
<1>1. Init => TypeInv
  BY DEF Init, TypeInv
<1> QED
  BY <1>1, TypeStep, PTL DEF Spec

-----------------------------------------------------------------------------
(***************************************************************************)
(* Whoever listens to a cable hears every chunk from the first one on.     *)
(***************************************************************************)
THEOREM HeardIsGapless == Spec => []Gapless
<1>1. Init => Gapless
  BY DEF Init, Gapless
<1>2. TypeInv /\ Gapless /\ [Next]_vars => Gapless'
  <2> SUFFICES ASSUME TypeInv, Gapless, [Next]_vars PROVE Gapless'
    OBVIOUS
  <2> USE DEF TypeInv, Gapless, vars, deviceVars, typedVars
  <2>0. Len(heard) \in Nat
    BY LenProperties
  <2>1. CASE Plug
    <3>1. heard' = << >>
      BY <2>1 DEF Plug
    <3> QED
      BY <3>1
  <2>2. CASE Unplug \/ Say \/ Type \/ Pass
    BY <2>0, <2>2 DEF Unplug, Say, Type, Pass
  <2>3. CASE Hear
    <3> DEFINE x == since + Len(heard) + 1
    <3>1. heard' = Append(heard, x) /\ x \in Nat /\ x <= said /\ UNCHANGED <<since, said>>
      BY <2>0, <2>3 DEF Hear
    <3>2. /\ Len(heard') = Len(heard) + 1 /\ heard'[Len(heard) + 1] = x
          /\ \A i \in 1 .. Len(heard) : heard'[i] = heard[i]
      BY <3>1, AppendProperties
    <3>3. \A i \in 1 .. Len(heard') : heard'[i] = since' + i
      <4> SUFFICES ASSUME NEW i \in 1 .. Len(heard) + 1 PROVE heard'[i] = since + i
        BY <3>1, <3>2
      <4>1. CASE i = Len(heard) + 1
        BY <2>0, <3>2, <4>1
      <4>2. CASE i # Len(heard) + 1
        <5>1. i \in 1 .. Len(heard)
          BY <2>0, <4>2
        <5> QED
          BY <3>2, <5>1
      <4> QED
        BY <4>1, <4>2
    <3>4. since' + Len(heard') <= said'
      BY <2>0, <3>1, <3>2
    <3> QED
      BY <3>3, <3>4
  <2>4. CASE UNCHANGED vars
    BY <2>4
  <2> QED
    BY <2>1, <2>2, <2>3, <2>4 DEF Next
<1> QED
  BY <1>1, <1>2, TypeCorrect, PTL DEF Spec

(***************************************************************************)
(* What is typed comes out in order, and no chunk twice.                   *)
(***************************************************************************)
THEOREM PassedIsInOrder == Spec => []InOrder
<1>1. Init => InOrder
  BY DEF Init, InOrder
<1>2. TypeInv /\ InOrder /\ [Next]_vars => InOrder'
  <2> SUFFICES ASSUME TypeInv, InOrder, [Next]_vars PROVE InOrder'
    OBVIOUS
  <2> USE DEF TypeInv, InOrder, vars, deviceVars, typedVars
  <2>0. Len(passed) \in Nat /\ DOMAIN passed = 1 .. Len(passed)
    BY LenProperties
  <2>1. CASE Plug \/ Unplug \/ Say \/ Hear
    BY <2>1 DEF Plug, Unplug, Say, Hear
  <2>2. CASE Type
    BY <2>0, <2>2 DEF Type
  <2>3. CASE Pass
    <3>1. PICK k \in 1 .. typed :
            /\ \A i \in DOMAIN passed : passed[i] < k
            /\ passed' = Append(passed, k)
      BY <2>3 DEF Pass
    <3>2. /\ Len(passed') = Len(passed) + 1 /\ passed'[Len(passed) + 1] = k
          /\ \A i \in 1 .. Len(passed) : passed'[i] = passed[i]
      BY <3>1, AppendProperties
    <3>3. typed' = typed
      BY <2>3 DEF Pass
    <3> DEFINE n == Len(passed)
    <3>4. \A i \in 1 .. n + 1 : i \in 1 .. n \/ i = n + 1
      BY <2>0
    <3>5. /\ \A i \in 1 .. n : passed'[i] = passed[i] /\ passed[i] < k
          /\ passed'[n + 1] = k /\ Len(passed') = n + 1
      BY <2>0, <3>1, <3>2
    <3>6. \A i \in 1 .. n + 1 : passed'[i] \in 1 .. typed
      BY <3>1, <3>4, <3>5
    <3>7. \A i, j \in 1 .. n + 1 : i < j => passed'[i] < passed'[j]
      <4> SUFFICES ASSUME NEW i \in 1 .. n + 1, NEW j \in 1 .. n + 1, i < j
                   PROVE  passed'[i] < passed'[j]
        OBVIOUS
      <4>1. i \in 1 .. n
        BY <2>0
      <4>2. CASE j = n + 1
        BY <3>5, <4>1, <4>2
      <4>3. CASE j \in 1 .. n
        BY <3>5, <4>1, <4>3
      <4> QED
        BY <3>4, <4>2, <4>3
    <3> QED
      BY <3>3, <3>5, <3>6, <3>7
  <2>4. CASE UNCHANGED vars
    BY <2>4
  <2> QED
    BY <2>1, <2>2, <2>3, <2>4 DEF Next
<1> QED
  BY <1>1, <1>2, TypeCorrect, PTL DEF Spec

(***************************************************************************)
(* A device cannot outrun a listener by more than the cable's length, if   *)
(* the backlog one may find when plugging in fits into it.                 *)
(***************************************************************************)
THEOREM NeverTooFarAhead ==
  ASSUME Depth \in Nat, Backlog \in Nat, Backlog <= Depth
  PROVE  Spec => []Short
<1>1. Init => Short
  BY DEF Init, Short
<1>2. TypeInv /\ Short /\ [Next]_vars => Short'
  <2> SUFFICES ASSUME TypeInv, Short, [Next]_vars PROVE Short'
    OBVIOUS
  <2> USE DEF TypeInv, Short, vars, deviceVars, typedVars
  <2>0. Len(heard) \in Nat
    BY LenProperties
  <2>1. CASE Plug
    <3>1. /\ heard' = << >> /\ said' = said /\ said <= since' + Backlog
          /\ since' \in 0 .. said
      BY <2>1 DEF Plug
    <3>2. Len(heard') = 0 /\ since' \in Nat
      BY <3>1
    <3>3. said' <= since' + Depth
      <4> HIDE DEF TypeInv, Short, vars
      <4>1. \A m, n \in Nat : m <= n + Backlog => m <= n + Depth
        OBVIOUS
      <4>2. said \in Nat
        BY DEF TypeInv
      <4> QED
        BY <3>1, <3>2, <4>1, <4>2
    <3>4. said' <= since' + Len(heard') + Depth
      BY <3>2, <3>3
    <3> QED
      BY <3>4
  <2>2. CASE Unplug \/ Type \/ Pass
    BY <2>2 DEF Unplug, Type, Pass
  <2>3. CASE Say
    BY <2>0, <2>3 DEF Say
  <2>4. CASE Hear
    <3>1. Len(heard') = Len(heard) + 1 /\ UNCHANGED <<plug, said, since>>
      BY <2>0, <2>4, AppendProperties DEF Hear
    <3> QED
      BY <2>0, <3>1
  <2>5. CASE UNCHANGED vars
    BY <2>5
  <2> QED
    BY <2>1, <2>2, <2>3, <2>4, <2>5 DEF Next
<1> QED
  BY <1>1, <1>2, TypeCorrect, PTL DEF Spec
=============================================================================
