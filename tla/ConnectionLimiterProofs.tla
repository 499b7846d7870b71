---------------------- MODULE ConnectionLimiterProofs ----------------------
(***************************************************************************)
(* The cap of ConnectionLimiter for any number of connections and          *)
(* addresses.                                                              *)
(***************************************************************************)
EXTENDS ConnectionLimiter, FiniteSetTheorems, TLAPS

Inv == TypeOK /\ CountExact /\ CapHeld

\* The open connections of an address are finitely many.
LEMMA OpenFinite == \A i \in Addresses : IsFiniteSet(OpenAt(i))
  BY LimiterAssumption, FS_Subset DEF OpenAt

\* Initially no connection is open.
LEMMA InvInit == Init => Inv
  <1> SUFFICES ASSUME Init PROVE Inv
    OBVIOUS
  <1>1. TypeOK
    BY DEF Init, TypeOK
  <1>2. \A i \in Addresses : OpenAt(i) = {}
    BY DEF Init, OpenAt
  <1>3. \A i \in Addresses : Cardinality(OpenAt(i)) = 0
    BY <1>2, FS_EmptySet
  <1> QED BY <1>1, <1>3, LimiterAssumption DEF Inv, CountExact, CapHeld, Init

\* A connection that takes a place adds one to its address and to no other, one
\* that leaves takes one away, and nothing else touches either side.
LEMMA InvStep == Inv /\ [Next]_vars => Inv'
  <1> SUFFICES ASSUME Inv, [Next]_vars PROVE Inv'
    OBVIOUS
  <1> USE DEF Inv, TypeOK
  <1>1. ASSUME NEW c \in Conns, Acquire(c) PROVE Inv'
    <2>0. PICK p \in Addresses : p = peer[c]
      OBVIOUS
    <2>1. TypeOK'
      BY <1>1, <2>0 DEF Acquire, Goes
    <2>2. OpenAt(p)' = OpenAt(p) \cup {c} /\ c \notin OpenAt(p)
      BY <1>1, <2>0 DEF Acquire, Goes, OpenAt
    <2>3. Cardinality(OpenAt(p)') = Cardinality(OpenAt(p)) + 1
      BY <2>2, OpenFinite, FS_AddElement
    <2>4. \A i \in Addresses : i # p => OpenAt(i)' = OpenAt(i)
      BY <1>1, <2>0 DEF Acquire, Goes, OpenAt
    <2>5. counts'[p] = counts[p] + 1 /\ \A i \in Addresses : i # p => counts'[i] = counts[i]
      BY <1>1, <2>0 DEF Acquire
    <2>6. counts[p] \in Nat /\ counts[p] = Cardinality(OpenAt(p)) /\ counts[p] + 1 <= MaxPerIp
      BY <1>1, <2>0, LimiterAssumption DEF Acquire, CountExact
    <2>7. \A i \in Addresses : Cardinality(OpenAt(i)') = counts'[i] /\ counts'[i] <= MaxPerIp
      <3> TAKE i \in Addresses
      <3>1. CASE i = p
        <4>1. Cardinality(OpenAt(p)') = counts'[p] /\ counts'[p] <= MaxPerIp
          BY <2>3, <2>5, <2>6
        <4> QED BY <3>1, <4>1
      <3>2. CASE i # p
        BY <2>4, <2>5, <3>2 DEF CountExact, CapHeld
      <3> QED BY <3>1, <3>2
    <2> QED BY <2>1, <2>7 DEF CountExact, CapHeld
  <1>2. ASSUME NEW c \in Conns, Leave(c) PROVE Inv'
    <2>0. PICK p \in Addresses : p = peer[c]
      OBVIOUS
    <2>1. TypeOK'
      BY <1>2, <2>0 DEF Leave, Goes
    <2>2. OpenAt(p)' = OpenAt(p) \ {c} /\ c \in OpenAt(p)
      BY <1>2, <2>0 DEF Leave, Goes, OpenAt
    <2>3. Cardinality(OpenAt(p)') = Cardinality(OpenAt(p)) - 1
      BY <2>2, OpenFinite, FS_RemoveElement
    <2>4. \A i \in Addresses : i # p => OpenAt(i)' = OpenAt(i)
      BY <1>2, <2>0 DEF Leave, Goes, OpenAt
    <2>5. /\ counts'[p] = IF counts[p] <= 1 THEN 0 ELSE counts[p] - 1
          /\ \A i \in Addresses : i # p => counts'[i] = counts[i]
      BY <1>2, <2>0 DEF Leave
    <2>6. Cardinality(OpenAt(p)') \in Nat
      BY <2>2, OpenFinite, FS_RemoveElement, FS_CardinalityType
    <2>7. counts[p] \in Nat /\ counts[p] = Cardinality(OpenAt(p)) /\ counts[p] <= MaxPerIp
      BY DEF CountExact, CapHeld
    <2>9. counts[p] >= 1
      BY <2>3, <2>6, <2>7
    <2>8. \A i \in Addresses : Cardinality(OpenAt(i)') = counts'[i] /\ counts'[i] <= MaxPerIp
      <3> TAKE i \in Addresses
      <3>1. CASE i = p
        <4>1. Cardinality(OpenAt(p)') = counts'[p] /\ counts'[p] <= MaxPerIp
          BY <2>3, <2>5, <2>7, <2>9, LimiterAssumption
        <4> QED BY <3>1, <4>1
      <3>2. CASE i # p
        BY <2>4, <2>5, <3>2 DEF CountExact, CapHeld
      <3> QED BY <3>1, <3>2
    <2> QED BY <2>1, <2>8 DEF CountExact, CapHeld
  <1>3. ASSUME NEW c \in Conns,
               RefuseOrigin(c) \/ TooMany(c) \/ Refused(c) \/ Left(c)
        PROVE  Inv'
    <2>1. TypeOK' /\ counts' = counts
      BY <1>3 DEF RefuseOrigin, TooMany, Refused, Left, Goes
    <2>2. \A i \in Addresses : OpenAt(i)' = OpenAt(i)
      BY <1>3 DEF RefuseOrigin, TooMany, Refused, Left, Goes, OpenAt
    <2> QED BY <2>1, <2>2 DEF CountExact, CapHeld
  <1>4. CASE UNCHANGED vars
    BY <1>4 DEF vars, CountExact, CapHeld, OpenAt
  <1> QED BY <1>1, <1>2, <1>3, <1>4 DEF Next

\* The invariant holds in every reachable state.
THEOREM Invariance == Spec => []Inv
  BY InvInit, InvStep, PTL DEF Spec

\* Places are neither lost nor given back twice.
THEOREM CountsExact == Spec => []CountExact
  <1>1. Inv => CountExact
    BY DEF Inv
  <1> QED BY <1>1, Invariance, PTL

\* No address holds more open connections than its cap.
THEOREM CapKept == Spec => []CapHeld
  <1>1. Inv => CapHeld
    BY DEF Inv
  <1> QED BY <1>1, Invariance, PTL

=============================================================================
