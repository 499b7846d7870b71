-------------------------- MODULE RateLimitProofs --------------------------
(***************************************************************************)
(* The limiters and the single use of a token, for any number of attempts, *)
(* addresses, tokens and devices and any limits.                           *)
(***************************************************************************)
EXTENDS RateLimit, FiniteSetTheorems, TLAPS

LEMMA SubsetCard ==
    ASSUME NEW T \in SUBSET Attempts, NEW S \in SUBSET T
    PROVE  /\ IsFiniteSet(T) /\ Cardinality(S) \in Nat /\ Cardinality(T) \in Nat
           /\ Cardinality(S) <= Cardinality(T)
  BY FS_Subset, FS_CardinalityType, LimitsAssumption

\* The windows are kept by what runs no address script
LEMMA WindowKept ==
    ASSUME IInv, UNCHANGED <<window, windowEnds, checked>>, now' \in Nat, now' >= now,
           \A b \in Attempts : checked[b] # 0 =>
              addr'[b] = addr[b] /\ (stage[b] = "busy" => stage'[b] = "busy")
    PROVE  WindowOK' /\ WindowCap'
  <1> USE LimitsAssumption DEF IInv
  <1>1. WindowOK'
    BY DEF WindowOK, TypeOK
  <1>2. ASSUME NEW i \in Addresses PROVE Cardinality(Recent(i)') <= IpMax
    <2>1. Recent(i)' \subseteq Recent(i) /\ Recent(i) \subseteq Attempts
      BY DEF Recent, TypeOK
    <2>2. Cardinality(Recent(i)) <= IpMax
      BY DEF WindowCap
    <2> QED BY <2>1, <2>2, SubsetCard
  <1> QED BY <1>1, <1>2 DEF WindowCap

\* Of two attempts, what was before one of them stays so
LEMMA BeforeKept ==
    ASSUME IInv, NEW a \in Attempts, stage[a] = "busy", stamp'[a] = stamp[a],
           \A b \in Attempts : checked[b] # 0 => checked'[b] = checked[b] /\ addr'[b] = addr[b],
           addr'[a] = addr[a], checked'[a] = checked[a]
    PROVE  Cardinality(Before(a)') >= IpMax
  <1>1. Before(a) \subseteq Before(a)' /\ Before(a)' \subseteq Attempts
    BY DEF Before
  <1>2. Cardinality(Before(a)) >= IpMax
    BY DEF IInv, RefusedForCause
  <1> QED BY <1>1, <1>2, SubsetCard, LimitsAssumption

\* The counts are kept by what counts nothing
LEMMA CountsKept ==
    ASSUME IInv, UNCHANGED <<count, countEnds, blockEnds, tokenEnds>>, now' \in Nat, now' >= now,
           \A b \in Attempts : tried[b] # 0 => tried'[b] = tried[b] /\ key'[b] = key[b],
           \A b \in Attempts : tried[b] # 0 /\ stage[b] = "limited" => stage'[b] = "limited",
           \A b \in Attempts : tried[b] = 0 /\ tried'[b] # 0 => stage'[b] = "limited"
    PROVE  CountsOK' /\ GuessCap'
  <1> USE LimitsAssumption DEF IInv
  <1>1. ASSUME NEW k \in Keys, NEW t \in Int
        PROVE  Cardinality(Since(k, t)') \in Nat /\ Cardinality(Since(k, t)) <= Cardinality(Since(k, t)')
    <2>1. Since(k, t) \subseteq Since(k, t)' /\ Since(k, t)' \subseteq Attempts
      BY DEF Since
    <2> QED BY <2>1, SubsetCard
  <1>2. ASSUME NEW k \in Tokens
        PROVE  Cardinality(Guesses(k)') \in Nat /\ Cardinality(Guesses(k)') <= Cardinality(Guesses(k))
    <2>1. Guesses(k)' \subseteq Guesses(k) /\ Guesses(k) \subseteq Attempts
      BY DEF Guesses
    <2> QED BY <2>1, SubsetCard
  <1>3. ASSUME NEW k \in Keys
        PROVE  /\ countEnds[k] # 0 => Cardinality(Since(k, countEnds[k] - TokenTtl)') >= count[k]
               /\ blockEnds[k] # 0 => Cardinality(Since(k, blockEnds[k] - 2 * TokenTtl)') > TokenMax
    <2> DEFINE s == countEnds[k] - TokenTtl
    <2> DEFINE t == blockEnds[k] - 2 * TokenTtl
    <2>1. s \in Int /\ t \in Int /\ count[k] \in Nat
      BY DEF TypeOK
    <2>2. Cardinality(Since(k, s)) \in Nat /\ Cardinality(Since(k, t)) \in Nat
      BY SubsetCard DEF Since
    <2>3. countEnds[k] # 0 => Cardinality(Since(k, s)) >= count[k]
      BY DEF CountsOK
    <2>4. blockEnds[k] # 0 => Cardinality(Since(k, t)) > TokenMax
      BY DEF CountsOK
    <2>5. /\ Cardinality(Since(k, s)') \in Nat /\ Cardinality(Since(k, s)) <= Cardinality(Since(k, s)')
          /\ Cardinality(Since(k, t)') \in Nat /\ Cardinality(Since(k, t)) <= Cardinality(Since(k, t)')
      BY <1>1, <2>1
    <2> QED BY <2>1, <2>2, <2>3, <2>4, <2>5
  <1>4. ASSUME NEW k \in Tokens
        PROVE  /\ now' <= tokenEnds[k] => Cardinality(Guesses(k)') <= count[k]
               /\ Cardinality(Guesses(k)') <= TokenMax
    <2>1. k \in Keys /\ count[k] \in Nat /\ tokenEnds[k] \in Nat /\ now \in Nat
      BY DEF TypeOK, Keys
    <2>2. Cardinality(Guesses(k)) \in Nat
      BY SubsetCard DEF Guesses
    <2>3. (now <= tokenEnds[k] => Cardinality(Guesses(k)) <= count[k]) /\ Cardinality(Guesses(k)) <= TokenMax
      BY DEF CountsOK, GuessCap
    <2> QED BY <1>2, <2>1, <2>2, <2>3
  <1>5. \A k \in Keys : (countEnds[k] = 0 <=> count[k] = 0) /\ countEnds[k] <= now' + TokenTtl
    BY DEF CountsOK, TypeOK
  <1>6. \A k \in Tokens : countEnds[k] # 0 => tokenEnds[k] # 0 /\ tokenEnds[k] <= countEnds[k]
    BY DEF CountsOK
  <1>7. CountsOK'
    BY <1>3, <1>4, <1>5, <1>6 DEF CountsOK
  <1>8. GuessCap'
    BY <1>4 DEF GuessCap
  <1> QED BY <1>7, <1>8

\* So are the causes of what was limited
LEMMA CauseKept ==
    ASSUME IInv, NEW a \in Attempts, stage[a] = "limited", tried'[a] = tried[a], key'[a] = key[a],
           \A b \in Attempts : tried[b] # 0 => tried'[b] = tried[b] /\ key'[b] = key[b]
    PROVE  Cardinality({b \in Since(key[a], tried[a] - 2 * TokenTtl)' : tried'[b] <= tried'[a]}) > TokenMax
  <1> DEFINE old == {b \in Since(key[a], tried[a] - 2 * TokenTtl) : tried[b] <= tried[a]}
  <1> DEFINE new == {b \in Since(key[a], tried[a] - 2 * TokenTtl)' : tried'[b] <= tried'[a]}
  <1>1. Cardinality(old) > TokenMax
    BY DEF IInv, LimitedForCause
  <1>2. old \subseteq new /\ new \subseteq Attempts
    BY DEF Since
  <1>3. Cardinality(old) \in Nat /\ Cardinality(new) \in Nat /\ Cardinality(old) <= Cardinality(new)
    BY <1>2, SubsetCard
  <1> HIDE DEF old, new
  <1>4. Cardinality(new) > TokenMax
    BY <1>1, <1>3, LimitsAssumption
  <1> QED BY <1>4 DEF new

LEMMA TypeStep == IInv /\ [Next]_vars => TypeOK'
  <1> SUFFICES ASSUME IInv, [Next]_vars PROVE TypeOK'
    OBVIOUS
  <1> USE LimitsAssumption DEF IInv
  <1>1. ASSUME Tick PROVE TypeOK'
    BY <1>1 DEF Tick, attemptVars, ipVars, capVars, tokenVars, TypeOK
  <1>2. ASSUME NEW a \in Attempts, AddressCheck(a) PROVE TypeOK'
    <2>s. Seen(a) \subseteq Attempts /\ now + Window + 1 \in 0..MaxTime + Window + 1
      BY <1>2 DEF AddressCheck, AttemptsOK, Seen, TypeOK
    <2>1. now' \in 1..MaxTime /\ stage' \in [Attempts -> Stages]
      BY <1>2 DEF AddressCheck, Goes, attemptVars, ipVars, capVars, tokenVars, TypeOK, Stages
    <2>2. /\ kind' \in [Attempts -> Kinds \cup {None}] /\ addr' \in [Attempts -> Addresses \cup {None}]
          /\ key' \in [Attempts -> Keys \cup {None}] /\ stamp' \in [Attempts -> 0..MaxTime]
      BY <1>2 DEF AddressCheck, Goes, attemptVars, ipVars, capVars, tokenVars, TypeOK
    <2>3. /\ window' \in [Addresses -> SUBSET Attempts] /\ checked' \in [Attempts -> 0..MaxTime]
          /\ windowEnds' \in [Addresses -> 0..MaxTime + Window + 1]
      <3>1. window' \in [Addresses -> SUBSET Attempts]
        BY <1>2, <2>s DEF AddressCheck, TypeOK
      <3>2. checked' \in [Attempts -> 0..MaxTime]
        BY <1>2 DEF AddressCheck, TypeOK
      <3>3. windowEnds' = [windowEnds EXCEPT ![addr[a]] = now + Window + 1]
        BY <1>2 DEF AddressCheck
      <3>4. windowEnds' \in [Addresses -> 0..MaxTime + Window + 1]
        BY <2>s, <3>3 DEF TypeOK
      <3> QED BY <3>1, <3>2, <3>4
    <2>4. count' \in [Keys -> Nat]
      BY <1>2 DEF AddressCheck, Goes, attemptVars, ipVars, capVars, tokenVars, TypeOK
    <2>5. /\ countEnds' \in [Keys -> 0..MaxTime + TokenTtl] /\ blockEnds' \in [Keys -> 0..MaxTime + TokenTtl]
          /\ tried' \in [Attempts -> 0..MaxTime]
      BY <1>2 DEF AddressCheck, Goes, attemptVars, ipVars, capVars, tokenVars, TypeOK
    <2>6. /\ token' \in [Tokens -> {"absent", "pending", "consumed"}]
          /\ tokenEnds' \in [Tokens -> 0..MaxTime + TokenTtl]
          /\ deadline' \in [Attempts -> 0..MaxTime + TokenTtl]
      BY <1>2 DEF AddressCheck, Goes, attemptVars, ipVars, capVars, tokenVars, TypeOK
    <2> QED BY <2>1, <2>2, <2>3, <2>4, <2>5, <2>6 DEF TypeOK
  <1>3. ASSUME NEW a \in Attempts, CapCheck(a) PROVE TypeOK'
    <2>k. key[a] \in Keys /\ Counted(key[a]) \in Nat
      BY <1>3 DEF CapCheck, AttemptsOK, Counted, Keys, TypeOK
    <2>t. now + TokenTtl \in 0..MaxTime + TokenTtl
      BY DEF TypeOK
    <2>1. now' \in 1..MaxTime /\ stage' \in [Attempts -> Stages]
      BY <1>3 DEF CapCheck, Goes, attemptVars, ipVars, capVars, tokenVars, TypeOK, Stages
    <2>2. /\ kind' \in [Attempts -> Kinds \cup {None}] /\ addr' \in [Attempts -> Addresses \cup {None}]
          /\ key' \in [Attempts -> Keys \cup {None}] /\ stamp' \in [Attempts -> 0..MaxTime]
      BY <1>3 DEF CapCheck, Goes, attemptVars, ipVars, capVars, tokenVars, TypeOK
    <2>3. /\ window' \in [Addresses -> SUBSET Attempts] /\ checked' \in [Attempts -> 0..MaxTime]
          /\ windowEnds' \in [Addresses -> 0..MaxTime + Window + 1]
      BY <1>3 DEF CapCheck, Goes, attemptVars, ipVars, capVars, tokenVars, TypeOK
    <2>4. count' \in [Keys -> Nat]
      BY <1>3, <2>k DEF CapCheck, TypeOK
    <2>5. /\ countEnds' \in [Keys -> 0..MaxTime + TokenTtl] /\ blockEnds' \in [Keys -> 0..MaxTime + TokenTtl]
          /\ tried' \in [Attempts -> 0..MaxTime]
      <3>1. countEnds' \in [Keys -> 0..MaxTime + TokenTtl]
        <4>1. \/ countEnds' = [countEnds EXCEPT ![key[a]] = now + TokenTtl]
              \/ countEnds' = [countEnds EXCEPT ![key[a]] = countEnds[key[a]]]
          BY <1>3 DEF CapCheck
        <4> QED BY <2>k, <2>t, <4>1 DEF TypeOK
      <3>2. blockEnds' \in [Keys -> 0..MaxTime + TokenTtl]
        BY <1>3, <2>k, <2>t DEF CapCheck, TypeOK
      <3>3. tried' \in [Attempts -> 0..MaxTime]
        BY <1>3 DEF CapCheck, TypeOK
      <3> QED BY <3>1, <3>2, <3>3
    <2>6. /\ token' \in [Tokens -> {"absent", "pending", "consumed"}]
          /\ tokenEnds' \in [Tokens -> 0..MaxTime + TokenTtl]
          /\ deadline' \in [Attempts -> 0..MaxTime + TokenTtl]
      BY <1>3 DEF CapCheck, Goes, attemptVars, ipVars, capVars, tokenVars, TypeOK
    <2> QED BY <2>1, <2>2, <2>3, <2>4, <2>5, <2>6 DEF TypeOK
  <1>4. ASSUME NEW a \in Attempts, CapBlocked(a) PROVE TypeOK'
    <2>1. now' \in 1..MaxTime /\ stage' \in [Attempts -> Stages]
      BY <1>4 DEF CapBlocked, Goes, attemptVars, ipVars, capVars, tokenVars, TypeOK, Stages
    <2>2. /\ kind' \in [Attempts -> Kinds \cup {None}] /\ addr' \in [Attempts -> Addresses \cup {None}]
          /\ key' \in [Attempts -> Keys \cup {None}] /\ stamp' \in [Attempts -> 0..MaxTime]
      BY <1>4 DEF CapBlocked, Goes, attemptVars, ipVars, capVars, tokenVars, TypeOK
    <2>3. /\ window' \in [Addresses -> SUBSET Attempts] /\ checked' \in [Attempts -> 0..MaxTime]
          /\ windowEnds' \in [Addresses -> 0..MaxTime + Window + 1]
      BY <1>4 DEF CapBlocked, Goes, attemptVars, ipVars, capVars, tokenVars, TypeOK
    <2>4. count' \in [Keys -> Nat]
      BY <1>4 DEF CapBlocked, Goes, attemptVars, ipVars, capVars, tokenVars, TypeOK
    <2>5. /\ countEnds' \in [Keys -> 0..MaxTime + TokenTtl] /\ blockEnds' \in [Keys -> 0..MaxTime + TokenTtl]
          /\ tried' \in [Attempts -> 0..MaxTime]
      BY <1>4 DEF CapBlocked, Goes, attemptVars, ipVars, capVars, tokenVars, TypeOK
    <2>6. /\ token' \in [Tokens -> {"absent", "pending", "consumed"}]
          /\ tokenEnds' \in [Tokens -> 0..MaxTime + TokenTtl]
          /\ deadline' \in [Attempts -> 0..MaxTime + TokenTtl]
      BY <1>4 DEF CapBlocked, Goes, attemptVars, ipVars, capVars, tokenVars, TypeOK
    <2> QED BY <2>1, <2>2, <2>3, <2>4, <2>5, <2>6 DEF TypeOK
  <1>5. ASSUME NEW a \in Attempts, Issue(a) PROVE TypeOK'
    <2>1. now' \in 1..MaxTime /\ stage' \in [Attempts -> Stages]
      BY <1>5 DEF Issue, Goes, attemptVars, ipVars, capVars, tokenVars, TypeOK, Stages
    <2>2. /\ kind' \in [Attempts -> Kinds \cup {None}] /\ addr' \in [Attempts -> Addresses \cup {None}]
          /\ key' \in [Attempts -> Keys \cup {None}] /\ stamp' \in [Attempts -> 0..MaxTime]
      BY <1>5 DEF Issue, Goes, attemptVars, ipVars, capVars, tokenVars, TypeOK
    <2>3. /\ window' \in [Addresses -> SUBSET Attempts] /\ checked' \in [Attempts -> 0..MaxTime]
          /\ windowEnds' \in [Addresses -> 0..MaxTime + Window + 1]
      BY <1>5 DEF Issue, Goes, attemptVars, ipVars, capVars, tokenVars, TypeOK
    <2>4. count' \in [Keys -> Nat]
      BY <1>5 DEF Issue, Goes, attemptVars, ipVars, capVars, tokenVars, TypeOK
    <2>5. /\ countEnds' \in [Keys -> 0..MaxTime + TokenTtl] /\ blockEnds' \in [Keys -> 0..MaxTime + TokenTtl]
          /\ tried' \in [Attempts -> 0..MaxTime]
      BY <1>5 DEF Issue, Goes, attemptVars, ipVars, capVars, tokenVars, TypeOK
    <2>6. /\ token' \in [Tokens -> {"absent", "pending", "consumed"}]
          /\ tokenEnds' \in [Tokens -> 0..MaxTime + TokenTtl]
          /\ deadline' \in [Attempts -> 0..MaxTime + TokenTtl]
      BY <1>5 DEF Issue, Goes, attemptVars, ipVars, capVars, tokenVars, TypeOK
    <2> QED BY <2>1, <2>2, <2>3, <2>4, <2>5, <2>6 DEF TypeOK
  <1>6. ASSUME NEW a \in Attempts, Record(a) PROVE TypeOK'
    <2>1. now' \in 1..MaxTime /\ stage' \in [Attempts -> Stages]
      BY <1>6 DEF Record, Goes, attemptVars, ipVars, capVars, tokenVars, TypeOK, Stages
    <2>2. /\ kind' \in [Attempts -> Kinds \cup {None}] /\ addr' \in [Attempts -> Addresses \cup {None}]
          /\ key' \in [Attempts -> Keys \cup {None}] /\ stamp' \in [Attempts -> 0..MaxTime]
      BY <1>6 DEF Record, Goes, attemptVars, ipVars, capVars, tokenVars, TypeOK
    <2>3. /\ window' \in [Addresses -> SUBSET Attempts] /\ checked' \in [Attempts -> 0..MaxTime]
          /\ windowEnds' \in [Addresses -> 0..MaxTime + Window + 1]
      BY <1>6 DEF Record, Goes, attemptVars, ipVars, capVars, tokenVars, TypeOK
    <2>4. count' \in [Keys -> Nat]
      BY <1>6 DEF Record, Goes, attemptVars, ipVars, capVars, tokenVars, TypeOK
    <2>5. /\ countEnds' \in [Keys -> 0..MaxTime + TokenTtl] /\ blockEnds' \in [Keys -> 0..MaxTime + TokenTtl]
          /\ tried' \in [Attempts -> 0..MaxTime]
      BY <1>6 DEF Record, Goes, attemptVars, ipVars, capVars, tokenVars, TypeOK
    <2>6. /\ token' \in [Tokens -> {"absent", "pending", "consumed"}]
          /\ tokenEnds' \in [Tokens -> 0..MaxTime + TokenTtl]
          /\ deadline' \in [Attempts -> 0..MaxTime + TokenTtl]
      BY <1>6 DEF Record, Goes, attemptVars, ipVars, capVars, tokenVars, TypeOK
    <2> QED BY <2>1, <2>2, <2>3, <2>4, <2>5, <2>6 DEF TypeOK
  <1>7. ASSUME NEW a \in Attempts, TimeOut(a) PROVE TypeOK'
    <2>1. now' \in 1..MaxTime /\ stage' \in [Attempts -> Stages]
      BY <1>7 DEF TimeOut, Goes, attemptVars, ipVars, capVars, tokenVars, TypeOK, Stages
    <2>2. /\ kind' \in [Attempts -> Kinds \cup {None}] /\ addr' \in [Attempts -> Addresses \cup {None}]
          /\ key' \in [Attempts -> Keys \cup {None}] /\ stamp' \in [Attempts -> 0..MaxTime]
      BY <1>7 DEF TimeOut, Goes, attemptVars, ipVars, capVars, tokenVars, TypeOK
    <2>3. /\ window' \in [Addresses -> SUBSET Attempts] /\ checked' \in [Attempts -> 0..MaxTime]
          /\ windowEnds' \in [Addresses -> 0..MaxTime + Window + 1]
      BY <1>7 DEF TimeOut, Goes, attemptVars, ipVars, capVars, tokenVars, TypeOK
    <2>4. count' \in [Keys -> Nat]
      BY <1>7 DEF TimeOut, Goes, attemptVars, ipVars, capVars, tokenVars, TypeOK
    <2>5. /\ countEnds' \in [Keys -> 0..MaxTime + TokenTtl] /\ blockEnds' \in [Keys -> 0..MaxTime + TokenTtl]
          /\ tried' \in [Attempts -> 0..MaxTime]
      BY <1>7 DEF TimeOut, Goes, attemptVars, ipVars, capVars, tokenVars, TypeOK
    <2>6. /\ token' \in [Tokens -> {"absent", "pending", "consumed"}]
          /\ tokenEnds' \in [Tokens -> 0..MaxTime + TokenTtl]
          /\ deadline' \in [Attempts -> 0..MaxTime + TokenTtl]
      BY <1>7 DEF TimeOut, Goes, attemptVars, ipVars, capVars, tokenVars, TypeOK
    <2> QED BY <2>1, <2>2, <2>3, <2>4, <2>5, <2>6 DEF TypeOK
  <1>8. ASSUME NEW a \in Attempts, Consume(a) PROVE TypeOK'
    <2>1. now' \in 1..MaxTime /\ stage' \in [Attempts -> Stages]
      BY <1>8 DEF Consume, Goes, attemptVars, ipVars, capVars, tokenVars, TypeOK, Stages
    <2>2. /\ kind' \in [Attempts -> Kinds \cup {None}] /\ addr' \in [Attempts -> Addresses \cup {None}]
          /\ key' \in [Attempts -> Keys \cup {None}] /\ stamp' \in [Attempts -> 0..MaxTime]
      BY <1>8 DEF Consume, Goes, attemptVars, ipVars, capVars, tokenVars, TypeOK
    <2>3. /\ window' \in [Addresses -> SUBSET Attempts] /\ checked' \in [Attempts -> 0..MaxTime]
          /\ windowEnds' \in [Addresses -> 0..MaxTime + Window + 1]
      BY <1>8 DEF Consume, Goes, attemptVars, ipVars, capVars, tokenVars, TypeOK
    <2>4. count' \in [Keys -> Nat]
      BY <1>8 DEF Consume, Goes, attemptVars, ipVars, capVars, tokenVars, TypeOK
    <2>5. /\ countEnds' \in [Keys -> 0..MaxTime + TokenTtl] /\ blockEnds' \in [Keys -> 0..MaxTime + TokenTtl]
          /\ tried' \in [Attempts -> 0..MaxTime]
      BY <1>8 DEF Consume, Goes, attemptVars, ipVars, capVars, tokenVars, TypeOK
    <2>6. /\ token' \in [Tokens -> {"absent", "pending", "consumed"}]
          /\ tokenEnds' \in [Tokens -> 0..MaxTime + TokenTtl]
          /\ deadline' \in [Attempts -> 0..MaxTime + TokenTtl]
      BY <1>8 DEF Consume, Goes, attemptVars, ipVars, capVars, tokenVars, TypeOK
    <2> QED BY <2>1, <2>2, <2>3, <2>4, <2>5, <2>6 DEF TypeOK
  <1>9. ASSUME NEW a \in Attempts, Fail(a) PROVE TypeOK'
    <2>1. now' \in 1..MaxTime /\ stage' \in [Attempts -> Stages]
      BY <1>9 DEF Fail, Goes, attemptVars, ipVars, capVars, tokenVars, TypeOK, Stages
    <2>2. /\ kind' \in [Attempts -> Kinds \cup {None}] /\ addr' \in [Attempts -> Addresses \cup {None}]
          /\ key' \in [Attempts -> Keys \cup {None}] /\ stamp' \in [Attempts -> 0..MaxTime]
      BY <1>9 DEF Fail, Goes, attemptVars, ipVars, capVars, tokenVars, TypeOK
    <2>3. /\ window' \in [Addresses -> SUBSET Attempts] /\ checked' \in [Attempts -> 0..MaxTime]
          /\ windowEnds' \in [Addresses -> 0..MaxTime + Window + 1]
      BY <1>9 DEF Fail, Goes, attemptVars, ipVars, capVars, tokenVars, TypeOK
    <2>4. count' \in [Keys -> Nat]
      BY <1>9 DEF Fail, Goes, attemptVars, ipVars, capVars, tokenVars, TypeOK
    <2>5. /\ countEnds' \in [Keys -> 0..MaxTime + TokenTtl] /\ blockEnds' \in [Keys -> 0..MaxTime + TokenTtl]
          /\ tried' \in [Attempts -> 0..MaxTime]
      BY <1>9 DEF Fail, Goes, attemptVars, ipVars, capVars, tokenVars, TypeOK
    <2>6. /\ token' \in [Tokens -> {"absent", "pending", "consumed"}]
          /\ tokenEnds' \in [Tokens -> 0..MaxTime + TokenTtl]
          /\ deadline' \in [Attempts -> 0..MaxTime + TokenTtl]
      BY <1>9 DEF Fail, Goes, attemptVars, ipVars, capVars, tokenVars, TypeOK
    <2> QED BY <2>1, <2>2, <2>3, <2>4, <2>5, <2>6 DEF TypeOK
  <1>10. ASSUME NEW a \in Attempts, NEW i \in Addresses, NEW k \in Keys, Begin(a, i, k) PROVE TypeOK'
    <2>1. now' \in 1..MaxTime /\ stage' \in [Attempts -> Stages]
      BY <1>10 DEF Begin, Goes, attemptVars, ipVars, capVars, tokenVars, TypeOK, Stages
    <2>2. /\ kind' \in [Attempts -> Kinds \cup {None}] /\ addr' \in [Attempts -> Addresses \cup {None}]
          /\ key' \in [Attempts -> Keys \cup {None}] /\ stamp' \in [Attempts -> 0..MaxTime]
      BY <1>10 DEF Begin, Goes, attemptVars, ipVars, capVars, tokenVars, TypeOK, Kinds
    <2>3. /\ window' \in [Addresses -> SUBSET Attempts] /\ checked' \in [Attempts -> 0..MaxTime]
          /\ windowEnds' \in [Addresses -> 0..MaxTime + Window + 1]
      BY <1>10 DEF Begin, Goes, attemptVars, ipVars, capVars, tokenVars, TypeOK
    <2>4. count' \in [Keys -> Nat]
      BY <1>10 DEF Begin, Goes, attemptVars, ipVars, capVars, tokenVars, TypeOK
    <2>5. /\ countEnds' \in [Keys -> 0..MaxTime + TokenTtl] /\ blockEnds' \in [Keys -> 0..MaxTime + TokenTtl]
          /\ tried' \in [Attempts -> 0..MaxTime]
      BY <1>10 DEF Begin, Goes, attemptVars, ipVars, capVars, tokenVars, TypeOK
    <2>6. /\ token' \in [Tokens -> {"absent", "pending", "consumed"}]
          /\ tokenEnds' \in [Tokens -> 0..MaxTime + TokenTtl]
          /\ deadline' \in [Attempts -> 0..MaxTime + TokenTtl]
      BY <1>10 DEF Begin, Goes, attemptVars, ipVars, capVars, tokenVars, TypeOK
    <2> QED BY <2>1, <2>2, <2>3, <2>4, <2>5, <2>6 DEF TypeOK
  <1>11. CASE UNCHANGED vars
    BY <1>11 DEF vars, attemptVars, ipVars, capVars, tokenVars, TypeOK
  <1> QED BY <1>1, <1>2, <1>3, <1>4, <1>5, <1>6, <1>7, <1>8, <1>9, <1>10, <1>11 DEF Next

LEMMA AttemptsStep == IInv /\ [Next]_vars => AttemptsOK'
  <1> SUFFICES ASSUME IInv, [Next]_vars PROVE AttemptsOK'
    OBVIOUS
  <1> USE LimitsAssumption DEF IInv
  <1>1. ASSUME Tick PROVE AttemptsOK'
    BY <1>1 DEF Tick, attemptVars, ipVars, capVars, tokenVars, AttemptsOK, TypeOK
  <1>2. ASSUME NEW a \in Attempts, AddressCheck(a) PROVE AttemptsOK'
    BY <1>2 DEF AddressCheck, Goes, attemptVars, ipVars, capVars, tokenVars, AttemptsOK, TypeOK
  <1>3. ASSUME NEW a \in Attempts, CapCheck(a) PROVE AttemptsOK'
    BY <1>3 DEF CapCheck, Goes, attemptVars, ipVars, capVars, tokenVars, AttemptsOK, TypeOK
  <1>4. ASSUME NEW a \in Attempts, CapBlocked(a) PROVE AttemptsOK'
    BY <1>4 DEF CapBlocked, Goes, attemptVars, ipVars, capVars, tokenVars, AttemptsOK, TypeOK
  <1>5. ASSUME NEW a \in Attempts, Issue(a) PROVE AttemptsOK'
    BY <1>5 DEF Issue, Goes, attemptVars, ipVars, capVars, tokenVars, AttemptsOK, TypeOK
  <1>6. ASSUME NEW a \in Attempts, Record(a) PROVE AttemptsOK'
    BY <1>6 DEF Record, Goes, attemptVars, ipVars, capVars, tokenVars, AttemptsOK, TypeOK
  <1>7. ASSUME NEW a \in Attempts, TimeOut(a) PROVE AttemptsOK'
    BY <1>7 DEF TimeOut, Goes, attemptVars, ipVars, capVars, tokenVars, AttemptsOK, TypeOK
  <1>8. ASSUME NEW a \in Attempts, Consume(a) PROVE AttemptsOK'
    BY <1>8 DEF Consume, Goes, attemptVars, ipVars, capVars, tokenVars, AttemptsOK, TypeOK
  <1>9. ASSUME NEW a \in Attempts, Fail(a) PROVE AttemptsOK'
    BY <1>9 DEF Fail, Goes, attemptVars, ipVars, capVars, tokenVars, AttemptsOK, TypeOK
  <1>10. ASSUME NEW a \in Attempts, NEW i \in Addresses, NEW k \in Keys, Begin(a, i, k) PROVE AttemptsOK'
    BY <1>10 DEF Begin, Goes, attemptVars, ipVars, capVars, tokenVars, AttemptsOK, TypeOK
  <1>11. CASE UNCHANGED vars
    BY <1>11 DEF vars, attemptVars, ipVars, capVars, tokenVars, AttemptsOK, TypeOK
  <1> QED BY <1>1, <1>2, <1>3, <1>4, <1>5, <1>6, <1>7, <1>8, <1>9, <1>10, <1>11 DEF Next

LEMMA TokensStep == IInv /\ [Next]_vars => TokensOK'
  <1> SUFFICES ASSUME IInv, [Next]_vars PROVE TokensOK'
    OBVIOUS
  <1> USE LimitsAssumption DEF IInv
  <1>1. ASSUME Tick PROVE TokensOK'
    BY <1>1 DEF Tick, attemptVars, ipVars, capVars, tokenVars, TokensOK, AttemptsOK, TypeOK
  <1>2. ASSUME NEW a \in Attempts, AddressCheck(a) PROVE TokensOK'
    BY <1>2 DEF AddressCheck, Goes, attemptVars, ipVars, capVars, tokenVars, TokensOK, AttemptsOK, TypeOK
  <1>3. ASSUME NEW a \in Attempts, CapCheck(a) PROVE TokensOK'
    BY <1>3 DEF CapCheck, Goes, attemptVars, ipVars, capVars, tokenVars, TokensOK, AttemptsOK, TypeOK
  <1>4. ASSUME NEW a \in Attempts, CapBlocked(a) PROVE TokensOK'
    BY <1>4 DEF CapBlocked, Goes, attemptVars, ipVars, capVars, tokenVars, TokensOK, AttemptsOK, TypeOK
  <1>5. ASSUME NEW a \in Attempts, Issue(a) PROVE TokensOK'
    <2> DEFINE k == key[a]
    <2>1. k \in Tokens /\ kind[a] = "pair_init" /\ tokenEnds[k] = 0 /\ UNCHANGED <<now, kind, key, deadline>>
      BY <1>5 DEF Issue, AttemptsOK, TokensOK, attemptVars, tokenVars
    <2>2. \A b \in Attempts : key[b] = k /\ b # a => kind[b] # "pair_init" /\ kind[b] # "pair_request"
      BY <2>1 DEF TokensOK
    <2>3. \A b \in Attempts : b # a => stage'[b] = stage[b]
      BY <1>5 DEF Issue, Goes, TypeOK
    <2>4. stage'[a] \in {"record", "failed"}
      BY <1>5 DEF Issue, Goes, TypeOK
    <2>5. tokenEnds' = tokenEnds \/ tokenEnds' = [tokenEnds EXCEPT ![k] = now + TokenTtl]
      BY <1>5 DEF Issue, tokenVars
    <2>6. token' = token \/ token' = [token EXCEPT ![k] = "pending"]
      BY <1>5 DEF Issue, tokenVars
    <2>7. \A j \in Tokens : tokenEnds'[j] <= now + TokenTtl
      BY <2>1, <2>5 DEF TokensOK, TypeOK
    <2>8. \A b, c \in Attempts :
             stage'[b] = "paired" /\ stage'[c] = "paired" /\ key[b] = key[c] => b = c
      BY <2>3, <2>4 DEF TokensOK
    <2>9. ASSUME NEW b \in Attempts
          PROVE  /\ kind[b] = "pair_init" /\ stage'[b] \in {"address", "issue"} => tokenEnds'[key[b]] = 0
                 /\ kind[b] = "pair_request" => tokenEnds'[key[b]] # 0
                 /\ stage'[b] = "paired" => token'[key[b]] # "pending"
                 /\ stage'[b] \in {"acked", "left"} => tokenEnds'[key[b]] <= deadline'[b]
                 /\ stage'[b] = "left" => deadline'[b] < now
      <3>1. CASE b = a
        BY <2>1, <2>4, <3>1
      <3>2. CASE b # a /\ key[b] # k
        BY <2>1, <2>3, <2>5, <2>6, <3>2 DEF TokensOK, AttemptsOK, TypeOK, Kinds
      <3>3. CASE b # a /\ key[b] = k
        BY <2>2, <2>3, <3>3 DEF AttemptsOK
      <3> QED BY <3>1, <3>2, <3>3
    <2>10. \A b, c \in Attempts : kind[b] = "pair_init" /\ kind[c] = "pair_init" /\ key[b] = key[c] => b = c
      BY DEF TokensOK
    <2>11. \A j \in Tokens : tokenEnds'[j] # 0 => \E b \in Attempts : key'[b] = j
      BY <2>1, <2>5 DEF TokensOK, TypeOK
    <2> HIDE DEF k
    <2> QED BY <2>1, <2>7, <2>8, <2>9, <2>10, <2>11 DEF TokensOK
  <1>6. ASSUME NEW a \in Attempts, Record(a) PROVE TokensOK'
    BY <1>6 DEF Record, Goes, attemptVars, ipVars, capVars, tokenVars, TokensOK, AttemptsOK, TypeOK
  <1>7. ASSUME NEW a \in Attempts, TimeOut(a) PROVE TokensOK'
    BY <1>7 DEF TimeOut, Goes, attemptVars, ipVars, capVars, tokenVars, TokensOK, AttemptsOK, TypeOK
  <1>8. ASSUME NEW a \in Attempts, Consume(a) PROVE TokensOK'
    BY <1>8 DEF Consume, Goes, attemptVars, ipVars, capVars, tokenVars, TokensOK, AttemptsOK, TypeOK
  <1>9. ASSUME NEW a \in Attempts, Fail(a) PROVE TokensOK'
    BY <1>9 DEF Fail, Goes, attemptVars, ipVars, capVars, tokenVars, TokensOK, AttemptsOK, TypeOK
  <1>10. ASSUME NEW a \in Attempts, NEW i \in Addresses, NEW k \in Keys, Begin(a, i, k) PROVE TokensOK'
    <2>1. UNCHANGED <<now, token, tokenEnds, deadline>> /\ stage[a] = "idle" /\ stage'[a] = "address"
      BY <1>10 DEF Begin, Goes, tokenVars, TypeOK
    <2>2. \A b \in Attempts : b # a => kind'[b] = kind[b] /\ key'[b] = key[b] /\ stage'[b] = stage[b]
      BY <1>10 DEF Begin, Goes, TypeOK
    <2>3. key'[a] = k /\ \/ kind'[a] = "pair_init" /\ k \in Tokens /\ \A b \in Attempts : key[b] # k
                         \/ kind'[a] = "pair_request" /\ tokenEnds[k] # 0
                         \/ kind'[a] = "resume_request"
      BY <1>10 DEF Begin, TypeOK
    <2>4. kind'[a] = "pair_init" => tokenEnds[k] = 0
      BY <2>3 DEF TokensOK
    <2>5. \A j \in Tokens : tokenEnds'[j] # 0 => \E b \in Attempts : key'[b] = j
      <3>1. key[a] \notin Tokens
        BY <2>1 DEF AttemptsOK, Keys
      <3> QED BY <2>1, <2>2, <3>1 DEF TokensOK
    <2> QED BY <2>5, <2>1, <2>2, <2>3, <2>4 DEF TokensOK, TypeOK
  <1>11. CASE UNCHANGED vars
    BY <1>11 DEF vars, attemptVars, ipVars, capVars, tokenVars, TokensOK, AttemptsOK, TypeOK
  <1> QED BY <1>1, <1>2, <1>3, <1>4, <1>5, <1>6, <1>7, <1>8, <1>9, <1>10, <1>11 DEF Next

LEMMA WindowStep == IInv /\ [Next]_vars => WindowOK' /\ WindowCap'
  <1> SUFFICES ASSUME IInv, [Next]_vars PROVE WindowOK' /\ WindowCap'
    OBVIOUS
  <1> USE LimitsAssumption DEF IInv
  <1>1. ASSUME Tick PROVE WindowOK' /\ WindowCap'
    <2>1. UNCHANGED <<window, windowEnds, checked>> /\ now' \in Nat /\ now' >= now
      BY <1>1 DEF Tick, attemptVars, ipVars, capVars, tokenVars, TypeOK
    <2>2. \A b \in Attempts : checked[b] # 0 =>
             addr'[b] = addr[b] /\ (stage[b] = "busy" => stage'[b] = "busy")
      BY <1>1 DEF Tick, attemptVars, ipVars, capVars, tokenVars, TypeOK, AttemptsOK
    <2> QED BY <2>1, <2>2, WindowKept
  <1>2. ASSUME NEW a \in Attempts, AddressCheck(a) PROVE WindowOK' /\ WindowCap'
    <2> DEFINE i == addr[a]
    <2>1. /\ i \in Addresses /\ checked[a] = 0 /\ stamp[a] \in 1..now /\ now <= stamp[a] + MaxDelay
          /\ now \in Nat /\ now # 0
      BY <1>2 DEF AddressCheck, AttemptsOK, TypeOK
    <2>2. /\ window' = [window EXCEPT ![i] = Seen(a)] /\ checked' = [checked EXCEPT ![a] = now]
          /\ windowEnds' = [windowEnds EXCEPT ![i] = now + Window + 1]
          /\ UNCHANGED <<now, addr>> /\ \A b \in Attempts : b # a => stage'[b] = stage[b]
      BY <1>2 DEF AddressCheck, Goes, attemptVars, TypeOK
    <2>3. Seen(a) \subseteq Attempts /\ a \in Seen(a)
      BY <2>1 DEF Seen, TypeOK
    <2>4. ASSUME NEW b \in Attempts, b # a, addr[b] = i, checked[b] # 0, checked[b] + Window > now + MaxDelay
          PROVE  b \in Seen(a)
      <3>1. b \in window[i] /\ windowEnds[i] > checked[b] + Window
        BY <2>4 DEF WindowOK
      <3>2. checked[b] \in Nat /\ stamp[b] \in Nat /\ checked[b] <= stamp[b] + MaxDelay /\ windowEnds[i] \in Nat
        BY <2>1, <2>4 DEF AttemptsOK, TypeOK
      <3>3. Alive(windowEnds[i])
        BY <2>1, <2>4, <3>1, <3>2 DEF Alive
      <3>4. stamp[b] > stamp[a] - Window
        BY <2>1, <2>4, <3>2
      <3> QED BY <3>1, <3>3, <3>4 DEF Seen
    <2>5. ASSUME NEW j \in Addresses, NEW b \in window'[j] PROVE addr'[b] = j /\ checked'[b] # 0
      <3>1. CASE j = i
        <4>1. b \in Seen(a)
          BY <2>1, <2>2, <2>5, <3>1 DEF TypeOK
        <4>2. b = a \/ (b \in Attempts /\ b \in window[i])
          BY <2>1, <4>1 DEF Seen, TypeOK
        <4> QED BY <2>1, <2>2, <3>1, <4>2 DEF WindowOK, TypeOK
      <3>2. CASE j # i
        BY <2>1, <2>2, <2>5, <3>2 DEF WindowOK, TypeOK
      <3> QED BY <3>1, <3>2
    <2>6. ASSUME NEW b \in Attempts, checked'[b] # 0
          PROVE  /\ windowEnds'[addr[b]] > checked'[b] + Window
                 /\ checked'[b] + Window > now + MaxDelay => b \in window'[addr[b]]
      <3>1. CASE b = a
        BY <2>1, <2>2, <2>3, <3>1 DEF TypeOK
      <3>2. CASE b # a
        <4>1. checked'[b] = checked[b] /\ checked[b] \in Nat /\ checked[b] <= now
          BY <2>2, <2>6, <3>2 DEF TypeOK, AttemptsOK
        <4>2. CASE addr[b] = i
          BY <2>1, <2>2, <2>4, <2>6, <3>2, <4>1, <4>2 DEF TypeOK
        <4>3. CASE addr[b] # i
          BY <2>1, <2>2, <2>6, <4>1, <4>3 DEF WindowOK, TypeOK
        <4> QED BY <4>2, <4>3
      <3> QED BY <3>1, <3>2
    <2>7. WindowOK'
      BY <2>2, <2>5, <2>6 DEF WindowOK
    <2>8. ASSUME NEW j \in Addresses PROVE Cardinality(Recent(j)') <= IpMax
      <3>1. CASE j = i /\ Cardinality(Seen(a)) <= IpMax
        <4>1. Recent(j)' \subseteq Seen(a)
          BY <3>1, <2>1, <2>2, <2>3, <2>4 DEF Recent, TypeOK
        <4> QED BY <2>3, <3>1, <4>1, SubsetCard
      <3>2. CASE j # i \/ stage'[a] = "busy"
        <4>1. Recent(j)' \subseteq Recent(j) /\ Recent(j) \subseteq Attempts
          BY <2>1, <2>2, <3>2 DEF Recent, TypeOK
        <4>2. Cardinality(Recent(j)) <= IpMax
          BY DEF WindowCap
        <4> QED BY <4>1, <4>2, SubsetCard
      <3>3. Cardinality(Seen(a)) <= IpMax \/ stage'[a] = "busy"
        BY <1>2 DEF AddressCheck, Goes, TypeOK
      <3> QED BY <3>1, <3>2, <3>3
    <2> QED BY <2>7, <2>8 DEF WindowCap
  <1>3. ASSUME NEW a \in Attempts, CapCheck(a) PROVE WindowOK' /\ WindowCap'
    <2>1. UNCHANGED <<window, windowEnds, checked>> /\ now' \in Nat /\ now' >= now
      BY <1>3 DEF CapCheck, Goes, attemptVars, ipVars, capVars, tokenVars, TypeOK
    <2>2. \A b \in Attempts : checked[b] # 0 =>
             addr'[b] = addr[b] /\ (stage[b] = "busy" => stage'[b] = "busy")
      BY <1>3 DEF CapCheck, Goes, attemptVars, ipVars, capVars, tokenVars, TypeOK, AttemptsOK
    <2> QED BY <2>1, <2>2, WindowKept
  <1>4. ASSUME NEW a \in Attempts, CapBlocked(a) PROVE WindowOK' /\ WindowCap'
    <2>1. UNCHANGED <<window, windowEnds, checked>> /\ now' \in Nat /\ now' >= now
      BY <1>4 DEF CapBlocked, Goes, attemptVars, ipVars, capVars, tokenVars, TypeOK
    <2>2. \A b \in Attempts : checked[b] # 0 =>
             addr'[b] = addr[b] /\ (stage[b] = "busy" => stage'[b] = "busy")
      BY <1>4 DEF CapBlocked, Goes, attemptVars, ipVars, capVars, tokenVars, TypeOK, AttemptsOK
    <2> QED BY <2>1, <2>2, WindowKept
  <1>5. ASSUME NEW a \in Attempts, Issue(a) PROVE WindowOK' /\ WindowCap'
    <2>1. UNCHANGED <<window, windowEnds, checked>> /\ now' \in Nat /\ now' >= now
      BY <1>5 DEF Issue, Goes, attemptVars, ipVars, capVars, tokenVars, TypeOK
    <2>2. \A b \in Attempts : checked[b] # 0 =>
             addr'[b] = addr[b] /\ (stage[b] = "busy" => stage'[b] = "busy")
      BY <1>5 DEF Issue, Goes, attemptVars, ipVars, capVars, tokenVars, TypeOK, AttemptsOK
    <2> QED BY <2>1, <2>2, WindowKept
  <1>6. ASSUME NEW a \in Attempts, Record(a) PROVE WindowOK' /\ WindowCap'
    <2>1. UNCHANGED <<window, windowEnds, checked>> /\ now' \in Nat /\ now' >= now
      BY <1>6 DEF Record, Goes, attemptVars, ipVars, capVars, tokenVars, TypeOK
    <2>2. \A b \in Attempts : checked[b] # 0 =>
             addr'[b] = addr[b] /\ (stage[b] = "busy" => stage'[b] = "busy")
      BY <1>6 DEF Record, Goes, attemptVars, ipVars, capVars, tokenVars, TypeOK, AttemptsOK
    <2> QED BY <2>1, <2>2, WindowKept
  <1>7. ASSUME NEW a \in Attempts, TimeOut(a) PROVE WindowOK' /\ WindowCap'
    <2>1. UNCHANGED <<window, windowEnds, checked>> /\ now' \in Nat /\ now' >= now
      BY <1>7 DEF TimeOut, Goes, attemptVars, ipVars, capVars, tokenVars, TypeOK
    <2>2. \A b \in Attempts : checked[b] # 0 =>
             addr'[b] = addr[b] /\ (stage[b] = "busy" => stage'[b] = "busy")
      BY <1>7 DEF TimeOut, Goes, attemptVars, ipVars, capVars, tokenVars, TypeOK, AttemptsOK
    <2> QED BY <2>1, <2>2, WindowKept
  <1>8. ASSUME NEW a \in Attempts, Consume(a) PROVE WindowOK' /\ WindowCap'
    <2>1. UNCHANGED <<window, windowEnds, checked>> /\ now' \in Nat /\ now' >= now
      BY <1>8 DEF Consume, Goes, attemptVars, ipVars, capVars, tokenVars, TypeOK
    <2>2. \A b \in Attempts : checked[b] # 0 =>
             addr'[b] = addr[b] /\ (stage[b] = "busy" => stage'[b] = "busy")
      BY <1>8 DEF Consume, Goes, attemptVars, ipVars, capVars, tokenVars, TypeOK, AttemptsOK
    <2> QED BY <2>1, <2>2, WindowKept
  <1>9. ASSUME NEW a \in Attempts, Fail(a) PROVE WindowOK' /\ WindowCap'
    <2>1. UNCHANGED <<window, windowEnds, checked>> /\ now' \in Nat /\ now' >= now
      BY <1>9 DEF Fail, Goes, attemptVars, ipVars, capVars, tokenVars, TypeOK
    <2>2. \A b \in Attempts : checked[b] # 0 =>
             addr'[b] = addr[b] /\ (stage[b] = "busy" => stage'[b] = "busy")
      BY <1>9 DEF Fail, Goes, attemptVars, ipVars, capVars, tokenVars, TypeOK, AttemptsOK
    <2> QED BY <2>1, <2>2, WindowKept
  <1>10. ASSUME NEW a \in Attempts, NEW i \in Addresses, NEW k \in Keys, Begin(a, i, k) PROVE WindowOK' /\ WindowCap'
    <2>1. UNCHANGED <<window, windowEnds, checked>> /\ now' \in Nat /\ now' >= now
      BY <1>10 DEF Begin, Goes, attemptVars, ipVars, capVars, tokenVars, TypeOK
    <2>2. \A b \in Attempts : checked[b] # 0 =>
             addr'[b] = addr[b] /\ (stage[b] = "busy" => stage'[b] = "busy")
      BY <1>10 DEF Begin, Goes, attemptVars, ipVars, capVars, tokenVars, TypeOK, AttemptsOK
    <2> QED BY <2>1, <2>2, WindowKept
  <1>11. CASE UNCHANGED vars
    <2>1. UNCHANGED <<window, windowEnds, checked>> /\ now' \in Nat /\ now' >= now
      BY <1>11 DEF vars, attemptVars, ipVars, capVars, tokenVars, TypeOK
    <2>2. \A b \in Attempts : checked[b] # 0 =>
             addr'[b] = addr[b] /\ (stage[b] = "busy" => stage'[b] = "busy")
      BY <1>11 DEF vars, attemptVars, ipVars, capVars, tokenVars, TypeOK, AttemptsOK
    <2> QED BY <2>1, <2>2, WindowKept
  <1> QED BY <1>1, <1>2, <1>3, <1>4, <1>5, <1>6, <1>7, <1>8, <1>9, <1>10, <1>11 DEF Next

LEMMA BusyStep == IInv /\ [Next]_vars => RefusedForCause'
  <1> SUFFICES ASSUME IInv, [Next]_vars PROVE RefusedForCause'
    OBVIOUS
  <1> USE LimitsAssumption DEF IInv
  <1>1. ASSUME Tick PROVE RefusedForCause'
    <2>1. ASSUME NEW b \in Attempts, stage'[b] = "busy"
          PROVE  stage[b] = "busy" /\ stamp'[b] = stamp[b] /\ addr'[b] = addr[b] /\ checked'[b] = checked[b]
      BY <1>1, <2>1 DEF Tick, attemptVars, ipVars, capVars, tokenVars, TypeOK
    <2>2. \A b \in Attempts : checked[b] # 0 => checked'[b] = checked[b] /\ addr'[b] = addr[b]
      BY <1>1 DEF Tick, attemptVars, ipVars, capVars, tokenVars, TypeOK, AttemptsOK
    <2> QED BY <2>1, <2>2, BeforeKept DEF RefusedForCause
  <1>2. ASSUME NEW a \in Attempts, AddressCheck(a) PROVE RefusedForCause'
    <2>1. /\ checked[a] = 0 /\ stage[a] # "busy" /\ stamp[a] \in Nat /\ now \in Nat
          /\ addr[a] \in Addresses
      BY <1>2 DEF AddressCheck, AttemptsOK, TypeOK
    <2>2. /\ checked' = [checked EXCEPT ![a] = now] /\ UNCHANGED <<addr, stamp>>
          /\ \A b \in Attempts : b # a => stage'[b] = stage[b]
      BY <1>2 DEF AddressCheck, Goes, attemptVars, TypeOK
    <2>3. \A b \in Attempts : checked[b] # 0 => checked'[b] = checked[b] /\ addr'[b] = addr[b]
      BY <2>1, <2>2 DEF TypeOK
    <2>4. ASSUME NEW b \in Attempts, b # a, stage'[b] = "busy" PROVE Cardinality(Before(b)') >= IpMax
      <3>1. stage[b] = "busy" /\ checked'[b] = checked[b]
        BY <2>2, <2>4 DEF TypeOK
      <3> QED BY <2>2, <2>3, <3>1, BeforeKept
    <2>5. ASSUME stage'[a] = "busy" PROVE Cardinality(Before(a)') >= IpMax
      <3>1. Cardinality(Seen(a)) > IpMax
        BY <1>2, <2>5 DEF AddressCheck, Goes, TypeOK
      <3>2. Seen(a) \subseteq Attempts /\ a \in Seen(a)
        BY <2>1 DEF Seen, TypeOK
      <3>3. IsFiniteSet(Seen(a)) /\ Cardinality(Seen(a)) \in Nat
        BY <3>2, SubsetCard
      <3>4. Cardinality(Seen(a) \ {a}) = Cardinality(Seen(a)) - 1
        BY <3>2, <3>3, FS_RemoveElement
      <3>5. ASSUME NEW b \in Seen(a) \ {a} PROVE b \in Before(a)'
        <4>1. b \in Attempts /\ b \in window[addr[a]] /\ stamp[b] > stamp[a] - Window
          BY <3>2 DEF Seen
        <4>2. addr[b] = addr[a] /\ checked[b] # 0
          BY <2>1, <4>1 DEF WindowOK
        <4>3. checked[b] <= now /\ stamp[b] <= checked[b] /\ stamp[b] \in Nat /\ checked[b] \in Nat
          BY <4>1, <4>2 DEF AttemptsOK, TypeOK
        <4> QED BY <2>1, <2>2, <3>5, <4>1, <4>2, <4>3 DEF Before, TypeOK
      <3>6. Before(a)' \subseteq Attempts /\ Seen(a) \ {a} \subseteq Before(a)'
        BY <3>5 DEF Before
      <3>7. Cardinality(Before(a)') \in Nat /\ Cardinality(Seen(a) \ {a}) <= Cardinality(Before(a)')
        BY <3>6, SubsetCard
      <3> QED BY <3>1, <3>3, <3>4, <3>7
    <2> QED BY <2>4, <2>5 DEF RefusedForCause
  <1>3. ASSUME NEW a \in Attempts, CapCheck(a) PROVE RefusedForCause'
    <2>1. ASSUME NEW b \in Attempts, stage'[b] = "busy"
          PROVE  stage[b] = "busy" /\ stamp'[b] = stamp[b] /\ addr'[b] = addr[b] /\ checked'[b] = checked[b]
      BY <1>3, <2>1 DEF CapCheck, Goes, attemptVars, ipVars, capVars, tokenVars, TypeOK
    <2>2. \A b \in Attempts : checked[b] # 0 => checked'[b] = checked[b] /\ addr'[b] = addr[b]
      BY <1>3 DEF CapCheck, Goes, attemptVars, ipVars, capVars, tokenVars, TypeOK, AttemptsOK
    <2> QED BY <2>1, <2>2, BeforeKept DEF RefusedForCause
  <1>4. ASSUME NEW a \in Attempts, CapBlocked(a) PROVE RefusedForCause'
    <2>1. ASSUME NEW b \in Attempts, stage'[b] = "busy"
          PROVE  stage[b] = "busy" /\ stamp'[b] = stamp[b] /\ addr'[b] = addr[b] /\ checked'[b] = checked[b]
      BY <1>4, <2>1 DEF CapBlocked, Goes, attemptVars, ipVars, capVars, tokenVars, TypeOK
    <2>2. \A b \in Attempts : checked[b] # 0 => checked'[b] = checked[b] /\ addr'[b] = addr[b]
      BY <1>4 DEF CapBlocked, Goes, attemptVars, ipVars, capVars, tokenVars, TypeOK, AttemptsOK
    <2> QED BY <2>1, <2>2, BeforeKept DEF RefusedForCause
  <1>5. ASSUME NEW a \in Attempts, Issue(a) PROVE RefusedForCause'
    <2>1. ASSUME NEW b \in Attempts, stage'[b] = "busy"
          PROVE  stage[b] = "busy" /\ stamp'[b] = stamp[b] /\ addr'[b] = addr[b] /\ checked'[b] = checked[b]
      BY <1>5, <2>1 DEF Issue, Goes, attemptVars, ipVars, capVars, tokenVars, TypeOK
    <2>2. \A b \in Attempts : checked[b] # 0 => checked'[b] = checked[b] /\ addr'[b] = addr[b]
      BY <1>5 DEF Issue, Goes, attemptVars, ipVars, capVars, tokenVars, TypeOK, AttemptsOK
    <2> QED BY <2>1, <2>2, BeforeKept DEF RefusedForCause
  <1>6. ASSUME NEW a \in Attempts, Record(a) PROVE RefusedForCause'
    <2>1. ASSUME NEW b \in Attempts, stage'[b] = "busy"
          PROVE  stage[b] = "busy" /\ stamp'[b] = stamp[b] /\ addr'[b] = addr[b] /\ checked'[b] = checked[b]
      BY <1>6, <2>1 DEF Record, Goes, attemptVars, ipVars, capVars, tokenVars, TypeOK
    <2>2. \A b \in Attempts : checked[b] # 0 => checked'[b] = checked[b] /\ addr'[b] = addr[b]
      BY <1>6 DEF Record, Goes, attemptVars, ipVars, capVars, tokenVars, TypeOK, AttemptsOK
    <2> QED BY <2>1, <2>2, BeforeKept DEF RefusedForCause
  <1>7. ASSUME NEW a \in Attempts, TimeOut(a) PROVE RefusedForCause'
    <2>1. ASSUME NEW b \in Attempts, stage'[b] = "busy"
          PROVE  stage[b] = "busy" /\ stamp'[b] = stamp[b] /\ addr'[b] = addr[b] /\ checked'[b] = checked[b]
      BY <1>7, <2>1 DEF TimeOut, Goes, attemptVars, ipVars, capVars, tokenVars, TypeOK
    <2>2. \A b \in Attempts : checked[b] # 0 => checked'[b] = checked[b] /\ addr'[b] = addr[b]
      BY <1>7 DEF TimeOut, Goes, attemptVars, ipVars, capVars, tokenVars, TypeOK, AttemptsOK
    <2> QED BY <2>1, <2>2, BeforeKept DEF RefusedForCause
  <1>8. ASSUME NEW a \in Attempts, Consume(a) PROVE RefusedForCause'
    <2>1. ASSUME NEW b \in Attempts, stage'[b] = "busy"
          PROVE  stage[b] = "busy" /\ stamp'[b] = stamp[b] /\ addr'[b] = addr[b] /\ checked'[b] = checked[b]
      BY <1>8, <2>1 DEF Consume, Goes, attemptVars, ipVars, capVars, tokenVars, TypeOK
    <2>2. \A b \in Attempts : checked[b] # 0 => checked'[b] = checked[b] /\ addr'[b] = addr[b]
      BY <1>8 DEF Consume, Goes, attemptVars, ipVars, capVars, tokenVars, TypeOK, AttemptsOK
    <2> QED BY <2>1, <2>2, BeforeKept DEF RefusedForCause
  <1>9. ASSUME NEW a \in Attempts, Fail(a) PROVE RefusedForCause'
    <2>1. ASSUME NEW b \in Attempts, stage'[b] = "busy"
          PROVE  stage[b] = "busy" /\ stamp'[b] = stamp[b] /\ addr'[b] = addr[b] /\ checked'[b] = checked[b]
      BY <1>9, <2>1 DEF Fail, Goes, attemptVars, ipVars, capVars, tokenVars, TypeOK
    <2>2. \A b \in Attempts : checked[b] # 0 => checked'[b] = checked[b] /\ addr'[b] = addr[b]
      BY <1>9 DEF Fail, Goes, attemptVars, ipVars, capVars, tokenVars, TypeOK, AttemptsOK
    <2> QED BY <2>1, <2>2, BeforeKept DEF RefusedForCause
  <1>10. ASSUME NEW a \in Attempts, NEW i \in Addresses, NEW k \in Keys, Begin(a, i, k) PROVE RefusedForCause'
    <2>1. ASSUME NEW b \in Attempts, stage'[b] = "busy"
          PROVE  stage[b] = "busy" /\ stamp'[b] = stamp[b] /\ addr'[b] = addr[b] /\ checked'[b] = checked[b]
      BY <1>10, <2>1 DEF Begin, Goes, attemptVars, ipVars, capVars, tokenVars, TypeOK
    <2>2. \A b \in Attempts : checked[b] # 0 => checked'[b] = checked[b] /\ addr'[b] = addr[b]
      BY <1>10 DEF Begin, Goes, attemptVars, ipVars, capVars, tokenVars, TypeOK, AttemptsOK
    <2> QED BY <2>1, <2>2, BeforeKept DEF RefusedForCause
  <1>11. CASE UNCHANGED vars
    <2>1. ASSUME NEW b \in Attempts, stage'[b] = "busy"
          PROVE  stage[b] = "busy" /\ stamp'[b] = stamp[b] /\ addr'[b] = addr[b] /\ checked'[b] = checked[b]
      BY <1>11, <2>1 DEF vars, attemptVars, ipVars, capVars, tokenVars, TypeOK
    <2>2. \A b \in Attempts : checked[b] # 0 => checked'[b] = checked[b] /\ addr'[b] = addr[b]
      BY <1>11 DEF vars, attemptVars, ipVars, capVars, tokenVars, TypeOK, AttemptsOK
    <2> QED BY <2>1, <2>2, BeforeKept DEF RefusedForCause
  <1> QED BY <1>1, <1>2, <1>3, <1>4, <1>5, <1>6, <1>7, <1>8, <1>9, <1>10, <1>11 DEF Next

LEMMA CountsStep == IInv /\ [Next]_vars => CountsOK' /\ GuessCap'
  <1> SUFFICES ASSUME IInv, [Next]_vars PROVE CountsOK' /\ GuessCap'
    OBVIOUS
  <1> USE LimitsAssumption DEF IInv
  <1>1. ASSUME Tick PROVE CountsOK' /\ GuessCap'
    <2>1. UNCHANGED <<count, countEnds, blockEnds, tokenEnds>> /\ now' \in Nat /\ now' >= now
      BY <1>1 DEF Tick, attemptVars, ipVars, capVars, tokenVars, TypeOK
    <2>2. \A b \in Attempts : tried[b] # 0 =>
             /\ tried'[b] = tried[b] /\ key'[b] = key[b]
             /\ stage[b] = "limited" => stage'[b] = "limited"
      BY <1>1 DEF Tick, attemptVars, ipVars, capVars, tokenVars, TypeOK, AttemptsOK
    <2>3. \A b \in Attempts : tried[b] = 0 /\ tried'[b] # 0 => stage'[b] = "limited"
      BY <1>1 DEF Tick, attemptVars, ipVars, capVars, tokenVars, TypeOK
    <2> QED BY <2>1, <2>2, <2>3, CountsKept
  <1>2. ASSUME NEW a \in Attempts, AddressCheck(a) PROVE CountsOK' /\ GuessCap'
    <2>1. UNCHANGED <<count, countEnds, blockEnds, tokenEnds>> /\ now' \in Nat /\ now' >= now
      BY <1>2 DEF AddressCheck, Goes, attemptVars, ipVars, capVars, tokenVars, TypeOK
    <2>2. \A b \in Attempts : tried[b] # 0 =>
             /\ tried'[b] = tried[b] /\ key'[b] = key[b]
             /\ stage[b] = "limited" => stage'[b] = "limited"
      BY <1>2 DEF AddressCheck, Goes, attemptVars, ipVars, capVars, tokenVars, TypeOK, AttemptsOK
    <2>3. \A b \in Attempts : tried[b] = 0 /\ tried'[b] # 0 => stage'[b] = "limited"
      BY <1>2 DEF AddressCheck, Goes, attemptVars, ipVars, capVars, tokenVars, TypeOK
    <2> QED BY <2>1, <2>2, <2>3, CountsKept
  <1>3. ASSUME NEW a \in Attempts, CapCheck(a) PROVE CountsOK' /\ GuessCap'
    <2>k. PICK k : k = key[a]
      OBVIOUS
    <2>n. PICK n : n = Counted(k)
      OBVIOUS
    <2>1. /\ k \in Keys /\ tried[a] = 0 /\ now \in Nat /\ now # 0 /\ n \in Nat
          /\ count[k] \in Nat /\ countEnds[k] \in Nat /\ blockEnds[k] \in Nat
      BY <1>3, <2>k, <2>n DEF CapCheck, AttemptsOK, Keys, TypeOK, Counted
    <2>2. /\ tried' = [tried EXCEPT ![a] = now] /\ UNCHANGED <<now, key, tokenEnds>>
          /\ count' = [count EXCEPT ![k] = n]
          /\ countEnds' = [countEnds EXCEPT ![k] = IF n = 1 THEN now + TokenTtl ELSE countEnds[k]]
          /\ \A b \in Attempts : b # a => stage'[b] = stage[b]
      BY <1>3, <2>k, <2>n DEF CapCheck, Goes, attemptVars, tokenVars, TypeOK
    <2>3. \/ n > TokenMax /\ blockEnds' = [blockEnds EXCEPT ![k] = now + TokenTtl] /\ stage'[a] = "limited"
          \/ n <= TokenMax /\ blockEnds' = blockEnds
      BY <1>3, <2>k, <2>n DEF CapCheck, Goes, TypeOK
    <2>4. (countEnds[k] = 0 <=> count[k] = 0) /\ countEnds[k] <= now + TokenTtl
      BY <2>1 DEF CountsOK
    <2>5. \/ n = 1 /\ countEnds'[k] = now + TokenTtl /\ ~Alive(countEnds[k])
          \/ n = count[k] + 1 /\ countEnds'[k] = countEnds[k] /\ Alive(countEnds[k])
      BY <2>n, <2>1, <2>2, <2>4 DEF Counted, Alive, TypeOK
    <2>6. countEnds'[k] \in Nat /\ now <= countEnds'[k] /\ countEnds'[k] <= now + TokenTtl /\ countEnds'[k] # 0
      BY <2>1, <2>4, <2>5 DEF Alive
    <2>7. /\ count'[k] = n /\ n # 0
          /\ \A j \in Keys : j # k => count'[j] = count[j] /\ countEnds'[j] = countEnds[j] /\ blockEnds'[j] = blockEnds[j]
      BY <2>1, <2>2, <2>3, <2>5 DEF TypeOK
    <2>8. ASSUME NEW t \in Int
          PROVE  /\ Since(k, t) \subseteq Since(k, t)' /\ a \notin Since(k, t)
                 /\ t <= now => Since(k, t)' = Since(k, t) \cup {a}
                 /\ Since(k, t)' \subseteq Attempts
                 /\ \A j \in Keys : j # k => Since(j, t)' = Since(j, t)
      BY <2>k, <2>1, <2>2 DEF Since, TypeOK
    <2>9. ASSUME NEW t \in Int
          PROVE  /\ Cardinality(Since(k, t)) \in Nat /\ Cardinality(Since(k, t)') \in Nat
                 /\ Cardinality(Since(k, t)) <= Cardinality(Since(k, t)')
                 /\ t <= now => Cardinality(Since(k, t)') = Cardinality(Since(k, t)) + 1
      <3>1. IsFiniteSet(Since(k, t)) /\ Since(k, t) \subseteq Attempts
        BY <2>8, SubsetCard DEF Since
      <3>2. Cardinality(Since(k, t) \cup {a}) = Cardinality(Since(k, t)) + 1
        BY <2>8, <3>1, FS_AddElement
      <3> QED BY <2>8, <3>1, <3>2, SubsetCard
    <2>s. PICK s : s = countEnds'[k] - TokenTtl
      OBVIOUS
    <2>10. s \in Int /\ s <= now /\ s >= now - TokenTtl
      BY <2>s, <2>1, <2>6
    <2>11. Cardinality(Since(k, s)') \in Nat /\ Cardinality(Since(k, s)') >= n
      <3>1. CASE n = 1
        BY <2>9, <2>10, <3>1
      <3>2. CASE n = count[k] + 1 /\ countEnds'[k] = countEnds[k] /\ Alive(countEnds[k])
        <4>1. Cardinality(Since(k, s)) >= count[k]
          BY <2>s, <2>1, <3>2 DEF CountsOK, Alive
        <4> QED BY <2>1, <2>9, <2>10, <3>2, <4>1
      <3> QED BY <2>5, <3>1, <3>2
    <2>12. blockEnds'[k] # 0 => Cardinality(Since(k, blockEnds[k] - 2 * TokenTtl)') > TokenMax
      <3>1. CASE n > TokenMax /\ blockEnds' = [blockEnds EXCEPT ![k] = now + TokenTtl]
        <4>t. PICK t : t = now - TokenTtl
          OBVIOUS
        <4>1. blockEnds'[k] - 2 * TokenTtl = t /\ t \in Int /\ t <= s
          BY <2>1, <2>10, <4>t, <3>1 DEF TypeOK
        <4>2. Since(k, s)' \subseteq Since(k, t)' /\ Since(k, t)' \subseteq Attempts
          <5>1. \A b \in Attempts : tried'[b] \in Nat
            BY <2>1, <2>2 DEF TypeOK
          <5> QED BY <2>10, <4>1, <5>1 DEF Since
        <4>3. Cardinality(Since(k, t)') \in Nat /\ Cardinality(Since(k, s)') <= Cardinality(Since(k, t)')
          BY <4>2, SubsetCard
        <4> QED BY <2>1, <2>11, <3>1, <4>1, <4>3
      <3>2. CASE blockEnds' = blockEnds
        <4>1. blockEnds[k] - 2 * TokenTtl \in Int
          BY <2>1
        <4>2. blockEnds[k] # 0 => Cardinality(Since(k, blockEnds[k] - 2 * TokenTtl)) > TokenMax
          BY <2>1 DEF CountsOK
        <4> QED BY <2>9, <3>2, <4>1, <4>2
      <3> QED BY <2>3, <3>1, <3>2
    <2>13. ASSUME NEW j \in Keys
           PROVE  /\ countEnds'[j] = 0 <=> count'[j] = 0
                  /\ countEnds'[j] <= now' + TokenTtl
                  /\ countEnds'[j] # 0 => Cardinality(Since(j, countEnds[j] - TokenTtl)') >= count'[j]
                  /\ blockEnds'[j] # 0 => Cardinality(Since(j, blockEnds[j] - 2 * TokenTtl)') > TokenMax
      <3>1. CASE j = k
        BY <2>s, <2>2, <2>6, <2>7, <2>11, <2>12, <3>1
      <3>2. CASE j # k
        <4>1. countEnds[j] - TokenTtl \in Int /\ blockEnds[j] - 2 * TokenTtl \in Int
          BY DEF TypeOK
        <4> QED BY <2>2, <2>7, <2>8, <3>2, <4>1 DEF CountsOK
      <3> QED BY <3>1, <3>2
    <2>14. ASSUME k \in Tokens
           PROVE  /\ tokenEnds[k] # 0 /\ tokenEnds[k] <= countEnds'[k]
                  /\ now <= tokenEnds[k] => Cardinality(Guesses(k)') <= n
                  /\ Cardinality(Guesses(k)') <= TokenMax
      <3>1. tokenEnds[k] # 0 /\ tokenEnds[k] \in Nat /\ tokenEnds[k] <= now + TokenTtl
        <4>1. kind[a] = "pair_request"
          BY <1>3, <2>k, <2>14 DEF CapCheck, AttemptsOK
        <4> QED BY <2>k, <2>14, <4>1 DEF TokensOK, TypeOK
      <3>2. tokenEnds[k] <= countEnds'[k]
        BY <2>1, <2>5, <2>14, <3>1 DEF CountsOK, Alive
      <3>3. /\ Guesses(k) \subseteq Attempts /\ a \notin Guesses(k) /\ Guesses(k)' \subseteq Guesses(k) \cup {a}
            /\ stage'[a] = "limited" \/ now > tokenEnds[k] => Guesses(k)' \subseteq Guesses(k)
        BY <2>k, <2>1, <2>2, <3>1 DEF Guesses, TypeOK
      <3>4. IsFiniteSet(Guesses(k)) /\ Cardinality(Guesses(k)) \in Nat
        BY <3>3, SubsetCard
      <3>5. Cardinality(Guesses(k) \cup {a}) = Cardinality(Guesses(k)) + 1
        BY <3>3, <3>4, FS_AddElement
      <3>6. Guesses(k) \cup {a} \subseteq Attempts
        BY <3>3
      <3>7. Cardinality(Guesses(k)') \in Nat /\ Cardinality(Guesses(k)') <= Cardinality(Guesses(k)) + 1
        BY <3>3, <3>5, <3>6, SubsetCard
      <3>8. stage'[a] = "limited" \/ now > tokenEnds[k] => Cardinality(Guesses(k)') <= Cardinality(Guesses(k))
        BY <3>3, SubsetCard
      <3>9. Cardinality(Guesses(k)) <= TokenMax /\ (now <= tokenEnds[k] => Cardinality(Guesses(k)) <= count[k])
        BY <2>14 DEF CountsOK, GuessCap
      <3>10. ASSUME now <= tokenEnds[k] PROVE Cardinality(Guesses(k)') <= n
        <4>1. Alive(countEnds[k]) \/ count[k] = 0
          BY <2>1, <2>4, <2>14, <3>1, <3>10 DEF CountsOK, Alive
        <4> QED BY <2>1, <2>5, <3>4, <3>7, <3>9, <3>10, <4>1
      <3>11. Cardinality(Guesses(k)') <= TokenMax
        BY <2>1, <2>3, <3>1, <3>4, <3>7, <3>8, <3>9, <3>10
      <3> QED BY <3>1, <3>2, <3>10, <3>11
    <2>15. ASSUME NEW j \in Tokens
           PROVE  /\ countEnds'[j] # 0 => tokenEnds'[j] # 0 /\ tokenEnds'[j] <= countEnds'[j]
                  /\ now' <= tokenEnds'[j] => Cardinality(Guesses(j)') <= count'[j]
                  /\ Cardinality(Guesses(j)') <= TokenMax
      <3>1. CASE j = k
        BY <2>2, <2>7, <2>14, <3>1
      <3>2. CASE j # k
        <4>1. Guesses(j)' = Guesses(j)
          BY <2>k, <2>1, <2>2, <3>2 DEF Guesses, TypeOK
        <4>2. j \in Keys
          BY DEF Keys
        <4> QED BY <2>2, <2>7, <3>2, <4>1, <4>2 DEF CountsOK, GuessCap
      <3> QED BY <3>1, <3>2
    <2>16. CountsOK'
      BY <2>13, <2>15 DEF CountsOK
    <2> QED BY <2>15, <2>16 DEF GuessCap
  <1>4. ASSUME NEW a \in Attempts, CapBlocked(a) PROVE CountsOK' /\ GuessCap'
    <2>1. UNCHANGED <<count, countEnds, blockEnds, tokenEnds>> /\ now' \in Nat /\ now' >= now
      BY <1>4 DEF CapBlocked, Goes, attemptVars, ipVars, capVars, tokenVars, TypeOK
    <2>2. \A b \in Attempts : tried[b] # 0 =>
             /\ tried'[b] = tried[b] /\ key'[b] = key[b]
             /\ stage[b] = "limited" => stage'[b] = "limited"
      BY <1>4 DEF CapBlocked, Goes, attemptVars, ipVars, capVars, tokenVars, TypeOK, AttemptsOK
    <2>3. \A b \in Attempts : tried[b] = 0 /\ tried'[b] # 0 => stage'[b] = "limited"
      BY <1>4 DEF CapBlocked, Goes, attemptVars, ipVars, capVars, tokenVars, TypeOK
    <2> QED BY <2>1, <2>2, <2>3, CountsKept
  <1>5. ASSUME NEW a \in Attempts, Issue(a) PROVE CountsOK' /\ GuessCap'
    <2>k. PICK k : k = key[a]
      OBVIOUS
    <2>1. /\ k \in Tokens /\ kind[a] = "pair_init" /\ tokenEnds[k] = 0
          /\ UNCHANGED <<now, kind, key, count, countEnds, blockEnds, tried>>
      BY <1>5, <2>k DEF Issue, AttemptsOK, TokensOK, attemptVars, capVars
    <2>2. \A b \in Attempts : b # a => stage'[b] = stage[b]
      BY <1>5, <2>k DEF Issue, Goes, TypeOK
    <2>3. tokenEnds' = tokenEnds \/ tokenEnds' = [tokenEnds EXCEPT ![k] = now + TokenTtl]
      BY <1>5, <2>k DEF Issue, tokenVars
    <2>4. tried[a] = 0
      BY <2>1 DEF AttemptsOK
    <2>5. \A b \in Attempts : key[b] = k => tried[b] = 0
      BY <2>k, <2>1 DEF TokensOK, AttemptsOK
    <2>6. Guesses(k)' = {}
      BY <2>1, <2>5 DEF Guesses
    <2>7. ASSUME NEW j \in Tokens, j # k PROVE Guesses(j)' = Guesses(j) /\ tokenEnds'[j] = tokenEnds[j]
      BY <2>k, <2>1, <2>2, <2>3, <2>4, <2>7 DEF Guesses, TypeOK
    <2>8. Cardinality(Guesses(k)') = 0
      BY <2>6, FS_EmptySet
    <2>9. \A j \in Keys, t \in Int : Since(j, t)' = Since(j, t)
      BY <2>1 DEF Since
    <2>10. countEnds[k] = 0 /\ k \in Keys
      BY <2>1 DEF CountsOK, Keys
    <2>11. \A j \in Keys : countEnds[j] - TokenTtl \in Int /\ blockEnds[j] - 2 * TokenTtl \in Int /\ count[j] \in Nat
      BY DEF TypeOK
    <2>12. ASSUME NEW j \in Keys
           PROVE  /\ countEnds'[j] = 0 <=> count'[j] = 0
                  /\ countEnds'[j] <= now' + TokenTtl
                  /\ countEnds'[j] # 0 => Cardinality(Since(j, countEnds[j] - TokenTtl)') >= count'[j]
                  /\ blockEnds'[j] # 0 => Cardinality(Since(j, blockEnds[j] - 2 * TokenTtl)') > TokenMax
      BY <2>1, <2>9, <2>11 DEF CountsOK
    <2>13. ASSUME NEW j \in Tokens
           PROVE  /\ countEnds'[j] # 0 => tokenEnds'[j] # 0 /\ tokenEnds'[j] <= countEnds'[j]
                  /\ now' <= tokenEnds'[j] => Cardinality(Guesses(j)') <= count'[j]
                  /\ Cardinality(Guesses(j)') <= TokenMax
      <3>1. CASE j = k
        BY <2>1, <2>8, <2>10, <2>11, <3>1
      <3>2. CASE j # k
        BY <2>1, <2>7, <3>2 DEF CountsOK, GuessCap
      <3> QED BY <3>1, <3>2
    <2>14. CountsOK'
      BY <2>12, <2>13 DEF CountsOK
    <2> QED BY <2>13, <2>14 DEF GuessCap
  <1>6. ASSUME NEW a \in Attempts, Record(a) PROVE CountsOK' /\ GuessCap'
    <2>1. UNCHANGED <<count, countEnds, blockEnds, tokenEnds>> /\ now' \in Nat /\ now' >= now
      BY <1>6 DEF Record, Goes, attemptVars, ipVars, capVars, tokenVars, TypeOK
    <2>2. \A b \in Attempts : tried[b] # 0 =>
             /\ tried'[b] = tried[b] /\ key'[b] = key[b]
             /\ stage[b] = "limited" => stage'[b] = "limited"
      BY <1>6 DEF Record, Goes, attemptVars, ipVars, capVars, tokenVars, TypeOK, AttemptsOK
    <2>3. \A b \in Attempts : tried[b] = 0 /\ tried'[b] # 0 => stage'[b] = "limited"
      BY <1>6 DEF Record, Goes, attemptVars, ipVars, capVars, tokenVars, TypeOK
    <2> QED BY <2>1, <2>2, <2>3, CountsKept
  <1>7. ASSUME NEW a \in Attempts, TimeOut(a) PROVE CountsOK' /\ GuessCap'
    <2>1. UNCHANGED <<count, countEnds, blockEnds, tokenEnds>> /\ now' \in Nat /\ now' >= now
      BY <1>7 DEF TimeOut, Goes, attemptVars, ipVars, capVars, tokenVars, TypeOK
    <2>2. \A b \in Attempts : tried[b] # 0 =>
             /\ tried'[b] = tried[b] /\ key'[b] = key[b]
             /\ stage[b] = "limited" => stage'[b] = "limited"
      BY <1>7 DEF TimeOut, Goes, attemptVars, ipVars, capVars, tokenVars, TypeOK, AttemptsOK
    <2>3. \A b \in Attempts : tried[b] = 0 /\ tried'[b] # 0 => stage'[b] = "limited"
      BY <1>7 DEF TimeOut, Goes, attemptVars, ipVars, capVars, tokenVars, TypeOK
    <2> QED BY <2>1, <2>2, <2>3, CountsKept
  <1>8. ASSUME NEW a \in Attempts, Consume(a) PROVE CountsOK' /\ GuessCap'
    <2>1. UNCHANGED <<count, countEnds, blockEnds, tokenEnds>> /\ now' \in Nat /\ now' >= now
      BY <1>8 DEF Consume, Goes, attemptVars, ipVars, capVars, tokenVars, TypeOK
    <2>2. \A b \in Attempts : tried[b] # 0 =>
             /\ tried'[b] = tried[b] /\ key'[b] = key[b]
             /\ stage[b] = "limited" => stage'[b] = "limited"
      BY <1>8 DEF Consume, Goes, attemptVars, ipVars, capVars, tokenVars, TypeOK, AttemptsOK
    <2>3. \A b \in Attempts : tried[b] = 0 /\ tried'[b] # 0 => stage'[b] = "limited"
      BY <1>8 DEF Consume, Goes, attemptVars, ipVars, capVars, tokenVars, TypeOK
    <2> QED BY <2>1, <2>2, <2>3, CountsKept
  <1>9. ASSUME NEW a \in Attempts, Fail(a) PROVE CountsOK' /\ GuessCap'
    <2>1. UNCHANGED <<count, countEnds, blockEnds, tokenEnds>> /\ now' \in Nat /\ now' >= now
      BY <1>9 DEF Fail, Goes, attemptVars, ipVars, capVars, tokenVars, TypeOK
    <2>2. \A b \in Attempts : tried[b] # 0 =>
             /\ tried'[b] = tried[b] /\ key'[b] = key[b]
             /\ stage[b] = "limited" => stage'[b] = "limited"
      BY <1>9 DEF Fail, Goes, attemptVars, ipVars, capVars, tokenVars, TypeOK, AttemptsOK
    <2>3. \A b \in Attempts : tried[b] = 0 /\ tried'[b] # 0 => stage'[b] = "limited"
      BY <1>9 DEF Fail, Goes, attemptVars, ipVars, capVars, tokenVars, TypeOK
    <2> QED BY <2>1, <2>2, <2>3, CountsKept
  <1>10. ASSUME NEW a \in Attempts, NEW i \in Addresses, NEW k \in Keys, Begin(a, i, k) PROVE CountsOK' /\ GuessCap'
    <2>1. UNCHANGED <<count, countEnds, blockEnds, tokenEnds>> /\ now' \in Nat /\ now' >= now
      BY <1>10 DEF Begin, Goes, attemptVars, ipVars, capVars, tokenVars, TypeOK
    <2>2. \A b \in Attempts : tried[b] # 0 =>
             /\ tried'[b] = tried[b] /\ key'[b] = key[b]
             /\ stage[b] = "limited" => stage'[b] = "limited"
      BY <1>10 DEF Begin, Goes, attemptVars, ipVars, capVars, tokenVars, TypeOK, AttemptsOK
    <2>3. \A b \in Attempts : tried[b] = 0 /\ tried'[b] # 0 => stage'[b] = "limited"
      BY <1>10 DEF Begin, Goes, attemptVars, ipVars, capVars, tokenVars, TypeOK
    <2> QED BY <2>1, <2>2, <2>3, CountsKept
  <1>11. CASE UNCHANGED vars
    <2>1. UNCHANGED <<count, countEnds, blockEnds, tokenEnds>> /\ now' \in Nat /\ now' >= now
      BY <1>11 DEF vars, attemptVars, ipVars, capVars, tokenVars, TypeOK
    <2>2. \A b \in Attempts : tried[b] # 0 =>
             /\ tried'[b] = tried[b] /\ key'[b] = key[b]
             /\ stage[b] = "limited" => stage'[b] = "limited"
      BY <1>11 DEF vars, attemptVars, ipVars, capVars, tokenVars, TypeOK, AttemptsOK
    <2>3. \A b \in Attempts : tried[b] = 0 /\ tried'[b] # 0 => stage'[b] = "limited"
      BY <1>11 DEF vars, attemptVars, ipVars, capVars, tokenVars, TypeOK
    <2> QED BY <2>1, <2>2, <2>3, CountsKept
  <1> QED BY <1>1, <1>2, <1>3, <1>4, <1>5, <1>6, <1>7, <1>8, <1>9, <1>10, <1>11 DEF Next

LEMMA LimitedStep == IInv /\ [Next]_vars => LimitedForCause'
  <1> SUFFICES ASSUME IInv, [Next]_vars PROVE LimitedForCause'
    OBVIOUS
  <1> USE LimitsAssumption DEF IInv
  <1>1. ASSUME Tick PROVE LimitedForCause'
    <2>1. ASSUME NEW b \in Attempts, stage'[b] = "limited"
          PROVE  stage[b] = "limited" /\ tried'[b] = tried[b] /\ key'[b] = key[b]
      BY <1>1, <2>1 DEF Tick, attemptVars, ipVars, capVars, tokenVars, TypeOK
    <2>2. \A b \in Attempts : tried[b] # 0 => tried'[b] = tried[b] /\ key'[b] = key[b]
      BY <1>1 DEF Tick, attemptVars, ipVars, capVars, tokenVars, TypeOK, AttemptsOK
    <2>3. ASSUME NEW b \in Attempts, stage'[b] = "limited"
          PROVE  Cardinality({c \in Since(key[b], tried[b] - 2 * TokenTtl)' : tried'[c] <= tried'[b]}) > TokenMax
      BY <2>1, <2>2, <2>3, CauseKept
    <2> QED BY <2>3 DEF LimitedForCause
  <1>2. ASSUME NEW a \in Attempts, AddressCheck(a) PROVE LimitedForCause'
    <2>1. ASSUME NEW b \in Attempts, stage'[b] = "limited"
          PROVE  stage[b] = "limited" /\ tried'[b] = tried[b] /\ key'[b] = key[b]
      BY <1>2, <2>1 DEF AddressCheck, Goes, attemptVars, ipVars, capVars, tokenVars, TypeOK
    <2>2. \A b \in Attempts : tried[b] # 0 => tried'[b] = tried[b] /\ key'[b] = key[b]
      BY <1>2 DEF AddressCheck, Goes, attemptVars, ipVars, capVars, tokenVars, TypeOK, AttemptsOK
    <2>3. ASSUME NEW b \in Attempts, stage'[b] = "limited"
          PROVE  Cardinality({c \in Since(key[b], tried[b] - 2 * TokenTtl)' : tried'[c] <= tried'[b]}) > TokenMax
      BY <2>1, <2>2, <2>3, CauseKept
    <2> QED BY <2>3 DEF LimitedForCause
  <1>3. ASSUME NEW a \in Attempts, CapCheck(a) PROVE LimitedForCause'
    <2>1. /\ tried' = [tried EXCEPT ![a] = now] /\ UNCHANGED <<now, key>> /\ tried[a] = 0
          /\ stage[a] # "limited" /\ key[a] \in Keys /\ now \in Nat /\ now # 0
      BY <1>3 DEF CapCheck, attemptVars, AttemptsOK, Keys, TypeOK
    <2>2. \A b \in Attempts : tried[b] # 0 => tried'[b] = tried[b] /\ key'[b] = key[b]
      BY <2>1 DEF TypeOK
    <2>3. ASSUME NEW b \in Attempts, b # a, stage'[b] = "limited"
          PROVE  Cardinality({c \in Since(key[b], tried[b] - 2 * TokenTtl)' : tried'[c] <= tried'[b]}) > TokenMax
      <3>1. stage[b] = "limited" /\ tried'[b] = tried[b] /\ key'[b] = key[b]
        BY <1>3, <2>1, <2>3 DEF CapCheck, Goes, TypeOK
      <3> QED BY <2>2, <3>1, CauseKept
    <2>4. ASSUME stage'[a] = "limited"
          PROVE  Cardinality({c \in Since(key[a], tried[a] - 2 * TokenTtl)' : tried'[c] <= tried'[a]}) > TokenMax
      <3> DEFINE s == Since(key[a], blockEnds[key[a]] - 2 * TokenTtl)'
      <3> DEFINE t == {c \in Since(key[a], tried[a] - 2 * TokenTtl)' : tried'[c] <= tried'[a]}
      <3>1. blockEnds'[key[a]] # 0 /\ now <= blockEnds'[key[a]] /\ blockEnds'[key[a]] \in Nat
        BY <1>3, <2>1, <2>4 DEF CapCheck, Goes, Alive, TypeOK
      <3>2. Cardinality(s) > TokenMax
        BY <2>1, <3>1, CountsStep DEF CountsOK
      <3>3. \A c \in Attempts : tried'[c] \in Nat /\ tried'[c] <= now
        BY <2>1, TypeStep, AttemptsStep DEF TypeOK, AttemptsOK
      <3>4. tried'[a] = now
        BY <2>1 DEF TypeOK
      <3>5. s \subseteq t /\ t \subseteq Attempts
        BY <2>1, <3>1, <3>3, <3>4 DEF Since
      <3>6. Cardinality(s) \in Nat /\ Cardinality(t) \in Nat /\ Cardinality(s) <= Cardinality(t)
        BY <3>5, SubsetCard
      <3> HIDE DEF s, t
      <3>7. Cardinality(t) > TokenMax
        BY <3>2, <3>6
      <3> QED BY <3>7 DEF t
    <2> QED BY <2>3, <2>4 DEF LimitedForCause
  <1>4. ASSUME NEW a \in Attempts, CapBlocked(a) PROVE LimitedForCause'
    <2>1. /\ tried' = [tried EXCEPT ![a] = now] /\ UNCHANGED <<now, key>> /\ tried[a] = 0
          /\ stage[a] # "limited" /\ key[a] \in Keys /\ now \in Nat /\ now # 0
      BY <1>4 DEF CapBlocked, attemptVars, AttemptsOK, Keys, TypeOK
    <2>2. \A b \in Attempts : tried[b] # 0 => tried'[b] = tried[b] /\ key'[b] = key[b]
      BY <2>1 DEF TypeOK
    <2>3. ASSUME NEW b \in Attempts, b # a, stage'[b] = "limited"
          PROVE  Cardinality({c \in Since(key[b], tried[b] - 2 * TokenTtl)' : tried'[c] <= tried'[b]}) > TokenMax
      <3>1. stage[b] = "limited" /\ tried'[b] = tried[b] /\ key'[b] = key[b]
        BY <1>4, <2>1, <2>3 DEF CapBlocked, Goes, TypeOK
      <3> QED BY <2>2, <3>1, CauseKept
    <2>4. ASSUME stage'[a] = "limited"
          PROVE  Cardinality({c \in Since(key[a], tried[a] - 2 * TokenTtl)' : tried'[c] <= tried'[a]}) > TokenMax
      <3> DEFINE s == Since(key[a], blockEnds[key[a]] - 2 * TokenTtl)'
      <3> DEFINE t == {c \in Since(key[a], tried[a] - 2 * TokenTtl)' : tried'[c] <= tried'[a]}
      <3>1. blockEnds'[key[a]] # 0 /\ now <= blockEnds'[key[a]] /\ blockEnds'[key[a]] \in Nat
        BY <1>4, <2>1, <2>4 DEF CapBlocked, Goes, Alive, TypeOK
      <3>2. Cardinality(s) > TokenMax
        BY <2>1, <3>1, CountsStep DEF CountsOK
      <3>3. \A c \in Attempts : tried'[c] \in Nat /\ tried'[c] <= now
        BY <2>1, TypeStep, AttemptsStep DEF TypeOK, AttemptsOK
      <3>4. tried'[a] = now
        BY <2>1 DEF TypeOK
      <3>5. s \subseteq t /\ t \subseteq Attempts
        BY <2>1, <3>1, <3>3, <3>4 DEF Since
      <3>6. Cardinality(s) \in Nat /\ Cardinality(t) \in Nat /\ Cardinality(s) <= Cardinality(t)
        BY <3>5, SubsetCard
      <3> HIDE DEF s, t
      <3>7. Cardinality(t) > TokenMax
        BY <3>2, <3>6
      <3> QED BY <3>7 DEF t
    <2> QED BY <2>3, <2>4 DEF LimitedForCause
  <1>5. ASSUME NEW a \in Attempts, Issue(a) PROVE LimitedForCause'
    <2>1. ASSUME NEW b \in Attempts, stage'[b] = "limited"
          PROVE  stage[b] = "limited" /\ tried'[b] = tried[b] /\ key'[b] = key[b]
      BY <1>5, <2>1 DEF Issue, Goes, attemptVars, ipVars, capVars, tokenVars, TypeOK
    <2>2. \A b \in Attempts : tried[b] # 0 => tried'[b] = tried[b] /\ key'[b] = key[b]
      BY <1>5 DEF Issue, Goes, attemptVars, ipVars, capVars, tokenVars, TypeOK, AttemptsOK
    <2>3. ASSUME NEW b \in Attempts, stage'[b] = "limited"
          PROVE  Cardinality({c \in Since(key[b], tried[b] - 2 * TokenTtl)' : tried'[c] <= tried'[b]}) > TokenMax
      BY <2>1, <2>2, <2>3, CauseKept
    <2> QED BY <2>3 DEF LimitedForCause
  <1>6. ASSUME NEW a \in Attempts, Record(a) PROVE LimitedForCause'
    <2>1. ASSUME NEW b \in Attempts, stage'[b] = "limited"
          PROVE  stage[b] = "limited" /\ tried'[b] = tried[b] /\ key'[b] = key[b]
      BY <1>6, <2>1 DEF Record, Goes, attemptVars, ipVars, capVars, tokenVars, TypeOK
    <2>2. \A b \in Attempts : tried[b] # 0 => tried'[b] = tried[b] /\ key'[b] = key[b]
      BY <1>6 DEF Record, Goes, attemptVars, ipVars, capVars, tokenVars, TypeOK, AttemptsOK
    <2>3. ASSUME NEW b \in Attempts, stage'[b] = "limited"
          PROVE  Cardinality({c \in Since(key[b], tried[b] - 2 * TokenTtl)' : tried'[c] <= tried'[b]}) > TokenMax
      BY <2>1, <2>2, <2>3, CauseKept
    <2> QED BY <2>3 DEF LimitedForCause
  <1>7. ASSUME NEW a \in Attempts, TimeOut(a) PROVE LimitedForCause'
    <2>1. ASSUME NEW b \in Attempts, stage'[b] = "limited"
          PROVE  stage[b] = "limited" /\ tried'[b] = tried[b] /\ key'[b] = key[b]
      BY <1>7, <2>1 DEF TimeOut, Goes, attemptVars, ipVars, capVars, tokenVars, TypeOK
    <2>2. \A b \in Attempts : tried[b] # 0 => tried'[b] = tried[b] /\ key'[b] = key[b]
      BY <1>7 DEF TimeOut, Goes, attemptVars, ipVars, capVars, tokenVars, TypeOK, AttemptsOK
    <2>3. ASSUME NEW b \in Attempts, stage'[b] = "limited"
          PROVE  Cardinality({c \in Since(key[b], tried[b] - 2 * TokenTtl)' : tried'[c] <= tried'[b]}) > TokenMax
      BY <2>1, <2>2, <2>3, CauseKept
    <2> QED BY <2>3 DEF LimitedForCause
  <1>8. ASSUME NEW a \in Attempts, Consume(a) PROVE LimitedForCause'
    <2>1. ASSUME NEW b \in Attempts, stage'[b] = "limited"
          PROVE  stage[b] = "limited" /\ tried'[b] = tried[b] /\ key'[b] = key[b]
      BY <1>8, <2>1 DEF Consume, Goes, attemptVars, ipVars, capVars, tokenVars, TypeOK
    <2>2. \A b \in Attempts : tried[b] # 0 => tried'[b] = tried[b] /\ key'[b] = key[b]
      BY <1>8 DEF Consume, Goes, attemptVars, ipVars, capVars, tokenVars, TypeOK, AttemptsOK
    <2>3. ASSUME NEW b \in Attempts, stage'[b] = "limited"
          PROVE  Cardinality({c \in Since(key[b], tried[b] - 2 * TokenTtl)' : tried'[c] <= tried'[b]}) > TokenMax
      BY <2>1, <2>2, <2>3, CauseKept
    <2> QED BY <2>3 DEF LimitedForCause
  <1>9. ASSUME NEW a \in Attempts, Fail(a) PROVE LimitedForCause'
    <2>1. ASSUME NEW b \in Attempts, stage'[b] = "limited"
          PROVE  stage[b] = "limited" /\ tried'[b] = tried[b] /\ key'[b] = key[b]
      BY <1>9, <2>1 DEF Fail, Goes, attemptVars, ipVars, capVars, tokenVars, TypeOK
    <2>2. \A b \in Attempts : tried[b] # 0 => tried'[b] = tried[b] /\ key'[b] = key[b]
      BY <1>9 DEF Fail, Goes, attemptVars, ipVars, capVars, tokenVars, TypeOK, AttemptsOK
    <2>3. ASSUME NEW b \in Attempts, stage'[b] = "limited"
          PROVE  Cardinality({c \in Since(key[b], tried[b] - 2 * TokenTtl)' : tried'[c] <= tried'[b]}) > TokenMax
      BY <2>1, <2>2, <2>3, CauseKept
    <2> QED BY <2>3 DEF LimitedForCause
  <1>10. ASSUME NEW a \in Attempts, NEW i \in Addresses, NEW k \in Keys, Begin(a, i, k) PROVE LimitedForCause'
    <2>1. ASSUME NEW b \in Attempts, stage'[b] = "limited"
          PROVE  stage[b] = "limited" /\ tried'[b] = tried[b] /\ key'[b] = key[b]
      BY <1>10, <2>1 DEF Begin, Goes, attemptVars, ipVars, capVars, tokenVars, TypeOK
    <2>2. \A b \in Attempts : tried[b] # 0 => tried'[b] = tried[b] /\ key'[b] = key[b]
      BY <1>10 DEF Begin, Goes, attemptVars, ipVars, capVars, tokenVars, TypeOK, AttemptsOK
    <2>3. ASSUME NEW b \in Attempts, stage'[b] = "limited"
          PROVE  Cardinality({c \in Since(key[b], tried[b] - 2 * TokenTtl)' : tried'[c] <= tried'[b]}) > TokenMax
      BY <2>1, <2>2, <2>3, CauseKept
    <2> QED BY <2>3 DEF LimitedForCause
  <1>11. CASE UNCHANGED vars
    <2>1. ASSUME NEW b \in Attempts, stage'[b] = "limited"
          PROVE  stage[b] = "limited" /\ tried'[b] = tried[b] /\ key'[b] = key[b]
      BY <1>11, <2>1 DEF vars, attemptVars, ipVars, capVars, tokenVars, TypeOK
    <2>2. \A b \in Attempts : tried[b] # 0 => tried'[b] = tried[b] /\ key'[b] = key[b]
      BY <1>11 DEF vars, attemptVars, ipVars, capVars, tokenVars, TypeOK, AttemptsOK
    <2>3. ASSUME NEW b \in Attempts, stage'[b] = "limited"
          PROVE  Cardinality({c \in Since(key[b], tried[b] - 2 * TokenTtl)' : tried'[c] <= tried'[b]}) > TokenMax
      BY <2>1, <2>2, <2>3, CauseKept
    <2> QED BY <2>3 DEF LimitedForCause
  <1> QED BY <1>1, <1>2, <1>3, <1>4, <1>5, <1>6, <1>7, <1>8, <1>9, <1>10, <1>11 DEF Next

LEMMA Initially == Init => IInv
  <1> SUFFICES ASSUME Init PROVE IInv
    OBVIOUS
  <1> USE LimitsAssumption
  <1>1. TypeOK
    BY DEF Init, TypeOK, Stages
  <1>2. AttemptsOK /\ TokensOK /\ WindowOK /\ RefusedForCause /\ LimitedForCause
    BY DEF Init, AttemptsOK, TokensOK, WindowOK, RefusedForCause, LimitedForCause, Kinds, Keys
  <1>3. \A i \in Addresses : Recent(i) = {}
    BY DEF Init, Recent
  <1>4. \A k \in Tokens : Guesses(k) = {}
    BY DEF Init, Guesses
  <1>5. WindowCap /\ GuessCap
    BY <1>3, <1>4, FS_EmptySet DEF WindowCap, GuessCap
  <1>6. CountsOK
    BY <1>4, FS_EmptySet DEF Init, CountsOK, Keys
  <1> QED BY <1>1, <1>2, <1>5, <1>6 DEF IInv

LEMMA Inductive == Spec => []IInv
  <1>1. IInv /\ [Next]_vars => IInv'
    BY TypeStep, AttemptsStep, TokensStep, WindowStep, BusyStep, CountsStep, LimitedStep DEF IInv
  <1> QED BY <1>1, Initially, PTL DEF Spec

\* The variables keep their types.
THEOREM TypeCorrect == Spec => []TypeOK
  <1>1. IInv => TypeOK
    BY DEF IInv
  <1> QED BY <1>1, Inductive, PTL

\* No address gets more than IpMax attempts through _IP_WINDOW_SCRIPT in any
\* Window - MaxDelay, in whatever order the scripts of overlapping attempts run.
THEOREM WindowCapped == Spec => []WindowCap
  <1>1. IInv => WindowCap
    BY DEF IInv
  <1> QED BY <1>1, Inductive, PTL

\* An address is refused only for IpMax other attempts within the window.
THEOREM RefusalsAreCaused == Spec => []RefusedForCause
  <1>1. IInv => RefusedForCause
    BY DEF IInv
  <1> QED BY <1>1, Inductive, PTL

\* At most TokenMax attempts on a living token get past _TOKEN_ATTEMPT_SCRIPT.
THEOREM GuessesCapped == Spec => []GuessCap
  <1>1. IInv => GuessCap
    BY DEF IInv
  <1> QED BY <1>1, Inductive, PTL

\* A token or device is blocked only for more than TokenMax attempts within twice
\* the time to live.
THEOREM BlocksAreCaused == Spec => []LimitedForCause
  <1>1. IInv => LimitedForCause
    BY DEF IInv
  <1> QED BY <1>1, Inductive, PTL

\* A token is consumed once (_CONSUME_SCRIPT), whatever attempts race for it.
THEOREM TokensAreUsedOnce == Spec => []SingleUse
  <1>1. IInv => SingleUse
    <2> SUFFICES ASSUME IInv, NEW k \in Tokens
                 PROVE  Cardinality({a \in Attempts : key[a] = k /\ stage[a] = "paired"}) <= 1
      BY DEF SingleUse
    <2> DEFINE s == {a \in Attempts : key[a] = k /\ stage[a] = "paired"}
    <2>1. \A a, b \in s : a = b
      BY DEF IInv, TokensOK
    <2>2. CASE s = {}
      BY <2>2, FS_EmptySet
    <2>3. CASE s # {}
      <3>1. PICK a \in s : TRUE
        BY <2>3
      <3>2. s = {a}
        BY <2>1, <3>1
      <3> QED BY <3>2, FS_Singleton
    <2> QED BY <2>2, <2>3
  <1> QED BY <1>1, Inductive, PTL

\* The deadline that handle_pair_init gives an agent is never before the end of
\* its token.
THEOREM DeadlineOutlivesToken == Spec => []AgentOutlivesToken
  <1>1. IInv => AgentOutlivesToken
    BY DEF IInv, TypeOK, AttemptsOK, TokensOK, AgentOutlivesToken, Alive
  <1> QED BY <1>1, Inductive, PTL

=============================================================================
