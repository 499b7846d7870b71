----------------------------- MODULE RateLimit -----------------------------
(***************************************************************************)
(* The relay's two pairing limiters and the token they protect, all kept   *)
(* in Redis by scripts that run one at a time: a window of attempts per    *)
(* address, a count and a block per token (or per device, for a resume).   *)
(* An attempt is one pair_init, pair_request or resume_request: it reads   *)
(* the clock, awaits the address script, then awaits the others; attempts  *)
(* overlap, and their scripts may run in another order than their stamps.  *)
(* The routing that follows an admitted attempt is in Relay.               *)
(***************************************************************************)
EXTENDS Integers, FiniteSets

CONSTANTS
    Attempts,       \* the calls of the three handlers
    Addresses,      \* peer_ip
    Tokens,         \* pairing tokens: an agent draws a fresh one per pair_init
    Devices,        \* device ids
    None,
    Window,         \* rate_limit_ip_window_s
    IpMax,          \* rate_limit_ip_max
    TokenTtl,       \* pairing_token_ttl_s
    TokenMax,       \* rate_limit_token_max
    MaxDelay,       \* bound: how late after its stamp an address script runs
    MaxTime         \* bound: where the clock stops

Keys   == Tokens \cup Devices
Kinds  == {"pair_init", "pair_request", "resume_request"}

ASSUME LimitsAssumption ==
    /\ IsFiniteSet(Attempts) /\ Tokens \cap Devices = {}
    /\ None \notin Keys \cup Addresses \cup Kinds
    /\ Window \in Nat /\ IpMax \in Nat \ {0}
    /\ TokenTtl \in Nat \ {0} /\ TokenMax \in Nat \ {0}
    /\ MaxDelay \in Nat /\ MaxDelay < Window /\ MaxTime \in Nat \ {0}

VARIABLES
    now,            \* the time; the relay and Redis agree on it
    stage,          \* what each attempt awaits, or how it ended
    kind, addr, key,    \* what each attempt is, where from, for which token or device
    stamp,          \* its now_ms
    window,         \* relay:rl:ip:*, the attempts in it (their scores are their stamps)
    windowEnds,     \* when that key expires; 0 without one
    count, countEnds,   \* relay:rl:token:*
    blockEnds,      \* relay:rl:token_blocked:*
    token, tokenEnds,   \* relay:token:*, its state
    deadline,       \* handshake_deadline of an agent that waits to be scanned
    checked,        \* history: when the address script ran for an attempt, or 0
    tried           \* history: when the token script did, or 0

attemptVars == <<kind, addr, key, stamp>>
ipVars      == <<window, windowEnds, checked>>
capVars     == <<count, countEnds, blockEnds, tried>>
tokenVars   == <<token, tokenEnds, deadline>>
vars == <<now, stage, attemptVars, ipVars, capVars, tokenVars>>

Stages == {"idle", "address", "cap", "issue", "record", "consume",
           "busy", "limited", "acked", "left", "paired", "missed", "resumed", "failed"}

\* A key with an expiry is there until that time has passed
Alive(ends) == ends # 0 /\ now <= ends

Goes(a, s) == stage' = [stage EXCEPT ![a] = s]

Init ==
    /\ now = 1
    /\ stage = [a \in Attempts |-> "idle"]
    /\ kind = [a \in Attempts |-> None] /\ addr = [a \in Attempts |-> None]
    /\ key = [a \in Attempts |-> None] /\ stamp = [a \in Attempts |-> 0]
    /\ window = [i \in Addresses |-> {}] /\ windowEnds = [i \in Addresses |-> 0]
    /\ count = [k \in Keys |-> 0] /\ countEnds = [k \in Keys |-> 0]
    /\ blockEnds = [k \in Keys |-> 0]
    /\ token = [k \in Tokens |-> "absent"] /\ tokenEnds = [k \in Tokens |-> 0]
    /\ deadline = [a \in Attempts |-> 0]
    /\ checked = [a \in Attempts |-> 0] /\ tried = [a \in Attempts |-> 0]

\* The handler is called and sends the address script with the time it read.
\* A token is drawn once, and used by clients once it has been issued.
Begin(a, i, k) ==
    /\ stage[a] = "idle"
    /\ \/ /\ k \in Tokens /\ \A b \in Attempts : key[b] # k
          /\ kind' = [kind EXCEPT ![a] = "pair_init"]
       \/ /\ k \in Tokens /\ tokenEnds[k] # 0
          /\ kind' = [kind EXCEPT ![a] = "pair_request"]
       \/ /\ k \in Devices
          /\ kind' = [kind EXCEPT ![a] = "resume_request"]
    /\ addr' = [addr EXCEPT ![a] = i] /\ key' = [key EXCEPT ![a] = k]
    /\ stamp' = [stamp EXCEPT ![a] = now]
    /\ Goes(a, "address")
    /\ UNCHANGED <<now, ipVars, capVars, tokenVars>>

\* Mutant: old attempts are never taken out of the window
NeverSlides(a) == IF Alive(windowEnds[addr[a]]) THEN window[addr[a]] \cup {a} ELSE {a}

\* Mutant: an attempt takes out everything older than itself
OnlyTheNewest(a) == {b \in window[addr[a]] : stamp[b] > stamp[a]} \cup {a}

\* What the address script leaves in the window: ZREMRANGEBYSCORE, then ZADD
Seen(a) ==
    {b \in window[addr[a]] : Alive(windowEnds[addr[a]]) /\ stamp[b] > stamp[a] - Window} \cup {a}

\* Mutant: EXPIRE is given milliseconds
ExpireInMs(a) ==
    /\ stage[a] = "address"
    /\ window' = [window EXCEPT ![addr[a]] = Seen(a)]
    /\ windowEnds' = [windowEnds EXCEPT ![addr[a]] = now + 1000 * Window + 1]
    /\ checked' = [checked EXCEPT ![a] = now]
    /\ \/ Cardinality(Seen(a)) > IpMax /\ Goes(a, "busy")
       \/ /\ Cardinality(Seen(a)) <= IpMax
          /\ Goes(a, IF kind[a] = "pair_init" THEN "issue" ELSE "cap")
    /\ UNCHANGED <<now, attemptVars, capVars, tokenVars>>

\* check_ip_rate_limit: a refused attempt stays in the window.  EXPIRE rounds
\* the window up to a second and adds one.
AddressCheck(a) ==
    /\ stage[a] = "address"
    /\ window' = [window EXCEPT ![addr[a]] = Seen(a)]
    /\ windowEnds' = [windowEnds EXCEPT ![addr[a]] = now + Window + 1]
    /\ checked' = [checked EXCEPT ![a] = now]
    /\ \/ Cardinality(Seen(a)) > IpMax /\ Goes(a, "busy")
       \/ /\ Cardinality(Seen(a)) <= IpMax
          /\ Goes(a, IF kind[a] = "pair_init" THEN "issue" ELSE "cap")
    /\ UNCHANGED <<now, attemptVars, capVars, tokenVars>>

\* Mutant: the count has no expiry of its own
CountForever(k) == count[k] + 1

\* INCR
Counted(k) == IF Alive(countEnds[k]) THEN count[k] + 1 ELSE 1

\* Mutant: the cap is looked at before the attempt is counted
CapOneLate(a) ==
    LET k == key[a] IN
    /\ stage[a] = "cap" /\ ~Alive(blockEnds[k])
    /\ tried' = [tried EXCEPT ![a] = now]
    /\ count' = [count EXCEPT ![k] = Counted(k)]
    /\ countEnds' = [countEnds EXCEPT ![k] = IF Counted(k) = 1 THEN now + TokenTtl ELSE @]
    /\ \/ /\ Counted(k) > TokenMax + 1
          /\ blockEnds' = [blockEnds EXCEPT ![k] = now + TokenTtl]
          /\ Goes(a, "limited")
       \/ /\ Counted(k) <= TokenMax + 1
          /\ Goes(a, IF kind[a] = "pair_request" THEN "consume" ELSE "resumed")
          /\ UNCHANGED blockEnds
    /\ UNCHANGED <<now, attemptVars, ipVars, tokenVars>>

\* check_token_rate_limit while the key is not blocked
CapCheck(a) ==
    LET k == key[a] IN
    /\ stage[a] = "cap" /\ ~Alive(blockEnds[k])
    /\ tried' = [tried EXCEPT ![a] = now]
    /\ count' = [count EXCEPT ![k] = Counted(k)]
    /\ countEnds' = [countEnds EXCEPT ![k] = IF Counted(k) = 1 THEN now + TokenTtl ELSE @]
    /\ \/ /\ Counted(k) > TokenMax
          /\ blockEnds' = [blockEnds EXCEPT ![k] = now + TokenTtl]
          /\ Goes(a, "limited")
       \/ /\ Counted(k) <= TokenMax
          /\ Goes(a, IF kind[a] = "pair_request" THEN "consume" ELSE "resumed")
          /\ UNCHANGED blockEnds
    /\ UNCHANGED <<now, attemptVars, ipVars, tokenVars>>

\* check_token_rate_limit while it is: nothing is counted
CapBlocked(a) ==
    /\ stage[a] = "cap" /\ Alive(blockEnds[key[a]])
    /\ tried' = [tried EXCEPT ![a] = now]
    /\ Goes(a, "limited")
    /\ UNCHANGED <<now, attemptVars, ipVars, count, countEnds, blockEnds, tokenVars>>

\* issue_token; a key that is there is a duplicate
Issue(a) ==
    LET k == key[a] IN
    /\ stage[a] = "issue"
    /\ \/ /\ token[k] # "absent" /\ Alive(tokenEnds[k])
          /\ Goes(a, "failed") /\ UNCHANGED tokenVars
       \/ /\ ~(token[k] # "absent" /\ Alive(tokenEnds[k]))
          /\ token' = [token EXCEPT ![k] = "pending"]
          /\ tokenEnds' = [tokenEnds EXCEPT ![k] = now + TokenTtl]
          /\ Goes(a, "record") /\ UNCHANGED deadline
    /\ UNCHANGED <<now, attemptVars, ipVars, capVars>>

\* Mutant: the deadline counts from the agent's message
RecordEarly(a) ==
    /\ stage[a] = "record"
    /\ \/ /\ Goes(a, "acked")
          /\ deadline' = [deadline EXCEPT ![a] = stamp[a] + TokenTtl]
          /\ UNCHANGED token
       \/ /\ Goes(a, "failed")
          /\ token' = [token EXCEPT ![key[a]] = "absent"]
          /\ UNCHANGED deadline
    /\ UNCHANGED <<now, attemptVars, ipVars, capVars, tokenEnds>>

\* create_session_record succeeds, and the agent may wait for the token's life;
\* or it fails and the token is taken back
Record(a) ==
    /\ stage[a] = "record"
    /\ \/ /\ Goes(a, "acked")
          /\ deadline' = [deadline EXCEPT ![a] = now + TokenTtl]
          /\ UNCHANGED token
       \/ /\ Goes(a, "failed")
          /\ token' = [token EXCEPT ![key[a]] = "absent"]
          /\ UNCHANGED deadline
    /\ UNCHANGED <<now, attemptVars, ipVars, capVars, tokenEnds>>

\* The loop of an agent that hears nothing times out: the connection is closed,
\* and its token left as it is
TimeOut(a) ==
    /\ stage[a] = "acked" /\ now > deadline[a]
    /\ Goes(a, "left")
    /\ UNCHANGED <<now, attemptVars, ipVars, capVars, tokenVars>>

\* Mutant: the state of the token is not looked at
ConsumeAgain(a) ==
    LET k == key[a] IN
    /\ stage[a] = "consume"
    /\ \/ /\ token[k] # "absent" /\ Alive(tokenEnds[k])
          /\ token' = [token EXCEPT ![k] = "consumed"]
          /\ Goes(a, "paired")
       \/ /\ ~(token[k] # "absent" /\ Alive(tokenEnds[k]))
          /\ Goes(a, "missed") /\ UNCHANGED token
    /\ UNCHANGED <<now, attemptVars, ipVars, capVars, tokenEnds, deadline>>

\* consume_token: TokenNotFound and TokenAlreadyUsed are both "missed"
Consume(a) ==
    LET k == key[a] IN
    /\ stage[a] = "consume"
    /\ \/ /\ token[k] = "pending" /\ Alive(tokenEnds[k])
          /\ token' = [token EXCEPT ![k] = "consumed"]
          /\ Goes(a, "paired")
       \/ /\ ~(token[k] = "pending" /\ Alive(tokenEnds[k]))
          /\ Goes(a, "missed") /\ UNCHANGED token
    /\ UNCHANGED <<now, attemptVars, ipVars, capVars, tokenEnds, deadline>>

\* Redis cannot be reached, or the connection is lost: the attempt is over, and
\* what its scripts have done stays.  In any later await the same is to take no
\* further step.
Fail(a) ==
    /\ stage[a] = "address"
    /\ Goes(a, "failed")
    /\ UNCHANGED <<now, attemptVars, ipVars, capVars, tokenVars>>

Tick ==
    /\ now < MaxTime
    /\ \A a \in Attempts : stage[a] = "address" => now < stamp[a] + MaxDelay
    /\ now' = now + 1
    /\ UNCHANGED <<stage, attemptVars, ipVars, capVars, tokenVars>>

Next ==
    \/ Tick
    \/ \E a \in Attempts :
          \/ AddressCheck(a) \/ CapCheck(a) \/ CapBlocked(a)
          \/ Issue(a) \/ Record(a) \/ TimeOut(a) \/ Consume(a) \/ Fail(a)
          \/ \E i \in Addresses, k \in Keys : Begin(a, i, k)

Spec == Init /\ [][Next]_vars

(***************************************************************************)
(* Properties.                                                             *)
(***************************************************************************)

TypeOK ==
    /\ now \in 1..MaxTime
    /\ stage \in [Attempts -> Stages]
    /\ kind \in [Attempts -> Kinds \cup {None}] /\ addr \in [Attempts -> Addresses \cup {None}]
    /\ key \in [Attempts -> Keys \cup {None}] /\ stamp \in [Attempts -> 0..MaxTime]
    /\ window \in [Addresses -> SUBSET Attempts]
    /\ windowEnds \in [Addresses -> 0..MaxTime + Window + 1]
    /\ count \in [Keys -> Nat] /\ countEnds \in [Keys -> 0..MaxTime + TokenTtl]
    /\ blockEnds \in [Keys -> 0..MaxTime + TokenTtl]
    /\ token \in [Tokens -> {"absent", "pending", "consumed"}]
    /\ tokenEnds \in [Tokens -> 0..MaxTime + TokenTtl]
    /\ deadline \in [Attempts -> 0..MaxTime + TokenTtl]
    /\ checked \in [Attempts -> 0..MaxTime] /\ tried \in [Attempts -> 0..MaxTime]

\* The attempts from an address that its window let through and that are recent:
\* scripts that are late by MaxDelay shorten what the window can see by as much
Recent(i) ==
    {a \in Attempts : /\ addr[a] = i /\ checked[a] # 0 /\ stage[a] # "busy"
                      /\ checked[a] + Window > now + MaxDelay}

\* However the scripts of overlapping attempts are ordered, no address gets more
\* than IpMax attempts through in any Window - MaxDelay.  (_IP_WINDOW_SCRIPT, with
\* the clock read before the await.)
WindowCap == \A i \in Addresses : Cardinality(Recent(i)) <= IpMax

\* The other attempts from the address that ran within the window of this one
Before(a) ==
    {b \in Attempts \ {a} : /\ addr[b] = addr[a] /\ checked[b] # 0
                           /\ checked[b] <= checked[a] /\ checked[b] + Window > stamp[a]}

\* An address is refused only if IpMax other attempts from it, refused ones
\* included, ran within the window: it recovers by waiting.  (_IP_WINDOW_SCRIPT.)
RefusedForCause ==
    \A a \in Attempts : stage[a] = "busy" => Cardinality(Before(a)) >= IpMax

\* The attempts on a token during its life that were not limited
Guesses(k) ==
    {a \in Attempts : /\ key[a] = k /\ tried[a] # 0 /\ stage[a] # "limited"
                      /\ tried[a] <= tokenEnds[k] /\ tokenEnds[k] <= tried[a] + TokenTtl}

\* While a token lives, at most TokenMax attempts on it get as far as trying to
\* consume it, from however many addresses.  (_TOKEN_ATTEMPT_SCRIPT: the count
\* and the block must both outlive the token.)
GuessCap == \A k \in Tokens : Cardinality(Guesses(k)) <= TokenMax

\* The attempts on a token or device from some time on
Since(k, t) == {b \in Attempts : key[b] = k /\ tried[b] # 0 /\ t <= tried[b]}

\* Nobody is shut out of a token or a device unless more than TokenMax attempts
\* were made on it within twice the time to live: a block is not for ever, and
\* attempts made during it do not prolong it.  (_TOKEN_ATTEMPT_SCRIPT.)
LimitedForCause ==
    \A a \in Attempts : stage[a] = "limited" =>
        Cardinality({b \in Since(key[a], tried[a] - 2 * TokenTtl) : tried[b] <= tried[a]}) > TokenMax

\* A token pairs one client at most, though several may hold it and race.
\* (_CONSUME_SCRIPT.)
SingleUse ==
    \A k \in Tokens : Cardinality({a \in Attempts : key[a] = k /\ stage[a] = "paired"}) <= 1

\* An agent is not timed out while a client could still consume its token: the
\* QR code it displays is valid as long as it shows.  (handle_pair_init, where
\* Redis starts the token's life and a later statement the deadline.)
AgentOutlivesToken ==
    \A a \in Attempts : stage[a] = "left" =>
        ~(token[key[a]] = "pending" /\ Alive(tokenEnds[key[a]]))

(***************************************************************************)
(* What makes them inductive.                                              *)
(***************************************************************************)

\* How far each kind of attempt is, and when its scripts ran
AttemptsOK ==
    \A a \in Attempts :
       /\ stage[a] = "idle" => key[a] = None /\ kind[a] = None
       /\ stage[a] # "idle" =>
             /\ addr[a] \in Addresses /\ stamp[a] \in 1..now
             /\ \/ kind[a] \in {"pair_init", "pair_request"} /\ key[a] \in Tokens
                \/ kind[a] = "resume_request" /\ key[a] \in Devices
       /\ stage[a] \in {"issue", "record", "acked", "left"} => kind[a] = "pair_init"
       /\ stage[a] \in {"cap", "limited"} => kind[a] # "pair_init"
       /\ stage[a] \in {"consume", "paired"} => kind[a] = "pair_request"
       /\ stage[a] \in {"idle", "address"} => checked[a] = 0
       /\ stage[a] = "address" => now <= stamp[a] + MaxDelay
       /\ checked[a] # 0 =>
             checked[a] <= now /\ stamp[a] <= checked[a] /\ checked[a] <= stamp[a] + MaxDelay
       /\ stage[a] \in {"idle", "address", "cap", "issue"} \/ kind[a] = "pair_init" => tried[a] = 0
       /\ tried[a] <= now

\* A token is issued once, before clients try it, and consumed once
TokensOK ==
    /\ \A k \in Tokens :
          /\ tokenEnds[k] <= now + TokenTtl
          /\ tokenEnds[k] # 0 => \E a \in Attempts : key[a] = k
    /\ \A a, b \in Attempts :
          /\ kind[a] = "pair_init" /\ kind[b] = "pair_init" /\ key[a] = key[b] => a = b
          /\ stage[a] = "paired" /\ stage[b] = "paired" /\ key[a] = key[b] => a = b
    /\ \A a \in Attempts :
          /\ kind[a] = "pair_init" /\ stage[a] \in {"address", "issue"} => tokenEnds[key[a]] = 0
          /\ kind[a] = "pair_request" => tokenEnds[key[a]] # 0
          /\ stage[a] = "paired" => token[key[a]] # "pending"
          /\ stage[a] \in {"acked", "left"} => tokenEnds[key[a]] <= deadline[a]
          /\ stage[a] = "left" => deadline[a] < now

\* An attempt stays in its window until it is as old as the window is long, less
\* the delay
WindowOK ==
    /\ \A i \in Addresses : \A b \in window[i] : addr[b] = i /\ checked[b] # 0
    /\ \A b \in Attempts : checked[b] # 0 =>
          /\ windowEnds[addr[b]] > checked[b] + Window
          /\ checked[b] + Window > now + MaxDelay => b \in window[addr[b]]

\* What a count has counted and a block was set for; a count outlives its token
CountsOK ==
    /\ \A k \in Keys :
          /\ countEnds[k] = 0 <=> count[k] = 0
          /\ countEnds[k] <= now + TokenTtl
          /\ countEnds[k] # 0 => Cardinality(Since(k, countEnds[k] - TokenTtl)) >= count[k]
          /\ blockEnds[k] # 0 => Cardinality(Since(k, blockEnds[k] - 2 * TokenTtl)) > TokenMax
    /\ \A k \in Tokens :
          /\ countEnds[k] # 0 => tokenEnds[k] # 0 /\ tokenEnds[k] <= countEnds[k]
          /\ now <= tokenEnds[k] => Cardinality(Guesses(k)) <= count[k]

IInv ==
    /\ TypeOK /\ AttemptsOK /\ TokensOK /\ WindowOK /\ CountsOK
    /\ WindowCap /\ RefusedForCause /\ GuessCap /\ LimitedForCause

=============================================================================
