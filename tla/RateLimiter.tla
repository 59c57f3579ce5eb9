----------------------------- MODULE RateLimiter -----------------------------
(***************************************************************************)
(* InMemoryRateLimiter and RateLimitMiddleware of                          *)
(* backend/middleware/rate_limit.py: a sliding window per client and       *)
(* bucket, kept in the memory of each server process.  is_allowed runs on  *)
(* the event loop without suspension and is one step.  Time is counted in  *)
(* ticks and does not go back.                                             *)
(***************************************************************************)
EXTENDS Integers, FiniteSets

CONSTANTS
  Processes,  \* server processes (run_all.py starts two)
  Clients,    \* client addresses
  Buckets,    \* "auth", "transfers", "stress_tests", "reports", "general"
  Quota,      \* bucket -> requests admitted per window (lines 92-106)
  Window,     \* window_seconds, in ticks
  Second,     \* ticks of a second: int() truncates what is below
  MaxTime     \* bound of the clock

ASSUME QuotaAssumption == Quota \in [Buckets -> Nat \ {0}]
ASSUME TimeAssumption ==
  Window \in Nat \ {0} /\ Second \in Nat \ {0} /\ MaxTime \in Nat

VARIABLES
  now,       \* time.time()
  buckets,   \* process -> client and bucket -> time stamps kept
  admitted,  \* the same, with the stamps that were pruned (not in the code)
  waiting    \* client and bucket of a process -> refused since the last
             \* admission, and the earliest time told, truncation made up for

vars == <<now, buckets, admitted, waiting>>

Keys == Clients \X Buckets

(* The list of a key is kept as a set: it grows at its end with the        *)
(* current time, so that its first stamp is the oldest.  n keeps equal     *)
(* stamps apart.                                                           *)
Stamp == [n: Nat, at: Nat]
Passed == [refused |-> FALSE, until |-> 0]

Init ==
  /\ now = 0
  /\ buckets = [p \in Processes |-> [k \in Keys |-> {}]]
  /\ admitted = buckets
  /\ waiting = [p \in Processes |-> [k \in Keys |-> Passed]]

-----------------------------------------------------------------------------

(* Slip: a stamp leaves a tick too early.                                  *)
SlipEarly(p, k) == {x \in buckets[p][k] : x.at > now + 1 - Window}

Pruned(p, k) == {x \in buckets[p][k] : x.at > now - Window}

Full(p, k) == Cardinality(Pruned(p, k)) >= Quota[k[2]]

(* retry_after, in seconds: at least one, and truncated.                   *)
Oldest(p, k) == CHOOSE x \in Pruned(p, k) : \A y \in Pruned(p, k) : x.at <= y.at

RetryAfter(p, k) ==
  LET whole == (Window - (now - Oldest(p, k).at)) \div Second
  IN IF whole < 1 THEN 1 ELSE whole

Admit(p, k) ==
  LET x == [n |-> Cardinality(admitted[p][k]), at |-> now] IN
  /\ ~ Full(p, k)
  /\ buckets' = [buckets EXCEPT ![p][k] = Pruned(p, k) \cup {x}]
  /\ admitted' = [admitted EXCEPT ![p][k] = @ \cup {x}]
  /\ waiting' = [waiting EXCEPT ![p][k] = Passed]
  /\ UNCHANGED now

(* Slip: a refused request counts as well.                                 *)
SlipCounted(p, k) == Pruned(p, k) \cup {[n |-> Cardinality(admitted[p][k]), at |-> now]}

KeptOnRefusal(p, k) == Pruned(p, k)

Told(p, k) == now + RetryAfter(p, k) * Second + (Second - 1)

Refuse(p, k) ==
  /\ Full(p, k)
  /\ buckets' = [buckets EXCEPT ![p][k] = KeptOnRefusal(p, k)]
  /\ waiting' = [waiting EXCEPT ![p][k] =
       [refused |-> TRUE, until |-> IF @.refused /\ @.until < Told(p, k)
                                    THEN @.until ELSE Told(p, k)]]
  /\ UNCHANGED <<now, admitted>>

(* A restart forgets every bucket.                                         *)
Restart(p) ==
  /\ buckets' = [buckets EXCEPT ![p] = [k \in Keys |-> {}]]
  /\ admitted' = [admitted EXCEPT ![p] = [k \in Keys |-> {}]]
  /\ waiting' = [waiting EXCEPT ![p] = [k \in Keys |-> Passed]]
  /\ UNCHANGED now

Tick ==
  /\ now < MaxTime
  /\ now' = now + 1
  /\ UNCHANGED <<buckets, admitted, waiting>>

Next ==
  \/ Tick
  \/ \E p \in Processes : Restart(p) \/ \E k \in Keys : Admit(p, k) \/ Refuse(p, k)

Spec == Init /\ [][Next]_vars

-----------------------------------------------------------------------------

(* Every variable has its type, and no bucket outgrows its quota.          *)
TypeOK ==
  /\ now \in Nat
  /\ buckets \in [Processes -> [Keys -> SUBSET Stamp]]
  /\ admitted \in [Processes -> [Keys -> SUBSET Stamp]]
  /\ waiting \in [Processes -> [Keys -> [refused: BOOLEAN, until: Nat]]]
  /\ \A p \in Processes, k \in Keys : Cardinality(buckets[p][k]) <= Quota[k[2]]

Within(p, k, t) == {x \in admitted[p][k] : t - Window < x.at /\ x.at <= t}

(* A process admits at most the quota of a client in any window of the     *)
(* window's length, not only in those that start at a request: forgetting  *)
(* pruned stamps loses nothing (rate_limit.py:37-50).                      *)
WindowBound ==
  \A p \in Processes, k \in Keys, t \in 0..now :
     Cardinality(Within(p, k, t)) <= Quota[k[2]]

(* A client that was refused and waits for what Retry-After said and less  *)
(* than a second more is admitted, however often it asked meanwhile: the   *)
(* truncation of line 44 costs no more, and refusals do not prolong the    *)
(* wait.                                                                   *)
RetryIsEnough ==
  \A p \in Processes, k \in Keys :
     waiting[p][k].refused /\ now >= waiting[p][k].until => ~ Full(p, k)
=============================================================================
