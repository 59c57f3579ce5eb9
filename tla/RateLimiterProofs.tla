-------------------------- MODULE RateLimiterProofs --------------------------
(***************************************************************************)
(* Proofs about the rate limiter, alone and inside a server process with   *)
(* the operations tracker, for any processes, clients, quotas and window.  *)
(***************************************************************************)
EXTENDS Gateway, FiniteSetTheorems, WellFoundedInduction, SequenceTheorems, TLAPS

Typed ==
  /\ now \in Nat
  /\ buckets \in [Processes -> [Keys -> SUBSET Stamp]]
  /\ admitted \in [Processes -> [Keys -> SUBSET Stamp]]

(* A bucket keeps every admission that still counts; admissions are        *)
(* numbered and not in the future.                                         *)
Complete(p, k) ==
  /\ IsFiniteSet(admitted[p][k])
  /\ \A x \in admitted[p][k] : x.at <= now /\ x.n < Cardinality(admitted[p][k])
  /\ buckets[p][k] \subseteq admitted[p][k]
  /\ \A x \in admitted[p][k] : x.at > now - Window => x \in buckets[p][k]

Bounded(p, k) == \A t \in Nat : Cardinality(Within(p, k, t)) <= Quota[k[2]]

IInv ==
  /\ Typed
  /\ \A p \in Processes, k \in Keys : Complete(p, k) /\ Bounded(p, k)

LEMMA QuotaTyped == \A k \in Keys : Quota[k[2]] \in Nat /\ Quota[k[2]] > 0
  BY QuotaAssumption DEF Keys

LEMMA EmptyKey ==
  ASSUME NEW p \in Processes, NEW k \in Keys,
         buckets[p][k] = {}, admitted[p][k] = {}
  PROVE  Complete(p, k) /\ Bounded(p, k)
  <1>1. Complete(p, k)
    BY FS_EmptySet DEF Complete
  <1>2. ASSUME NEW t \in Nat PROVE Cardinality(Within(p, k, t)) <= Quota[k[2]]
    <2>1. Within(p, k, t) = {}
      BY DEF Within
    <2> QED BY <2>1, FS_EmptySet, QuotaTyped
  <1> QED BY <1>1, <1>2 DEF Bounded

LEMMA InitIInv == Init => IInv
  <1> SUFFICES ASSUME Init PROVE IInv
    OBVIOUS
  <1>1. Typed
    BY DEF Init, Typed
  <1>2. ASSUME NEW p \in Processes, NEW k \in Keys
        PROVE  Complete(p, k) /\ Bounded(p, k)
    BY EmptyKey DEF Init
  <1> QED BY <1>1, <1>2 DEF IInv

(* What a step does to one key, as seen by the invariant: nothing but the  *)
(* passing of time, or the loss of stamps that no longer count.            *)
LEMMA KeyAged ==
  ASSUME NEW p \in Processes, NEW k \in Keys, Typed, Complete(p, k), Bounded(p, k),
         now' \in Nat, now' >= now, admitted'[p][k] = admitted[p][k],
         buckets'[p][k] \subseteq buckets[p][k],
         \A x \in buckets[p][k] : x.at > now - Window => x \in buckets'[p][k]
  PROVE  Complete(p, k)' /\ Bounded(p, k)'
  <1>1. \A x \in admitted[p][k] : x.at \in Nat
    BY DEF Typed, Stamp
  <1>2. Complete(p, k)'
    BY <1>1, TimeAssumption DEF Complete, Typed
  <1>3. \A t \in Nat : Within(p, k, t)' = Within(p, k, t)
    BY DEF Within
  <1>4. Bounded(p, k)'
    BY <1>3 DEF Bounded
  <1> QED BY <1>2, <1>4

(* An admission that the pruned bucket has room for keeps every window     *)
(* within the quota.                                                       *)
LEMMA KeyAdmits ==
  ASSUME NEW p \in Processes, NEW k \in Keys, Typed, Complete(p, k), Bounded(p, k),
         ~ Full(p, k), NEW x \in Stamp,
         x = [n |-> Cardinality(admitted[p][k]), at |-> now], now' = now,
         buckets'[p][k] = Pruned(p, k) \cup {x},
         admitted'[p][k] = admitted[p][k] \cup {x}
  PROVE  Complete(p, k)' /\ Bounded(p, k)'
  <1> DEFINE A == admitted[p][k]
  <1>1. /\ IsFiniteSet(A) /\ Cardinality(A) \in Nat
        /\ \A y \in A : y.at \in Nat /\ y.n \in Nat /\ y.at <= now /\ y.n < Cardinality(A)
    BY FS_CardinalityType DEF Complete, Typed, Stamp
  <1>2. x \notin A
    BY <1>1
  <1>3. IsFiniteSet(A \cup {x}) /\ Cardinality(A \cup {x}) = Cardinality(A) + 1
    BY <1>1, <1>2, FS_AddElement
  <1>4. Complete(p, k)'
    <2> DEFINE A2 == A \cup {x}
    <2>1. x.at = now /\ x.n = Cardinality(A) /\ now \in Nat
      BY DEF Typed
    <2>2. \A y \in A2 : y.at <= now /\ y.n < Cardinality(A2)
      BY <1>1, <1>3, <2>1
    <2>3. \A y \in A2 : y.at > now - Window => y \in Pruned(p, k) \cup {x}
      BY DEF Pruned, Complete
    <2>4. Pruned(p, k) \cup {x} \subseteq A2
      BY DEF Pruned, Complete
    <2> QED BY <1>3, <2>2, <2>3, <2>4 DEF Complete
  <1>5. ASSUME NEW t \in Nat PROVE Cardinality(Within(p, k, t)') <= Quota[k[2]]
    <2>1. IsFiniteSet(Within(p, k, t)) /\ Cardinality(Within(p, k, t)) \in Nat
      <3>1. Within(p, k, t) \in SUBSET A
        BY DEF Within
      <3> QED BY <1>1, <3>1, FS_Subset, FS_CardinalityType
    <2>2. CASE t - Window < now /\ now <= t
      <3>1. Within(p, k, t)' = Within(p, k, t) \cup {x}
        BY <2>2 DEF Within
      <3>2. Within(p, k, t) \in SUBSET Pruned(p, k)
        BY <1>1, <2>2, TimeAssumption DEF Within, Pruned, Complete, Typed
      <3>3. IsFiniteSet(Pruned(p, k)) /\ Cardinality(Pruned(p, k)) \in Nat
        <4>1. Pruned(p, k) \in SUBSET A
          BY DEF Pruned, Complete
        <4> QED BY <1>1, <4>1, FS_Subset, FS_CardinalityType
      <3>4. Cardinality(Within(p, k, t)) <= Cardinality(Pruned(p, k))
        BY <3>2, <3>3, FS_Subset
      <3>5. Cardinality(Pruned(p, k)) < Quota[k[2]]
        BY <3>3, QuotaTyped DEF Full
      <3>6. x \notin Within(p, k, t)
        BY <1>2 DEF Within
      <3>7. Cardinality(Within(p, k, t) \cup {x}) = Cardinality(Within(p, k, t)) + 1
        BY <2>1, <3>6, FS_AddElement
      <3> QED BY <2>1, <3>1, <3>3, <3>4, <3>5, <3>7, QuotaTyped
    <2>3. CASE ~ (t - Window < now /\ now <= t)
      <3>1. Within(p, k, t)' = Within(p, k, t)
        BY <2>3 DEF Within
      <3> QED BY <3>1 DEF Bounded
    <2> QED BY <2>2, <2>3
  <1>6. Bounded(p, k)'
    BY <1>5 DEF Bounded
  <1> QED BY <1>4, <1>6

LEMMA NextIInv == IInv /\ [Next]_vars => IInv'
  <1> SUFFICES ASSUME IInv, [Next]_vars PROVE IInv'
    OBVIOUS
  <1> USE DEF IInv
  <1>1. CASE UNCHANGED vars
    <2>1. Typed'
      BY <1>1 DEF Typed, vars
    <2>2. ASSUME NEW q \in Processes, NEW j \in Keys
          PROVE  Complete(q, j)' /\ Bounded(q, j)'
      BY <1>1, KeyAged DEF vars, Typed
    <2> QED BY <2>1, <2>2
  <1>2. CASE Tick
    <2>1. Typed'
      BY <1>2 DEF Typed, Tick
    <2>2. ASSUME NEW q \in Processes, NEW j \in Keys
          PROVE  Complete(q, j)' /\ Bounded(q, j)'
      BY <1>2, KeyAged DEF Tick, Typed
    <2> QED BY <2>1, <2>2
  <1>3. ASSUME NEW p \in Processes, Restart(p) PROVE IInv'
    <2>1. Typed'
      BY <1>3 DEF Typed, Restart
    <2>2. ASSUME NEW q \in Processes, NEW j \in Keys
          PROVE  Complete(q, j)' /\ Bounded(q, j)'
      <3>1. CASE q = p
        <4>1. buckets'[q][j] = {} /\ admitted'[q][j] = {}
          BY <1>3, <3>1 DEF Restart, Typed
        <4> HIDE DEF IInv
        <4>2. Complete(q, j)'
          BY <4>1, FS_EmptySet DEF Complete
        <4>3. ASSUME NEW t \in Nat PROVE Cardinality(Within(q, j, t)') <= Quota[j[2]]
          <5>1. Within(q, j, t)' = {}
            BY <4>1 DEF Within
          <5> QED BY <5>1, FS_EmptySet, QuotaTyped
        <4> QED BY <4>2, <4>3 DEF Bounded
      <3>2. CASE q # p
        <4>1. buckets'[q][j] = buckets[q][j] /\ admitted'[q][j] = admitted[q][j]
              /\ now' = now
          BY <1>3, <3>2 DEF Restart, Typed
        <4> QED BY <4>1, KeyAged DEF Typed
      <3> QED BY <3>1, <3>2
    <2> QED BY <2>1, <2>2
  <1>4. ASSUME NEW p \in Processes, NEW k \in Keys, Admit(p, k) PROVE IInv'
    <2> DEFINE x == [n |-> Cardinality(admitted[p][k]), at |-> now]
    <2>0. x \in Stamp
      BY FS_CardinalityType DEF Complete, Stamp, Typed
    <2>1. Pruned(p, k) \subseteq Stamp
      BY DEF Pruned, Typed
    <2>2. Typed'
      BY <1>4, <2>0, <2>1 DEF Typed, Admit
    <2>3. ASSUME NEW q \in Processes, NEW j \in Keys
          PROVE  Complete(q, j)' /\ Bounded(q, j)'
      <3>1. CASE q = p /\ j = k
        <4>1. buckets'[p][k] = Pruned(p, k) \cup {x}
              /\ admitted'[p][k] = admitted[p][k] \cup {x} /\ now' = now /\ ~ Full(p, k)
          BY <1>4 DEF Admit, Typed
        <4> QED BY <2>0, <3>1, <4>1, KeyAdmits
      <3>2. CASE ~ (q = p /\ j = k)
        <4>1. buckets'[q][j] = buckets[q][j] /\ admitted'[q][j] = admitted[q][j]
              /\ now' = now
          BY <1>4, <3>2 DEF Admit, Typed
        <4> QED BY <4>1, KeyAged DEF Typed
      <3> QED BY <3>1, <3>2
    <2> QED BY <2>2, <2>3
  <1>5. ASSUME NEW p \in Processes, NEW k \in Keys, Refuse(p, k) PROVE IInv'
    <2>1. Pruned(p, k) \subseteq Stamp
      BY DEF Pruned, Typed
    <2>2. Typed'
      BY <1>5, <2>1 DEF Typed, Refuse, KeptOnRefusal
    <2>3. ASSUME NEW q \in Processes, NEW j \in Keys
          PROVE  Complete(q, j)' /\ Bounded(q, j)'
      <3>1. CASE q = p /\ j = k
        <4>1. buckets'[p][k] = Pruned(p, k) /\ admitted'[p][k] = admitted[p][k] /\ now' = now
          BY <1>5 DEF Refuse, KeptOnRefusal, Typed
        <4> QED BY <3>1, <4>1, KeyAged DEF Typed, Pruned
      <3>2. CASE ~ (q = p /\ j = k)
        <4>1. buckets'[q][j] = buckets[q][j] /\ admitted'[q][j] = admitted[q][j]
              /\ now' = now
          BY <1>5, <3>2 DEF Refuse, Typed
        <4> QED BY <4>1, KeyAged DEF Typed
      <3> QED BY <3>1, <3>2
    <2> QED BY <2>2, <2>3
  <1> QED BY <1>1, <1>2, <1>3, <1>4, <1>5 DEF Next

(* A client is never admitted more often than its quota in any window of   *)
(* a process, for all clients, quotas, windows and interleavings with      *)
(* restarts and refusals (rate_limit.py:37-50).                            *)
THEOREM QuotaKept == Spec => []WindowBound
  <1>1. IInv => WindowBound
    BY DEF IInv, Bounded, WindowBound, Typed
  <1> QED BY <1>1, InitIInv, NextIInv, PTL DEF Spec

-----------------------------------------------------------------------------
(* Retry-After.  A client that was refused and has not been admitted since *)
(* faces a bucket that only shrinks.  Either the stamp its answer was      *)
(* computed from is still there and leaves it in time, or a stamp has left *)
(* it already and there is room.                                           *)

WaitType == [refused: BOOLEAN, until: Nat]

Leaves(x, t) == x.at + Window <= t

RetrySound(p, k) ==
  /\ waiting[p][k] \in WaitType
  /\ IsFiniteSet(buckets[p][k]) /\ Cardinality(buckets[p][k]) <= Quota[k[2]]
  /\ waiting[p][k].refused =>
        \/ Cardinality(buckets[p][k]) < Quota[k[2]]
        \/ \E x \in buckets[p][k] : Leaves(x, waiting[p][k].until)

RInv ==
  /\ Typed
  /\ waiting \in [Processes -> [Keys -> WaitType]]
  /\ \A p \in Processes, k \in Keys : RetrySound(p, k)

LEMMA Smallest ==
  ASSUME NEW T \in SUBSET Nat, T # {}
  PROVE  \E m \in T : \A y \in T : m <= y
  <1> DEFINE R == OpToRel(<, Nat)
  <1>1. IsWellFoundedOn(R, Nat)
    BY NatLessThanWellFounded, Zenon
  <1>2. \A x \in Nat, y \in Nat : x < y => <<x, y>> \in R
    BY DEF OpToRel
  <1> HIDE DEF R
  <1>3. PICK m \in T : \A y \in T : ~ (<<y, m>> \in R)
    BY <1>1, WFMin
  <1>4. \A y \in T : ~ (y < m)
    BY <1>2, <1>3
  <1> QED BY <1>3, <1>4

LEMMA OldestStamp ==
  ASSUME NEW p \in Processes, NEW k \in Keys, Typed, Pruned(p, k) # {}
  PROVE  /\ Oldest(p, k) \in Pruned(p, k)
         /\ \A y \in Pruned(p, k) : Oldest(p, k).at <= y.at
  <1> DEFINE T == {x.at : x \in Pruned(p, k)}
  <1>1. T \in SUBSET Nat /\ T # {}
    BY DEF Pruned, Typed, Stamp
  <1>2. PICK m \in T : \A y \in T : m <= y
    <2> HIDE DEF T
    <2> QED BY <1>1, Smallest
  <1>3. \E x \in Pruned(p, k) : \A y \in Pruned(p, k) : x.at <= y.at
    BY <1>2
  <1> QED BY <1>3 DEF Oldest

(* What a refused client is told is no earlier than the departure of the   *)
(* oldest stamp: the second less a tick makes up for the truncation.       *)
LEMMA ToldInTime ==
  ASSUME NEW p \in Processes, NEW k \in Keys, Typed, Pruned(p, k) # {}
  PROVE  Told(p, k) \in Nat /\ Leaves(Oldest(p, k), Told(p, k))
  <1> DEFINE x == Oldest(p, k)
             left == Window - (now - x.at)
             whole == left \div Second
  <1>1. x.at \in Nat /\ x.at > now - Window /\ now \in Nat
    BY OldestStamp DEF Pruned, Typed, Stamp
  <1>2. Window \in Nat /\ Second \in Nat \ {0}
    BY TimeAssumption
  <1>3. left \in Nat
    BY <1>1, <1>2
  <1>4. RetryAfter(p, k) = IF whole < 1 THEN 1 ELSE whole
    BY DEF RetryAfter
  <1> HIDE DEF left, x
  <1>5. /\ whole \in Nat /\ whole * Second \in Nat
        /\ left <= whole * Second + (Second - 1)
    <2>1. whole \in Int /\ left = Second * whole + (left % Second)
          /\ left % Second \in 0..(Second - 1)
      BY <1>2, <1>3, Z3
    <2>2. whole >= 0
      BY <1>2, <1>3, Z3
    <2> HIDE DEF whole
    <2>3. whole * Second \in Nat /\ Second * whole = whole * Second
      BY <1>2, <2>1, <2>2, Z3
    <2> QED BY <1>2, <1>3, <2>1, <2>2, <2>3
  <1> HIDE DEF whole
  <1>6. /\ RetryAfter(p, k) \in Nat /\ RetryAfter(p, k) * Second \in Nat
        /\ RetryAfter(p, k) * Second >= whole * Second
    <2>1. CASE whole < 1
      <3>1. whole = 0 /\ RetryAfter(p, k) = 1
        BY <1>4, <1>5, <2>1
      <3>2. 0 * Second = 0 /\ 1 * Second = Second
        BY <1>2
      <3> QED BY <1>2, <3>1, <3>2
    <2>2. CASE ~ (whole < 1)
      BY <1>4, <1>5, <2>2
    <2> QED BY <2>1, <2>2
  <1>7. Told(p, k) = now + RetryAfter(p, k) * Second + (Second - 1)
    BY DEF Told
  <1>8. left = Window - (now - x.at)
    BY DEF left
  <1> DEFINE R == RetryAfter(p, k) * Second
             W == whole * Second
  <1>9. R \in Nat /\ R >= W /\ W \in Nat /\ left <= W + (Second - 1)
        /\ Told(p, k) = now + R + (Second - 1)
    BY <1>5, <1>6, <1>7
  <1> HIDE DEF R, W
  <1>10. x.at + Window <= Told(p, k) /\ Told(p, k) \in Nat
    BY <1>1, <1>2, <1>3, <1>8, <1>9
  <1> QED BY <1>10 DEF Leaves, x

LEMMA InitRInv == Init => RInv
  <1> SUFFICES ASSUME Init PROVE RInv
    OBVIOUS
  <1>1. Typed /\ waiting \in [Processes -> [Keys -> WaitType]]
    BY DEF Init, Typed, Passed, WaitType
  <1>2. ASSUME NEW p \in Processes, NEW k \in Keys PROVE RetrySound(p, k)
    BY FS_EmptySet, QuotaTyped DEF Init, RetrySound, Passed, WaitType
  <1> QED BY <1>1, <1>2 DEF RInv

LEMMA PrunedFacts ==
  ASSUME NEW p \in Processes, NEW k \in Keys, Typed, RetrySound(p, k)
  PROVE  /\ Pruned(p, k) \in SUBSET buckets[p][k]
         /\ IsFiniteSet(Pruned(p, k)) /\ Cardinality(Pruned(p, k)) \in Nat
         /\ Cardinality(Pruned(p, k)) <= Cardinality(buckets[p][k])
  <1>1. Pruned(p, k) \in SUBSET buckets[p][k]
    BY DEF Pruned
  <1>2. IsFiniteSet(buckets[p][k])
    BY DEF RetrySound
  <1> QED BY <1>1, <1>2, FS_Subset, FS_CardinalityType

(* A step that leaves the bucket of a key and what its client was told     *)
(* alone.                                                                  *)
LEMMA KeyUntouched ==
  ASSUME NEW p \in Processes, NEW k \in Keys, RetrySound(p, k),
         buckets'[p][k] = buckets[p][k], waiting'[p][k] = waiting[p][k]
  PROVE  RetrySound(p, k)'
  BY DEF RetrySound, Leaves

LEMMA KeyForgotten ==
  ASSUME NEW p \in Processes, NEW k \in Keys,
         buckets'[p][k] = {}, waiting'[p][k] = Passed
  PROVE  RetrySound(p, k)'
  BY FS_EmptySet, QuotaTyped DEF RetrySound, Passed, WaitType

(* An admission: room was left for one more, and nobody waits any more.    *)
LEMMA KeyAdmitted ==
  ASSUME NEW p \in Processes, NEW k \in Keys, Typed, RetrySound(p, k),
         ~ Full(p, k), NEW x,
         buckets'[p][k] = Pruned(p, k) \cup {x}, waiting'[p][k] = Passed
  PROVE  RetrySound(p, k)'
  <1>1. IsFiniteSet(Pruned(p, k)) /\ Cardinality(Pruned(p, k)) \in Nat
    BY PrunedFacts
  <1>2. Cardinality(Pruned(p, k)) < Quota[k[2]]
    BY <1>1, QuotaTyped DEF Full
  <1>3. /\ IsFiniteSet(Pruned(p, k) \cup {x})
        /\ Cardinality(Pruned(p, k) \cup {x}) <= Cardinality(Pruned(p, k)) + 1
    <2> DEFINE P == Pruned(p, k)
               P2 == P \cup {x}
    <2> HIDE DEF P
    <2>2. IsFiniteSet(P) /\ Cardinality(P) \in Nat
      BY <1>1 DEF P
    <2>3. /\ IsFiniteSet(P2)
          /\ Cardinality(P2) = IF x \in P THEN Cardinality(P) ELSE Cardinality(P) + 1
      BY <2>2, FS_AddElement
    <2> HIDE DEF P2
    <2>4. Cardinality(P2) <= Cardinality(P) + 1
      BY <2>2, <2>3
    <2> QED BY <2>3, <2>4 DEF P, P2
  <1>4. Cardinality(Pruned(p, k) \cup {x}) \in Nat
    BY <1>3, FS_CardinalityType
  <1>5. Cardinality(Pruned(p, k) \cup {x}) <= Quota[k[2]]
    BY <1>1, <1>2, <1>3, <1>4, QuotaTyped
  <1> QED BY <1>3, <1>5 DEF RetrySound, Passed, WaitType

(* A refusal: the first one names a time by which the oldest stamp leaves; *)
(* a later one keeps the earlier time, and the stamp it was about is still *)
(* in the bucket or has left it.                                           *)
LEMMA KeyRefused ==
  ASSUME NEW p \in Processes, NEW k \in Keys, Typed, RetrySound(p, k),
         Full(p, k), buckets'[p][k] = Pruned(p, k),
         waiting'[p][k] = [refused |-> TRUE,
                           until |-> IF waiting[p][k].refused /\ waiting[p][k].until < Told(p, k)
                                     THEN waiting[p][k].until ELSE Told(p, k)]
  PROVE  RetrySound(p, k)'
  <1> DEFINE B == buckets[p][k]
             P == Pruned(p, k)
             told == Told(p, k)
             old == waiting[p][k]
             new == waiting'[p][k]
  <1>1. P \in SUBSET B /\ IsFiniteSet(P) /\ Cardinality(P) \in Nat
        /\ Cardinality(P) <= Cardinality(B)
    BY PrunedFacts
  <1>2. IsFiniteSet(B) /\ Cardinality(B) \in Nat /\ Cardinality(B) <= Quota[k[2]]
    BY FS_CardinalityType DEF RetrySound
  <1>3. Cardinality(P) >= Quota[k[2]]
    BY DEF Full
  <1>4. P # {}
    BY <1>1, <1>3, FS_EmptySet, QuotaTyped
  <1>5. told \in Nat /\ Oldest(p, k) \in P /\ Leaves(Oldest(p, k), told)
    BY <1>4, ToldInTime, OldestStamp
  <1>6. P = B
    <2>1. CASE P # B
      <3>1. Cardinality(P) < Cardinality(B)
        BY <1>1, <1>2, <2>1, FS_Subset
      <3> QED BY <1>1, <1>2, <1>3, <3>1, QuotaTyped
    <2> QED BY <2>1
  <1>7. old \in WaitType
    BY DEF RetrySound
  <1>8. new \in WaitType /\ new.refused
    BY <1>5, <1>7 DEF WaitType
  <1>9. \E x \in P : Leaves(x, new.until)
    <2>1. CASE old.refused /\ old.until < told
      <3>1. new.until = old.until
        BY <2>1
      <3>2. \E x \in B : Leaves(x, old.until)
        BY <1>1, <1>2, <1>3, <1>6, <2>1, QuotaTyped DEF RetrySound
      <3> QED BY <1>6, <3>1, <3>2
    <2>2. CASE ~ (old.refused /\ old.until < told)
      <3>1. new.until = told
        BY <2>2
      <3> QED BY <1>5, <3>1
    <2> QED BY <2>1, <2>2
  <1>10. Cardinality(P) <= Quota[k[2]]
    BY <1>1, <1>2, QuotaTyped
  <1> QED BY <1>1, <1>8, <1>9, <1>10 DEF RetrySound

LEMMA NextRInv == IInv /\ RInv /\ [Next]_vars => RInv'
  <1> SUFFICES ASSUME IInv, RInv, [Next]_vars PROVE RInv'
    OBVIOUS
  <1>0. Typed /\ waiting \in [Processes -> [Keys -> WaitType]]
        /\ \A p \in Processes, k \in Keys : RetrySound(p, k)
    BY DEF RInv
  <1>a. Passed \in WaitType
    BY DEF Passed, WaitType
  <1>1. CASE UNCHANGED vars
    <2>1. Typed' /\ waiting' \in [Processes -> [Keys -> WaitType]]
      BY <1>0, <1>1 DEF Typed, vars
    <2>2. \A p \in Processes, k \in Keys : RetrySound(p, k)'
      BY <1>0, <1>1, KeyUntouched DEF vars
    <2> QED BY <2>1, <2>2 DEF RInv
  <1>2. CASE Tick
    <2>1. Typed' /\ waiting' \in [Processes -> [Keys -> WaitType]]
      BY <1>0, <1>2 DEF Typed, Tick
    <2>2. \A p \in Processes, k \in Keys : RetrySound(p, k)'
      BY <1>0, <1>2, KeyUntouched DEF Tick
    <2> QED BY <2>1, <2>2 DEF RInv
  <1>3. ASSUME NEW p \in Processes, Restart(p) PROVE RInv'
    <2>1. Typed' /\ waiting' \in [Processes -> [Keys -> WaitType]]
      BY <1>0, <1>a, <1>3 DEF Typed, Restart
    <2>2. ASSUME NEW q \in Processes, NEW j \in Keys PROVE RetrySound(q, j)'
      <3>1. CASE q = p
        <4>1. buckets'[q][j] = {} /\ waiting'[q][j] = Passed
          BY <1>0, <1>3, <3>1 DEF Restart, Typed
        <4> QED BY <4>1, KeyForgotten
      <3>2. CASE q # p
        <4>1. buckets'[q][j] = buckets[q][j] /\ waiting'[q][j] = waiting[q][j]
          BY <1>0, <1>3, <3>2 DEF Restart, Typed
        <4> QED BY <1>0, <4>1, KeyUntouched
      <3> QED BY <3>1, <3>2
    <2> QED BY <2>1, <2>2 DEF RInv
  <1>4. ASSUME NEW p \in Processes, NEW k \in Keys, Admit(p, k) PROVE RInv'
    <2> DEFINE x == [n |-> Cardinality(admitted[p][k]), at |-> now]
    <2>1. x \in Stamp /\ Pruned(p, k) \subseteq Stamp
      BY <1>4, <1>0, FS_CardinalityType DEF IInv, Complete, Stamp, Typed, Pruned
    <2>2. Typed' /\ waiting' \in [Processes -> [Keys -> WaitType]]
      BY <1>0, <1>a, <1>4, <2>1 DEF Typed, Admit
    <2>3. ASSUME NEW q \in Processes, NEW j \in Keys PROVE RetrySound(q, j)'
      <3>1. CASE q = p /\ j = k
        <4>1. /\ buckets'[p][k] = Pruned(p, k) \cup {x} /\ waiting'[p][k] = Passed
              /\ ~ Full(p, k)
          BY <1>0, <1>4 DEF Admit, Typed
        <4> QED BY <1>0, <3>1, <4>1, KeyAdmitted
      <3>2. CASE ~ (q = p /\ j = k)
        <4>1. buckets'[q][j] = buckets[q][j] /\ waiting'[q][j] = waiting[q][j]
          BY <1>0, <1>4, <3>2 DEF Admit, Typed
        <4> QED BY <1>0, <4>1, KeyUntouched
      <3> QED BY <3>1, <3>2
    <2> QED BY <2>2, <2>3 DEF RInv
  <1>5. ASSUME NEW p \in Processes, NEW k \in Keys, Refuse(p, k) PROVE RInv'
    <2> DEFINE w == [refused |-> TRUE,
                     until |-> IF waiting[p][k].refused /\ waiting[p][k].until < Told(p, k)
                               THEN waiting[p][k].until ELSE Told(p, k)]
    <2>1. /\ buckets'[p][k] = Pruned(p, k) /\ waiting'[p][k] = w /\ Full(p, k)
          /\ \A q \in Processes, j \in Keys : ~ (q = p /\ j = k) =>
                buckets'[q][j] = buckets[q][j] /\ waiting'[q][j] = waiting[q][j]
      BY <1>0, <1>5 DEF Refuse, KeptOnRefusal, Typed
    <2>2. RetrySound(p, k)'
      BY <1>0, <2>1, KeyRefused
    <2>3. w \in WaitType
      BY <2>1, <2>2 DEF RetrySound
    <2>4. Pruned(p, k) \subseteq Stamp
      BY <1>0 DEF Pruned, Typed
    <2>5. Typed' /\ waiting' \in [Processes -> [Keys -> WaitType]]
      <3>1. waiting' = [waiting EXCEPT ![p][k] = w]
        BY <1>5 DEF Refuse
      <3>2. waiting' \in [Processes -> [Keys -> WaitType]]
        <4> HIDE DEF w
        <4> QED BY <1>0, <2>3, <3>1
      <3> QED BY <1>0, <1>5, <2>4, <3>2 DEF Typed, Refuse, KeptOnRefusal
    <2>6. ASSUME NEW q \in Processes, NEW j \in Keys PROVE RetrySound(q, j)'
      BY <1>0, <2>1, <2>2, KeyUntouched
    <2> QED BY <2>5, <2>6 DEF RInv
  <1> QED BY <1>1, <1>2, <1>3, <1>4, <1>5 DEF Next

LEMMA Reachable == Spec => [](IInv /\ RInv)
  <1>1. Init => IInv /\ RInv
    BY InitIInv, InitRInv
  <1>2. IInv /\ RInv /\ [Next]_vars => (IInv /\ RInv)'
    BY NextIInv, NextRInv
  <1> QED BY <1>1, <1>2, PTL DEF Spec

(* A client that waits for what the refusal told it, and a second less a   *)
(* tick more, finds room, however often it asked in between: for all       *)
(* quotas, windows and resolutions of the clock (rate_limit.py:37-50).     *)
THEOREM RetryAfterIsEnough == Spec => []RetryIsEnough
  <1>1. RInv => RetryIsEnough
    <2> SUFFICES ASSUME RInv, NEW p \in Processes, NEW k \in Keys,
                        waiting[p][k].refused, now >= waiting[p][k].until
                 PROVE  ~ Full(p, k)
      BY DEF RetryIsEnough
    <2> DEFINE B == buckets[p][k]
    <2>1. Typed /\ RetrySound(p, k)
      BY DEF RInv
    <2>2. /\ Pruned(p, k) \in SUBSET B /\ Cardinality(Pruned(p, k)) \in Nat
          /\ Cardinality(Pruned(p, k)) <= Cardinality(B)
      BY <2>1, PrunedFacts
    <2>3. IsFiniteSet(B) /\ Cardinality(B) \in Nat /\ Cardinality(B) <= Quota[k[2]]
      BY <2>1, FS_CardinalityType DEF RetrySound
    <2>4. CASE Cardinality(B) < Quota[k[2]]
      BY <2>2, <2>3, <2>4, QuotaTyped DEF Full
    <2>5. CASE \E x \in B : Leaves(x, waiting[p][k].until)
      <3>1. PICK x \in B : Leaves(x, waiting[p][k].until)
        BY <2>5
      <3>2. x.at \in Nat /\ now \in Nat /\ waiting[p][k].until \in Nat
        BY <2>1 DEF Typed, Stamp, RetrySound, WaitType
      <3>3. x \notin Pruned(p, k)
        BY <3>1, <3>2, TimeAssumption DEF Leaves, Pruned
      <3>4. Pruned(p, k) # B
        BY <3>1, <3>3
      <3>5. Cardinality(Pruned(p, k)) < Cardinality(B)
        BY <2>2, <2>3, <3>4, FS_Subset
      <3> QED BY <2>2, <2>3, <3>5, QuotaTyped DEF Full
    <2> QED BY <2>1, <2>4, <2>5 DEF RetrySound
  <1> QED BY <1>1, Reachable, PTL

(* Every variable keeps its type and no bucket outgrows its quota.         *)
THEOREM TypeCorrect == Spec => []TypeOK
  <1>1. RInv => TypeOK
    BY DEF RInv, Typed, RetrySound, WaitType, TypeOK
  <1> QED BY <1>1, Reachable, PTL

-----------------------------------------------------------------------------
(* The gateway.  Every step of a server process is a step of its limiter   *)
(* or leaves the limiter alone.                                            *)

(* The limiter inside a server, with the requests in hand, the trackers    *)
(* and their readers around it, is the limiter: what is proved of Spec     *)
(* holds of every request's way through main.py (rate_limit.py:71-121).    *)
THEOREM GatewayKeepsLimits == GatewaySpec => Spec
  <1>1. GatewayInit => Init
    BY DEF GatewayInit
  <1>2. ASSUME [GatewayNext]_gvars PROVE [Next]_vars
    <2>0. GatewayNext \/ UNCHANGED gvars
      BY <1>2
    <2>1. CASE UNCHANGED gvars
      BY <2>1 DEF gvars
    <2>2. CASE Tick /\ UNCHANGED tracking
      BY <2>2 DEF Next
    <2>3. ASSUME NEW p \in Processes, RestartProcess(p) PROVE [Next]_vars
      BY <2>3 DEF RestartProcess, Next
    <2>4. ASSUME NEW p \in Processes, NEW s \in Connections, NEW client \in Clients,
                 NEW path \in Paths, Arrive(p, s, client, path)
          PROVE  [Next]_vars
      <3>1. <<client, BucketOf[path]>> \in Keys
        BY PathsAssumption DEF Keys
      <3> QED BY <2>4, <3>1 DEF Arrive, Next
    <2>5. ASSUME NEW p \in Processes, NEW s \in Connections, Respond(p, s) \/ Raise(p, s)
          PROVE  [Next]_vars
      BY <2>5 DEF Respond, Raise
    <2>6. ASSUME NEW p \in Processes, NEW r \in Readers, ReadClock(p, r) \/ Sweep(p, r)
          PROVE  [Next]_vars
      BY <2>6 DEF ReadClock, Sweep
    <2> QED BY <2>0, <2>1, <2>2, <2>3, <2>4, <2>5, <2>6, Zenon DEF GatewayNext
  <1> QED BY <1>1, <1>2, PTL DEF GatewaySpec, Spec

(* The deques.  Since: the stamps of a sequence from a time on.            *)
Since(stamps, t) == {j \in DOMAIN stamps : stamps[j] >= t}

Sorted(stamps) == \A i, j \in DOMAIN stamps : i <= j => stamps[i] <= stamps[j]

LEMMA SinceFinite ==
  ASSUME NEW stamps \in Seq(Nat), NEW t \in Int
  PROVE  IsFiniteSet(Since(stamps, t)) /\ Cardinality(Since(stamps, t)) \in Nat
  <1>1. Since(stamps, t) \in SUBSET (1..Len(stamps)) /\ Len(stamps) \in Nat
    BY LenProperties DEF Since
  <1>2. IsFiniteSet(1..Len(stamps))
    BY <1>1, FS_Interval
  <1> QED BY <1>1, <1>2, FS_Subset, FS_CardinalityType

LEMMA SinceAppend ==
  ASSUME NEW stamps \in Seq(Nat), NEW t \in Int, NEW x \in Nat
  PROVE  Cardinality(Since(Append(stamps, x), t)) =
           IF x >= t THEN Cardinality(Since(stamps, t)) + 1 ELSE Cardinality(Since(stamps, t))
  <1> DEFINE n == Len(stamps) + 1
  <1>1. /\ DOMAIN stamps = 1..Len(stamps) /\ Len(stamps) \in Nat
        /\ DOMAIN Append(stamps, x) = 1..n
        /\ Append(stamps, x)[n] = x
        /\ \A j \in 1..Len(stamps) : Append(stamps, x)[j] = stamps[j]
    BY LenProperties, AppendProperties
  <1>2. IsFiniteSet(Since(stamps, t)) /\ n \notin Since(stamps, t)
    <2>1. IsFiniteSet(Since(stamps, t))
      BY SinceFinite
    <2>2. n \notin Since(stamps, t)
      BY <1>1 DEF Since
    <2> QED BY <2>1, <2>2
  <1>3. CASE x >= t
    <2>1. Since(Append(stamps, x), t) = Since(stamps, t) \cup {n}
      BY <1>1, <1>3 DEF Since
    <2> QED BY <1>2, <1>3, <2>1, FS_AddElement
  <1>4. CASE ~ (x >= t)
    <2>1. Since(Append(stamps, x), t) = Since(stamps, t)
      BY <1>1, <1>4 DEF Since
    <2> QED BY <1>4, <2>1
  <1> QED BY <1>3, <1>4

(* What a reader drops is exactly the stamps before its cutoff.            *)
LEMMA KeptIsSuffix ==
  ASSUME NEW stamps \in Seq(Nat), Sorted(stamps), NEW cutoff \in Int
  PROVE  \E d \in 0..Len(stamps) :
            /\ Kept(stamps, cutoff) = SubSeq(stamps, d + 1, Len(stamps))
            /\ \A j \in 1..d : stamps[j] < cutoff
            /\ \A j \in (d + 1)..Len(stamps) : stamps[j] >= cutoff
  <1> DEFINE n == Len(stamps)
             old == {i \in DOMAIN stamps : \A j \in 1..i : stamps[j] < cutoff}
             young == {j \in 1..n : stamps[j] >= cutoff}
  <1>1. n \in Nat /\ DOMAIN stamps = 1..n /\ \A j \in 1..n : stamps[j] \in Nat
    BY LenProperties, ElementOfSeq
  <1>2. Kept(stamps, cutoff) = SubSeq(stamps, Cardinality(old) + 1, n)
    BY DEF Kept
  <1> HIDE DEF n
  <1>3. ASSUME NEW d \in 0..n, old = 1..d,
               \A j \in 1..d : stamps[j] < cutoff, \A j \in (d + 1)..n : stamps[j] >= cutoff
        PROVE  \E e \in 0..n :
                  /\ Kept(stamps, cutoff) = SubSeq(stamps, e + 1, n)
                  /\ \A j \in 1..e : stamps[j] < cutoff
                  /\ \A j \in (e + 1)..n : stamps[j] >= cutoff
    <2>1. Cardinality(old) = d
      <3>1. Cardinality(1..d) = IF 1 > d THEN 0 ELSE d - 1 + 1
        BY <1>1, FS_Interval
      <3> HIDE DEF old
      <3> QED BY <1>1, <1>3, <3>1
    <2> HIDE DEF old
    <2> QED BY <1>2, <1>3, <2>1
  <1>4. CASE young = {}
    <2>1. \A j \in 1..n : stamps[j] < cutoff
      BY <1>1, <1>4
    <2>2. old = 1..n
      BY <1>1, <2>1
    <2>3. n \in 0..n /\ (n + 1)..n = {}
      BY <1>1
    <2> HIDE DEF old
    <2> QED BY <1>3, <2>1, <2>2, <2>3 DEF n
  <1>5. CASE young # {}
    <2>1. young \in SUBSET Nat
      BY <1>1
    <2>2. PICK m \in young : \A j \in young : m <= j
      <3> HIDE DEF young
      <3> QED BY <1>5, <2>1, Smallest
    <2>3. m \in 1..n /\ stamps[m] >= cutoff
      OBVIOUS
    <2>4. \A j \in 1..(m - 1) : stamps[j] < cutoff
      BY <1>1, <2>2, <2>3
    <2>5. \A j \in m..n : stamps[j] >= cutoff
      <3> SUFFICES ASSUME NEW j \in m..n PROVE stamps[j] >= cutoff
        OBVIOUS
      <3>1. j \in 1..n /\ m <= j
        BY <1>1, <2>3
      <3>2. stamps[m] <= stamps[j]
        BY <1>1, <2>3, <3>1 DEF Sorted
      <3> QED BY <1>1, <2>3, <3>1, <3>2
    <2>6. old = 1..(m - 1)
      <3>1. ASSUME NEW i \in old PROVE i \in 1..(m - 1)
        BY <1>1, <2>3
      <3>2. ASSUME NEW i \in 1..(m - 1) PROVE i \in old
        <4>1. \A j \in 1..i : j \in 1..(m - 1)
          BY <1>1, <2>3
        <4> QED BY <1>1, <2>3, <2>4, <4>1
      <3> QED BY <3>1, <3>2
    <2>7. m - 1 \in 0..n /\ (m - 1) + 1 = m
      BY <1>1, <2>3
    <2> HIDE DEF old, young
    <2> QED BY <1>3, <2>4, <2>5, <2>6, <2>7 DEF n
  <1> QED BY <1>4, <1>5 DEF n

(* A sweep loses no stamp that is not older than its cutoff.               *)
LEMMA KeptSince ==
  ASSUME NEW stamps \in Seq(Nat), Sorted(stamps), NEW cutoff \in Int, NEW t \in Int
  PROVE  /\ Kept(stamps, cutoff) \in Seq(Nat) /\ Sorted(Kept(stamps, cutoff))
         /\ \A j \in DOMAIN Kept(stamps, cutoff) :
               \E i \in DOMAIN stamps : Kept(stamps, cutoff)[j] = stamps[i]
         /\ Cardinality(Since(Kept(stamps, cutoff), t)) <= Cardinality(Since(stamps, t))
         /\ t >= cutoff =>
               Cardinality(Since(Kept(stamps, cutoff), t)) = Cardinality(Since(stamps, t))
         /\ Len(Kept(stamps, cutoff)) = Cardinality(Since(stamps, cutoff))
  <1> DEFINE n == Len(stamps)
             K == Kept(stamps, cutoff)
  <1>1. n \in Nat /\ DOMAIN stamps = 1..n /\ \A j \in 1..n : stamps[j] \in Nat
    BY LenProperties, ElementOfSeq
  <1>2. PICK d \in 0..n :
            /\ K = SubSeq(stamps, d + 1, n)
            /\ \A j \in 1..d : stamps[j] < cutoff
            /\ \A j \in (d + 1)..n : stamps[j] >= cutoff
    BY KeptIsSuffix
  <1> HIDE DEF n, K
  <1>3. /\ K \in Seq(Nat) /\ Len(K) = n - d /\ DOMAIN K = 1..(n - d)
        /\ \A j \in 1..(n - d) : K[j] = stamps[j + d]
    <2>1. d + 1 \in Int /\ n \in Int /\ \A i \in (d + 1)..n : stamps[i] \in Nat
      BY <1>1
    <2>2. /\ K \in Seq(Nat) /\ Len(K) = (IF d + 1 <= n THEN n - (d + 1) + 1 ELSE 0)
          /\ \A i \in 1..(n - (d + 1) + 1) : K[i] = stamps[(d + 1) + i - 1]
      BY <1>2, <2>1, SubSeqProperties
    <2>3. Len(K) = n - d
      BY <1>1, <2>2
    <2>4. \A j \in 1..(n - d) : j \in 1..(n - (d + 1) + 1) /\ (d + 1) + j - 1 = j + d
      BY <1>1
    <2>5. \A j \in 1..(n - d) : K[j] = stamps[j + d]
      BY <2>2, <2>4
    <2>6. DOMAIN K = 1..(n - d)
      BY <2>2, <2>3, LenProperties
    <2> QED BY <2>2, <2>3, <2>5, <2>6
  <1>4. \A j \in 1..(n - d) : j + d \in 1..n /\ j + d \in (d + 1)..n
    BY <1>1
  <1>5. Sorted(K)
    <2> SUFFICES ASSUME NEW i \in 1..(n - d), NEW j \in 1..(n - d), i <= j PROVE K[i] <= K[j]
      BY <1>3 DEF Sorted
    <2>1. i + d <= j + d
      OBVIOUS
    <2> QED BY <1>1, <1>3, <1>4, <2>1 DEF Sorted
  <1>6. \A j \in DOMAIN K : \E i \in DOMAIN stamps : K[j] = stamps[i]
    BY <1>1, <1>3, <1>4
  <1> DEFINE A == Since(K, t)
             B == Since(stamps, t)
             f == [j \in A |-> j + d]
  <1>7. IsFiniteSet(B) /\ Cardinality(B) \in Nat
    BY SinceFinite
  <1>8. A \subseteq 1..(n - d) /\ B \subseteq 1..n
    BY <1>1, <1>3 DEF Since
  <1>9. f \in Injection(A, B)
    <2>1. ASSUME NEW j \in A PROVE j + d \in B
      BY <1>1, <1>3, <1>4, <1>8 DEF Since
    <2>2. ASSUME NEW i \in A, NEW j \in A, f[i] = f[j] PROVE i = j
      BY <1>8, <2>2
    <2>3. f \in [A -> B]
      BY <2>1
    <2> HIDE DEF f
    <2> QED BY <2>2, <2>3 DEF Injection, IsInjective
  <1>10. Cardinality(A) <= Cardinality(B) /\ (Cardinality(A) = Cardinality(B) <=> f \in Surjection(A, B))
    <2> HIDE DEF f, A, B
    <2> QED BY <1>7, <1>9, FS_Injection
  <1>11. ASSUME t >= cutoff PROVE Cardinality(A) = Cardinality(B)
    <2>1. ASSUME NEW i \in B PROVE \E j \in A : f[j] = i
      <3>1. i \in 1..n /\ stamps[i] >= t
        BY <1>1 DEF Since
      <3>2. ~ (i \in 1..d)
        BY <1>1, <1>2, <1>11, <3>1
      <3>3. i - d \in 1..(n - d) /\ (i - d) + d = i
        BY <1>1, <3>1, <3>2
      <3>4. i - d \in A
        BY <1>3, <3>1, <3>3 DEF Since
      <3>5. f[i - d] = i
        BY <3>3, <3>4
      <3> HIDE DEF f, A
      <3> QED BY <3>4, <3>5
    <2>2. f \in [A -> B]
      BY <1>9 DEF Injection
    <2> HIDE DEF f, A, B
    <2>3. f \in Surjection(A, B)
      BY <2>1, <2>2 DEF Surjection
    <2> QED BY <1>10, <2>3
  <1>12. Len(K) = Cardinality(Since(stamps, cutoff))
    <2>1. Since(stamps, cutoff) = (d + 1)..n
      <3>1. ASSUME NEW j \in Since(stamps, cutoff) PROVE j \in (d + 1)..n
        BY <1>1, <1>2 DEF Since
      <3>2. ASSUME NEW j \in (d + 1)..n PROVE j \in Since(stamps, cutoff)
        BY <1>1, <1>2 DEF Since
      <3> QED BY <3>1, <3>2
    <2>2. Cardinality((d + 1)..n) = n - d
      <3>1. d + 1 \in Int /\ n \in Int
        BY <1>1
      <3>2. Cardinality((d + 1)..n) = IF d + 1 > n THEN 0 ELSE n - (d + 1) + 1
        BY <3>1, FS_Interval
      <3> QED BY <1>1, <3>2
    <2> QED BY <1>3, <2>1, <2>2
  <1> QED BY <1>3, <1>5, <1>6, <1>10, <1>11, <1>12 DEF K

(* The answers that a category counts from a time on.                      *)
Answered == [path: Paths \cup {"none"}, status: {200, 400, 429, 500}, at: Nat]

Hits(log, c, t) ==
  {i \in DOMAIN log : log[i].at >= t /\ c \in CategoriesOf(log[i].path, log[i].status)}

LEMMA HappenedIsHits ==
  ASSUME served \in [Processes -> Seq(Answered)],
         NEW p \in Processes, NEW c \in Categories, NEW t \in Int
  PROVE  Happened(p, c, t) = Hits(served[p], c, t)
  <1> DEFINE log == served[p]
  <1>1. \A i \in DOMAIN log : log[i] \in Answered
    BY ElementOfSeq, LenProperties
  <1> HIDE DEF log
  <1>2. ASSUME NEW i \in DOMAIN log
        PROVE  c \in CategoriesOf(log[i].path, log[i].status) <=>
                 CASE c = "logins" -> log[i].path = "login"
                   [] c = "registrations" -> log[i].path = "register" /\ log[i].status = 200
                   [] c = "transactions" -> log[i].path = "transfer" /\ log[i].status = 200
                   [] c = "errors_4xx" -> log[i].status \in {400, 429}
                   [] c = "errors_5xx" -> log[i].status = 500
    <2> DEFINE status == log[i].status
               path == log[i].path
    <2>1. status \in {200, 400, 429, 500}
      BY <1>1 DEF Answered
    <2>2. c \in CategoriesOf(path, status) <=>
            \/ c = "errors_5xx" /\ status >= 500
            \/ c = "errors_4xx" /\ status \in 400..499
            \/ c = "logins" /\ path = "login"
            \/ c = "registrations" /\ path = "register" /\ status = 200
            \/ c = "transactions" /\ path = "transfer" /\ status = 200
      BY DEF CategoriesOf
    <2> HIDE DEF status, path
    <2>3. (status >= 500) <=> (status = 500)
      BY <2>1
    <2>4. (status \in 400..499) <=> (status \in {400, 429})
      BY <2>1
    <2>6. CASE c = "logins"
      BY <2>2, <2>6 DEF status, path
    <2>7. CASE c = "registrations"
      BY <2>2, <2>7 DEF status, path
    <2>8. CASE c = "transactions"
      BY <2>2, <2>8 DEF status, path
    <2>9. CASE c = "errors_4xx"
      BY <2>2, <2>4, <2>9 DEF status, path
    <2>10. CASE c = "errors_5xx"
      BY <2>2, <2>3, <2>10 DEF status, path
    <2> QED BY <2>6, <2>7, <2>8, <2>9, <2>10 DEF Categories
  <1> QED BY <1>2 DEF Happened, Hits, log

LEMMA HitsFinite ==
  ASSUME NEW log \in Seq(Answered), NEW c, NEW t \in Int
  PROVE  IsFiniteSet(Hits(log, c, t)) /\ Cardinality(Hits(log, c, t)) \in Nat
  <1>1. Hits(log, c, t) \in SUBSET (1..Len(log)) /\ Len(log) \in Nat
    BY LenProperties DEF Hits
  <1>2. IsFiniteSet(1..Len(log))
    BY <1>1, FS_Interval
  <1> QED BY <1>1, <1>2, FS_Subset, FS_CardinalityType

LEMMA HitsAppend ==
  ASSUME NEW log \in Seq(Answered), NEW c, NEW t \in Int, NEW x \in Answered
  PROVE  Cardinality(Hits(Append(log, x), c, t)) =
           IF x.at >= t /\ c \in CategoriesOf(x.path, x.status)
           THEN Cardinality(Hits(log, c, t)) + 1 ELSE Cardinality(Hits(log, c, t))
  <1> DEFINE n == Len(log) + 1
             counts == x.at >= t /\ c \in CategoriesOf(x.path, x.status)
  <1>1. /\ DOMAIN log = 1..Len(log) /\ Len(log) \in Nat
        /\ DOMAIN Append(log, x) = 1..n
        /\ Append(log, x)[n] = x
        /\ \A j \in 1..Len(log) : Append(log, x)[j] = log[j]
    BY LenProperties, AppendProperties
  <1>2. IsFiniteSet(Hits(log, c, t)) /\ n \notin Hits(log, c, t)
    <2>1. IsFiniteSet(Hits(log, c, t))
      BY HitsFinite
    <2>2. n \notin Hits(log, c, t)
      BY <1>1 DEF Hits
    <2> QED BY <2>1, <2>2
  <1>3. CASE counts
    <2>1. Hits(Append(log, x), c, t) = Hits(log, c, t) \cup {n}
      BY <1>1, <1>3 DEF Hits
    <2> QED BY <1>2, <1>3, <2>1, FS_AddElement
  <1>4. CASE ~ counts
    <2>1. Hits(Append(log, x), c, t) = Hits(log, c, t)
      BY <1>1, <1>4 DEF Hits
    <2> QED BY <1>4, <2>1
  <1> QED BY <1>3, <1>4

(* The invariant: from the beginning of the last window on, the deques     *)
(* hold a stamp for each answer that counts, whatever readers have swept;  *)
(* before that they may have lost some, and never hold more.               *)
CallType == [path: Paths \cup {"none"}, status: {0, 1, 429}]
ReadType == [on: BOOLEAN, cutoff: Int]

TrackTyped ==
  /\ now \in Nat
  /\ calls \in [Processes -> [Connections -> CallType]]
  /\ events \in [Processes -> [Categories -> Seq(Nat)]]
  /\ reader \in [Processes -> [Readers -> ReadType]]
  /\ served \in [Processes -> Seq(Answered)]

DequeSound(p, c) ==
  /\ Sorted(events[p][c])
  /\ \A j \in DOMAIN events[p][c] : events[p][c][j] <= now
  /\ \A t \in Int :
        /\ Cardinality(Since(events[p][c], t)) <= Cardinality(Hits(served[p], c, t))
        /\ t >= now - Window =>
              Cardinality(Since(events[p][c], t)) = Cardinality(Hits(served[p], c, t))

ReaderSound(p, r) == reader[p][r].on => reader[p][r].cutoff <= now - Window

GInv ==
  /\ TrackTyped
  /\ \A p \in Processes, c \in Categories : DequeSound(p, c)
  /\ \A p \in Processes, r \in Readers : ReaderSound(p, r)

LEMMA EmptyDeque ==
  ASSUME NEW p \in Processes, NEW c \in Categories, events[p][c] = <<>>, served[p] = <<>>
  PROVE  DequeSound(p, c)
  <1>1. \A t \in Int : Since(<<>>, t) = {} /\ Hits(<<>>, c, t) = {}
    BY DEF Since, Hits
  <1>2. Cardinality({}) = 0
    BY FS_EmptySet
  <1>3. \A t \in Int :
          Cardinality(Since(events[p][c], t)) = 0 /\ Cardinality(Hits(served[p], c, t)) = 0
    BY <1>1, <1>2
  <1>4. DOMAIN events[p][c] = {}
    OBVIOUS
  <1>5. Sorted(events[p][c])
    BY <1>4, Zenon DEF Sorted
  <1> QED BY <1>3, <1>4, <1>5 DEF DequeSound

LEMMA InitGInv == GatewayInit => GInv
  <1> SUFFICES ASSUME GatewayInit PROVE GInv
    OBVIOUS
  <1>1. TrackTyped
    BY DEF GatewayInit, Init, TrackTyped, NoCall, NoRead, CallType, ReadType
  <1>2. ASSUME NEW p \in Processes, NEW c \in Categories PROVE DequeSound(p, c)
    BY EmptyDeque DEF GatewayInit
  <1>3. ASSUME NEW p \in Processes, NEW r \in Readers PROVE ReaderSound(p, r)
    BY DEF GatewayInit, ReaderSound, NoRead
  <1> QED BY <1>1, <1>2, <1>3 DEF GInv

LEMMA WindowMoves ==
  ASSUME NEW m \in Nat, NEW n \in Nat, m <= n
  PROVE  \A t \in Int : t >= n - Window => t >= m - Window
  <1>1. Window \in Nat
    BY TimeAssumption
  <1> QED BY <1>1

(* What is not touched stays sound as time passes.                         *)
LEMMA DequeAged ==
  ASSUME NEW p \in Processes, NEW c \in Categories, TrackTyped, DequeSound(p, c),
         now' \in Nat, now' >= now, events'[p][c] = events[p][c], served'[p] = served[p]
  PROVE  DequeSound(p, c)'
  <1>1. events[p][c] \in Seq(Nat)
    BY DEF TrackTyped
  <1>2. \A j \in DOMAIN events[p][c] : events[p][c][j] \in Nat
    BY <1>1, ElementOfSeq, LenProperties
  <1>3. \A t \in Int : t >= now' - Window => t >= now - Window
    <2>1. now \in Nat
      BY DEF TrackTyped
    <2> QED BY <2>1, WindowMoves
  <1>4. \A j \in DOMAIN events[p][c] : events[p][c][j] <= now'
    BY <1>2 DEF DequeSound, TrackTyped
  <1> QED BY <1>3, <1>4 DEF DequeSound

LEMMA ReaderAged ==
  ASSUME NEW p \in Processes, NEW r \in Readers, TrackTyped, ReaderSound(p, r),
         now' \in Nat, now' >= now, reader'[p][r] = reader[p][r]
  PROVE  ReaderSound(p, r)'
  <1>1. reader[p][r].cutoff \in Int /\ now \in Nat /\ Window \in Nat
    <2>1. reader[p][r] \in ReadType /\ now \in Nat
      BY DEF TrackTyped
    <2>2. reader[p][r].cutoff \in Int
      BY <2>1 DEF ReadType
    <2> QED BY <2>1, <2>2, TimeAssumption
  <1>2. reader[p][r].cutoff <= now - Window => reader[p][r].cutoff <= now' - Window
    BY <1>1
  <1> QED BY <1>2 DEF ReaderSound

(* An answer is appended where it counts, and to the history.              *)
LEMMA DequeLogs ==
  ASSUME NEW p \in Processes, NEW c \in Categories, TrackTyped, DequeSound(p, c),
         NEW x \in Answered, x.at = now, now' = now,
         served'[p] = Append(served[p], x),
         events'[p][c] = IF c \in CategoriesOf(x.path, x.status)
                         THEN Append(events[p][c], now) ELSE events[p][c]
  PROVE  DequeSound(p, c)'
  <1> DEFINE e == events[p][c]
             log == served[p]
  <1>1. e \in Seq(Nat) /\ log \in Seq(Answered) /\ now \in Nat
    BY DEF TrackTyped
  <1>2. /\ DOMAIN e = 1..Len(e) /\ Len(e) \in Nat
        /\ \A j \in 1..Len(e) : e[j] \in Nat /\ e[j] <= now
        /\ Sorted(e)
    BY <1>1, ElementOfSeq, LenProperties DEF DequeSound
  <1>3. \A t \in Int :
          /\ Cardinality(Since(e, t)) \in Nat /\ Cardinality(Hits(log, c, t)) \in Nat
          /\ Cardinality(Since(e, t)) <= Cardinality(Hits(log, c, t))
          /\ t >= now - Window => Cardinality(Since(e, t)) = Cardinality(Hits(log, c, t))
    BY <1>1, SinceFinite, HitsFinite DEF DequeSound
  <1>4. \A t \in Int :
          Cardinality(Hits(served'[p], c, t)) =
            IF now >= t /\ c \in CategoriesOf(x.path, x.status)
            THEN Cardinality(Hits(log, c, t)) + 1 ELSE Cardinality(Hits(log, c, t))
    BY <1>1, HitsAppend
  <1>5. CASE c \in CategoriesOf(x.path, x.status)
    <2> DEFINE e2 == Append(e, now)
    <2>1. events'[p][c] = e2
      BY <1>5
    <2>2. /\ DOMAIN e2 = 1..(Len(e) + 1) /\ e2[Len(e) + 1] = now
          /\ \A j \in 1..Len(e) : e2[j] = e[j]
      BY <1>1, AppendProperties, LenProperties
    <2>3. \A t \in Int : Cardinality(Since(e2, t)) =
             IF now >= t THEN Cardinality(Since(e, t)) + 1 ELSE Cardinality(Since(e, t))
      BY <1>1, SinceAppend
    <2> HIDE DEF e2
    <2>4. \A j \in DOMAIN e2 : e2[j] \in Nat /\ e2[j] <= now
      BY <1>1, <1>2, <2>2
    <2>5. Sorted(e2)
      <3> SUFFICES ASSUME NEW i \in 1..(Len(e) + 1), NEW j \in 1..(Len(e) + 1), i <= j
                   PROVE  e2[i] <= e2[j]
        BY <2>2 DEF Sorted
      <3>1. CASE j = Len(e) + 1
        BY <2>2, <2>4, <3>1
      <3>2. CASE j # Len(e) + 1
        <4>1. i \in 1..Len(e) /\ j \in 1..Len(e)
          <5>1. Len(e) \in Nat
            BY <1>2
          <5> HIDE DEF e
          <5> QED BY <3>2, <5>1
        <4>2. e[i] <= e[j]
          BY <1>2, <4>1 DEF Sorted
        <4> QED BY <2>2, <4>1, <4>2
      <3> QED BY <3>1, <3>2
    <2>6. \A t \in Int :
            /\ Cardinality(Since(e2, t)) <= Cardinality(Hits(served'[p], c, t))
            /\ t >= now - Window =>
                 Cardinality(Since(e2, t)) = Cardinality(Hits(served'[p], c, t))
      <3> SUFFICES ASSUME NEW t \in Int
                   PROVE  /\ Cardinality(Since(e2, t)) <= Cardinality(Hits(served'[p], c, t))
                          /\ t >= now - Window =>
                               Cardinality(Since(e2, t)) = Cardinality(Hits(served'[p], c, t))
        OBVIOUS
      <3> DEFINE held == Cardinality(Since(e, t))
                 due == Cardinality(Hits(log, c, t))
      <3>1. held \in Nat /\ due \in Nat /\ held <= due /\ (t >= now - Window => held = due)
        BY <1>3
      <3>2. /\ Cardinality(Since(e2, t)) = IF now >= t THEN held + 1 ELSE held
            /\ Cardinality(Hits(served'[p], c, t)) = IF now >= t THEN due + 1 ELSE due
        BY <1>4, <1>5, <2>3
      <3> HIDE DEF held, due
      <3> QED BY <3>1, <3>2
    <2> QED BY <2>1, <2>4, <2>5, <2>6 DEF DequeSound
  <1>6. CASE c \notin CategoriesOf(x.path, x.status)
    <2>1. events'[p][c] = e
      BY <1>6
    <2>2. \A t \in Int : Cardinality(Hits(served'[p], c, t)) = Cardinality(Hits(log, c, t))
      BY <1>4, <1>6
    <2> QED BY <1>2, <1>3, <2>1, <2>2 DEF DequeSound
  <1> QED BY <1>5, <1>6

(* A sweep, whose cutoff is never inside the last window.                  *)
LEMMA DequeSwept ==
  ASSUME NEW p \in Processes, NEW c \in Categories, TrackTyped, DequeSound(p, c),
         NEW cutoff \in Int, cutoff <= now - Window, now' = now, served'[p] = served[p],
         events'[p][c] = Kept(events[p][c], cutoff)
  PROVE  DequeSound(p, c)'
  <1> DEFINE e == events[p][c]
             K == Kept(e, cutoff)
  <1>1. e \in Seq(Nat) /\ Sorted(e) /\ now \in Nat /\ Window \in Nat
    BY TimeAssumption DEF TrackTyped, DequeSound
  <1>2. /\ K \in Seq(Nat) /\ Sorted(K)
        /\ \A j \in DOMAIN K : \E i \in DOMAIN e : K[j] = e[i]
    BY <1>1, KeptSince
  <1>3. \A t \in Int :
          /\ Cardinality(Since(K, t)) <= Cardinality(Since(e, t))
          /\ t >= cutoff => Cardinality(Since(K, t)) = Cardinality(Since(e, t))
          /\ Cardinality(Since(e, t)) \in Nat /\ Cardinality(Since(K, t)) \in Nat
    BY <1>1, <1>2, KeptSince, SinceFinite
  <1>4. \A t \in Int : Cardinality(Hits(served[p], c, t)) \in Nat
    BY HitsFinite DEF TrackTyped
  <1>5. \A t \in Int : t >= now - Window => t >= cutoff
    BY <1>1
  <1>6. \A j \in DOMAIN K : K[j] <= now
    BY <1>2 DEF DequeSound
  <1> HIDE DEF K
  <1>7. \A t \in Int :
          /\ Cardinality(Since(K, t)) <= Cardinality(Hits(served[p], c, t))
          /\ t >= now - Window => Cardinality(Since(K, t)) = Cardinality(Hits(served[p], c, t))
    BY <1>3, <1>4, <1>5 DEF DequeSound
  <1> QED BY <1>2, <1>6, <1>7 DEF DequeSound, K

LEMMA NextGInv == GInv /\ [GatewayNext]_gvars => GInv'
  <1> SUFFICES ASSUME GInv, [GatewayNext]_gvars PROVE GInv'
    OBVIOUS
  <1>0. /\ TrackTyped
        /\ \A p \in Processes, c \in Categories : DequeSound(p, c)
        /\ \A p \in Processes, r \in Readers : ReaderSound(p, r)
    BY DEF GInv
  <1>n. NoCall \in CallType /\ NoRead \in ReadType
    BY DEF NoCall, CallType, NoRead, ReadType
  <1>a. GatewayNext \/ UNCHANGED gvars
    OBVIOUS
  <1>1. ASSUME now' \in Nat, now' >= now, UNCHANGED <<events, reader, served>>,
               calls' \in [Processes -> [Connections -> CallType]]
        PROVE  GInv'
    <2>1. TrackTyped'
      BY <1>0, <1>1 DEF TrackTyped
    <2>2. \A p \in Processes, c \in Categories : DequeSound(p, c)'
      BY <1>0, <1>1, DequeAged
    <2>3. \A p \in Processes, r \in Readers : ReaderSound(p, r)'
      BY <1>0, <1>1, ReaderAged
    <2> QED BY <2>1, <2>2, <2>3 DEF GInv
  <1>2. CASE UNCHANGED gvars
    BY <1>0, <1>1, <1>2 DEF gvars, vars, tracking, TrackTyped
  <1>3. CASE Tick /\ UNCHANGED tracking
    BY <1>0, <1>1, <1>3 DEF Tick, tracking, TrackTyped
  <1>4. ASSUME NEW p \in Processes, NEW s \in Connections, NEW client \in Clients,
               NEW path \in Paths, Arrive(p, s, client, path)
        PROVE  GInv'
    <2>1. now' = now /\ UNCHANGED <<events, reader, served>>
      BY <1>4 DEF Arrive, Admit, Refuse
    <2>2. \E x \in CallType : calls' = [calls EXCEPT ![p][s] = x]
      <3>1. [path |-> path, status |-> 1] \in CallType /\ [path |-> path, status |-> 429] \in CallType
        BY DEF CallType
      <3> QED BY <1>4, <3>1 DEF Arrive
    <2>3. calls' \in [Processes -> [Connections -> CallType]]
      BY <1>0, <2>2 DEF TrackTyped
    <2> QED BY <1>0, <1>1, <2>1, <2>3 DEF TrackTyped
  <1>5. ASSUME NEW p \in Processes, NEW s \in Connections, Raise(p, s) PROVE GInv'
    <2>1. now' = now /\ UNCHANGED <<events, reader, served>>
      BY <1>5 DEF Raise, vars
    <2>2. calls' \in [Processes -> [Connections -> CallType]]
      BY <1>0, <1>5, <1>n DEF TrackTyped, Raise
    <2> QED BY <1>0, <1>1, <2>1, <2>2 DEF TrackTyped
  <1>6. ASSUME NEW p \in Processes, NEW s \in Connections, Respond(p, s) PROVE GInv'
    <2> DEFINE call == calls[p][s]
    <2>1. PICK status \in (IF call.status = 429 THEN {429} ELSE {200, 400, 500}) :
             Log(p, call.path, status)
      BY <1>6 DEF Respond
    <2> DEFINE x == [path |-> call.path, status |-> status, at |-> now]
    <2>2. call \in CallType /\ now \in Nat
      BY <1>0 DEF TrackTyped
    <2>3. x \in Answered
      BY <2>2 DEF CallType, Answered
    <2>4. UNCHANGED <<now, reader>> /\ calls' = [calls EXCEPT ![p][s] = NoCall]
      BY <1>6 DEF Respond, vars
    <2>5. /\ served' = [served EXCEPT ![p] = Append(@, x)]
          /\ events' = [events EXCEPT ![p] =
                [c \in Categories |-> IF c \in CategoriesOf(x.path, x.status)
                                      THEN Append(@[c], now) ELSE @[c]]]
      BY <2>1 DEF Log
    <2>x. x.at = now
      OBVIOUS
    <2> HIDE DEF x
    <2>6. served'[p] = Append(served[p], x) /\ served' \in [Processes -> Seq(Answered)]
          /\ \A q \in Processes : q # p => served'[q] = served[q]
      <3>1. Append(served[p], x) \in Seq(Answered)
        BY <1>0, <2>3, AppendProperties DEF TrackTyped
      <3> QED BY <1>0, <2>5, <3>1 DEF TrackTyped
    <2>7. /\ events' \in [Processes -> [Categories -> Seq(Nat)]]
          /\ \A q \in Processes : q # p => events'[q] = events[q]
          /\ \A c \in Categories :
                events'[p][c] = IF c \in CategoriesOf(x.path, x.status)
                                THEN Append(events[p][c], now) ELSE events[p][c]
      <3>1. \A c \in Categories : events[p][c] \in Seq(Nat) /\ Append(events[p][c], now) \in Seq(Nat)
        BY <1>0, <2>2, AppendProperties DEF TrackTyped
      <3> QED BY <1>0, <2>5, <3>1 DEF TrackTyped
    <2>8. TrackTyped'
      <3>1. calls' \in [Processes -> [Connections -> CallType]]
        BY <1>0, <1>n, <2>4 DEF TrackTyped
      <3> QED BY <1>0, <2>4, <2>6, <2>7, <3>1 DEF TrackTyped
    <2>9. ASSUME NEW q \in Processes, NEW c \in Categories PROVE DequeSound(q, c)'
      <3>1. CASE q = p
        <4>1. /\ TrackTyped /\ DequeSound(p, c) /\ x \in Answered /\ x.at = now /\ now' = now
              /\ served'[p] = Append(served[p], x)
              /\ events'[p][c] = IF c \in CategoriesOf(x.path, x.status)
                                 THEN Append(events[p][c], now) ELSE events[p][c]
          BY <1>0, <2>x, <2>3, <2>4, <2>6, <2>7
        <4>2. DequeSound(p, c)'
          BY <4>1, DequeLogs
        <4> QED BY <3>1, <4>2
      <3>2. CASE q # p
        <4>1. events'[q][c] = events[q][c] /\ served'[q] = served[q]
          BY <2>6, <2>7, <3>2
        <4> QED BY <1>0, <2>2, <2>4, <4>1, DequeAged
      <3> QED BY <3>1, <3>2
    <2>10. ASSUME NEW q \in Processes, NEW r \in Readers PROVE ReaderSound(q, r)'
      BY <1>0, <2>2, <2>4, ReaderAged
    <2> QED BY <2>8, <2>9, <2>10 DEF GInv
  <1>7. ASSUME NEW p \in Processes, NEW r \in Readers, ReadClock(p, r) PROVE GInv'
    <2> DEFINE x == [on |-> TRUE, cutoff |-> now - Window]
    <2>1. now \in Nat /\ x \in ReadType /\ x.cutoff = now - Window
      BY <1>0, TimeAssumption DEF TrackTyped, ReadType
    <2>2. UNCHANGED <<now, calls, events, served>> /\ reader' = [reader EXCEPT ![p][r] = x]
      BY <1>7 DEF ReadClock, vars
    <2> HIDE DEF x
    <2>3. TrackTyped'
      BY <1>0, <2>1, <2>2 DEF TrackTyped
    <2>4. \A q \in Processes, c \in Categories : DequeSound(q, c)'
      BY <1>0, <2>1, <2>2, DequeAged
    <2>5. ASSUME NEW q \in Processes, NEW r2 \in Readers PROVE ReaderSound(q, r2)'
      <3>1. CASE q = p /\ r2 = r
        <4>1. reader'[q][r2] = x
          BY <1>0, <2>2, <3>1 DEF TrackTyped
        <4>2. now - Window <= now - Window
          BY <2>1, TimeAssumption
        <4> QED BY <2>1, <2>2, <4>1, <4>2 DEF ReaderSound
      <3>2. CASE ~ (q = p /\ r2 = r)
        <4>1. reader'[q][r2] = reader[q][r2]
          BY <1>0, <2>2, <3>2 DEF TrackTyped
        <4> QED BY <1>0, <2>1, <2>2, <4>1, ReaderAged
      <3> QED BY <3>1, <3>2
    <2> QED BY <2>3, <2>4, <2>5 DEF GInv
  <1>8. ASSUME NEW p \in Processes, NEW r \in Readers, Sweep(p, r) PROVE GInv'
    <2> DEFINE cut == reader[p][r].cutoff
    <2>1. now \in Nat /\ cut \in Int /\ cut <= now - Window
      BY <1>0, <1>8 DEF TrackTyped, ReadType, ReaderSound, Sweep
    <2>2. /\ UNCHANGED <<now, calls, served>> /\ reader' = [reader EXCEPT ![p][r] = NoRead]
          /\ events' = [events EXCEPT ![p] = [c \in Categories |-> Kept(events[p][c], cut)]]
      BY <1>8 DEF Sweep, vars
    <2> HIDE DEF cut
    <2>3. \A c \in Categories : Kept(events[p][c], cut) \in Seq(Nat)
      BY <1>0, <2>1, KeptSince DEF TrackTyped, DequeSound
    <2>4. /\ events' \in [Processes -> [Categories -> Seq(Nat)]]
          /\ \A q \in Processes : q # p => events'[q] = events[q]
          /\ \A c \in Categories : events'[p][c] = Kept(events[p][c], cut)
      BY <1>0, <2>2, <2>3 DEF TrackTyped
    <2>5. TrackTyped'
      BY <1>0, <1>n, <2>2, <2>4 DEF TrackTyped
    <2>6. ASSUME NEW q \in Processes, NEW c \in Categories PROVE DequeSound(q, c)'
      <3>1. CASE q = p
        BY <1>0, <2>1, <2>2, <2>4, <3>1, DequeSwept
      <3>2. CASE q # p
        <4>1. events'[q][c] = events[q][c] /\ served'[q] = served[q]
          BY <2>2, <2>4, <3>2
        <4> QED BY <1>0, <2>1, <2>2, <4>1, DequeAged
      <3> QED BY <3>1, <3>2
    <2>7. ASSUME NEW q \in Processes, NEW r2 \in Readers PROVE ReaderSound(q, r2)'
      <3>1. CASE q = p /\ r2 = r
        <4>1. reader'[q][r2] = NoRead
          BY <1>0, <2>2, <3>1 DEF TrackTyped
        <4> QED BY <4>1 DEF ReaderSound, NoRead
      <3>2. CASE ~ (q = p /\ r2 = r)
        <4>1. reader'[q][r2] = reader[q][r2]
          BY <1>0, <2>2, <3>2 DEF TrackTyped
        <4> QED BY <1>0, <2>1, <2>2, <4>1, ReaderAged
      <3> QED BY <3>1, <3>2
    <2> QED BY <2>5, <2>6, <2>7 DEF GInv
  <1>9. ASSUME NEW p \in Processes, RestartProcess(p) PROVE GInv'
    <2>1. /\ now' = now /\ now \in Nat
          /\ calls' = [calls EXCEPT ![p] = [s \in Connections |-> NoCall]]
          /\ events' = [events EXCEPT ![p] = [c \in Categories |-> <<>>]]
          /\ reader' = [reader EXCEPT ![p] = [r \in Readers |-> NoRead]]
          /\ served' = [served EXCEPT ![p] = <<>>]
      BY <1>0, <1>9 DEF RestartProcess, Restart, TrackTyped
    <2>2. TrackTyped'
      BY <1>0, <1>n, <2>1 DEF TrackTyped
    <2>3. ASSUME NEW q \in Processes, NEW c \in Categories PROVE DequeSound(q, c)'
      <3>1. CASE q = p
        <4>1. events'[q][c] = <<>> /\ served'[q] = <<>>
          BY <1>0, <2>1, <3>1 DEF TrackTyped
        <4>2. ASSUME NEW t \in Int
              PROVE  /\ Cardinality(Since(events'[q][c], t)) = 0
                     /\ Cardinality(Hits(served'[q], c, t)) = 0
          <5>1. Since(<<>>, t) = {} /\ Hits(<<>>, c, t) = {}
            BY DEF Since, Hits
          <5> QED BY <4>1, <5>1, FS_EmptySet
        <4>3. DOMAIN events'[q][c] = {}
          BY <4>1
        <4>4. Sorted(events'[q][c])
          BY <4>3, Zenon DEF Sorted
        <4> QED BY <4>2, <4>3, <4>4 DEF DequeSound
      <3>2. CASE q # p
        <4>1. events'[q][c] = events[q][c] /\ served'[q] = served[q]
          BY <1>0, <2>1, <3>2 DEF TrackTyped
        <4> QED BY <1>0, <2>1, <4>1, DequeAged
      <3> QED BY <3>1, <3>2
    <2>4. ASSUME NEW q \in Processes, NEW r2 \in Readers PROVE ReaderSound(q, r2)'
      <3>1. CASE q = p
        <4>1. reader'[q][r2] = NoRead
          BY <1>0, <2>1, <3>1 DEF TrackTyped
        <4> QED BY <4>1 DEF ReaderSound, NoRead
      <3>2. CASE q # p
        <4>1. reader'[q][r2] = reader[q][r2]
          BY <1>0, <2>1, <3>2 DEF TrackTyped
        <4> QED BY <1>0, <2>1, <4>1, ReaderAged
      <3> QED BY <3>1, <3>2
    <2> QED BY <2>2, <2>3, <2>4 DEF GInv
  <1> QED BY <1>a, <1>2, <1>3, <1>4, <1>5, <1>6, <1>7, <1>8, <1>9, Zenon DEF GatewayNext

(* GET /operations/metrics neither loses an answered request of the last   *)
(* window nor counts one twice or from outside its own, for any number of  *)
(* threads sweeping the same deques with cutoffs of different ages         *)
(* (operations_service.py:36-53, logging_middleware.py:24-34).             *)
THEOREM RatesAreTrue == GatewaySpec => []CountsAreTrue
  <1>1. GInv => CountsAreTrue
    <2> SUFFICES ASSUME GInv, NEW p \in Processes, NEW r \in Readers, NEW c \in Categories,
                        reader[p][r].on
                 PROVE  /\ CountNow(p, r, c) >= Cardinality(Happened(p, c, now - Window))
                        /\ CountNow(p, r, c) <= Cardinality(Happened(p, c, reader[p][r].cutoff))
      BY DEF CountsAreTrue
    <2> DEFINE e == events[p][c]
               cut == reader[p][r].cutoff
               from == now - Window
    <2>1. TrackTyped /\ DequeSound(p, c) /\ ReaderSound(p, r)
      BY DEF GInv
    <2>2. e \in Seq(Nat) /\ Sorted(e) /\ cut \in Int /\ from \in Int /\ cut <= from
      BY <2>1, TimeAssumption DEF TrackTyped, ReadType, DequeSound, ReaderSound
    <2>3. CountNow(p, r, c) = Cardinality(Since(e, cut))
      BY <2>2, KeptSince DEF CountNow
    <2>4. /\ Happened(p, c, from) = Hits(served[p], c, from)
          /\ Happened(p, c, cut) = Hits(served[p], c, cut)
      BY <2>1, <2>2, HappenedIsHits DEF TrackTyped
    <2>5. /\ Cardinality(Since(e, from)) = Cardinality(Hits(served[p], c, from))
          /\ Cardinality(Since(e, cut)) <= Cardinality(Hits(served[p], c, cut))
      <3>1. from >= now - Window
        BY <2>2
      <3> HIDE DEF from
      <3> QED BY <2>1, <2>2, <3>1 DEF DequeSound
    <2>6. IsFiniteSet(Since(e, cut)) /\ Cardinality(Since(e, cut)) \in Nat
      BY <2>2, SinceFinite
    <2>7. Cardinality(Since(e, from)) <= Cardinality(Since(e, cut))
      <3>1. \A j \in DOMAIN e : e[j] \in Nat
        BY <2>2, ElementOfSeq, LenProperties
      <3>2. Since(e, from) \in SUBSET Since(e, cut)
        <4> HIDE DEF e, from, cut
        <4> QED BY <2>2, <3>1 DEF Since
      <3> QED BY <2>6, <3>2, FS_Subset
    <2>8. Cardinality(Since(e, from)) \in Nat
      BY <2>2, SinceFinite
    <2> HIDE DEF e, cut, from
    <2> QED BY <2>3, <2>4, <2>5, <2>6, <2>7, <2>8 DEF cut, from
  <1> QED BY <1>1, InitGInv, NextGInv, PTL DEF GatewaySpec
=============================================================================
