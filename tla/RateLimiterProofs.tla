------------------------- MODULE RateLimiterProofs -------------------------
(* Proofs about RateLimiter, for all keys, callers and rates.

   SustainedRate is not inductive.  What a key got in excess of the rate is
   covered by what is missing from its bucket: as long as the excess is not
   zero, it and the tokens the bucket would hold by now, uncapped, add up to at
   most Cap + Stall (Covered).  A bucket may be pruned only after so long that
   this sum leaves no excess, which is what PruneSafe says.                *)
EXTENDS RateLimiter, TLAPS

Covered(k) ==
  \/ excess[k] = 0
  \/ /\ k \in present
     /\ excess[k] + tokens[k] + (clock - last[k]) <= Cap + Stall

\* A caller has waited at most Stall ticks, and no time read is in the future.
Fresh ==
  /\ \A t \in Callers : now[t] <= clock
  /\ \A t \in waiting : clock - now[t] <= Stall
  /\ \A k \in present : last[k] <= clock

IInv == TypeOK /\ Fresh /\ (PruneSafe => \A k \in Keys : Covered(k))

----------------------------------------------------------------------------
\* What the refill in the critical section leaves in the bucket.
LEMMA RefillBounds ==
  ASSUME TypeOK, Fresh, NEW k \in Keys, NEW t \in waiting
  PROVE  /\ Refilled(k, now[t]) \in 0..Cap
         /\ Seen(k, now[t]) \in 0..Horizon /\ Seen(k, now[t]) <= clock
         /\ clock - Seen(k, now[t]) <= Stall
         /\ k \in Kept(now[t]) =>
              Refilled(k, now[t]) - Seen(k, now[t]) <= tokens[k] - last[k]
  <1> DEFINE n == now[t]
  <1>1. /\ n \in 0..Horizon /\ n <= clock /\ clock - n <= Stall
        /\ clock \in Nat /\ Cap \in Nat /\ Stall \in Nat /\ Horizon \in Nat
        /\ tokens[k] \in 0..Cap /\ last[k] \in 0..Horizon
        /\ k \in present => last[k] <= clock
    BY RateAssumption DEF TypeOK, Fresh
  <1>2. CASE k \notin Kept(n)
    BY <1>1, <1>2 DEF Refilled, Seen
  <1>3. CASE k \in Kept(n)
    <2>1. k \in present
      BY <1>3 DEF Kept
    <2> QED BY <1>1, <1>3, <2>1 DEF Refilled, Seen, minF
  <1> QED BY <1>2, <1>3

\* The invariant holds before the first request.
LEMMA InitIInv == Init => IInv
  BY RateAssumption DEF Init, IInv, TypeOK, Fresh, Covered, Never

\* The passing of time keeps it.
LEMMA TickInv ==
  ASSUME IInv, Tick
  PROVE  IInv'
  <1>1. /\ clock \in Nat /\ clock' = clock + 1 /\ clock < Horizon
        /\ UNCHANGED <<present, tokens, last, waiting, key, now, promise>>
        /\ excess \in [Keys -> Nat]
        /\ excess' = [k \in Keys |-> maxF(0, excess[k] - 1)]
        /\ Stall \in Nat /\ Horizon \in Nat
    BY RateAssumption DEF IInv, TypeOK, Tick, buckets, callers
  <1>2. \A k \in Keys : /\ excess'[k] \in Nat /\ excess[k] \in Nat
                        /\ excess'[k] = 0 \/ excess'[k] = excess[k] - 1
                        /\ excess[k] = 0 => excess'[k] = 0
    BY <1>1 DEF maxF
  <1>3. TypeOK'
    BY <1>1, <1>2 DEF IInv, TypeOK
  <1>4. Fresh'
    <2>1. \A t \in waiting : clock - now[t] < Stall
      BY DEF Tick
    <2>2. /\ now \in [Callers -> 0..Horizon] /\ waiting \subseteq Callers
          /\ last \in [Keys -> 0..Horizon] /\ present \subseteq Keys
      BY DEF IInv, TypeOK
    <2> QED BY <1>1, <2>1, <2>2 DEF IInv, Fresh
  <1>5. ASSUME PruneSafe, NEW k \in Keys PROVE Covered(k)'
    <2>1. Covered(k) /\ tokens[k] \in Nat /\ last[k] \in Nat /\ Cap \in Nat
      BY <1>5, RateAssumption DEF IInv, TypeOK
    <2> QED BY <1>1, <1>2, <2>1 DEF Covered
  <1> QED BY <1>3, <1>4, <1>5 DEF IInv

\* An arrival keeps it.
LEMMA ArriveInv ==
  ASSUME IInv, NEW t \in Callers, NEW k \in Keys, Arrive(t, k)
  PROVE  IInv'
  <1>1. /\ UNCHANGED <<clock, present, tokens, last, excess, promise>>
        /\ waiting' = waiting \cup {t}
        /\ key' = [key EXCEPT ![t] = k] /\ now' = [now EXCEPT ![t] = clock]
        /\ clock \in 0..Horizon /\ Stall \in Nat
    BY RateAssumption DEF IInv, TypeOK, Arrive, buckets
  <1>2. TypeOK'
    BY <1>1 DEF IInv, TypeOK
  <1>3. Fresh'
    <2>1. now \in [Callers -> 0..Horizon] /\ waiting \subseteq Callers
      BY DEF IInv, TypeOK
    <2> QED BY <1>1, <2>1 DEF IInv, Fresh
  <1>4. PruneSafe => \A d \in Keys : Covered(d)'
    BY <1>1 DEF IInv, Covered
  <1> QED BY <1>2, <1>3, <1>4 DEF IInv

\* The locked section of Allow, whatever it decides: it leaves the level given
\* in the bucket it is for, and drops others only when they owe nothing.
LEMMA UpdateInv ==
  ASSUME IInv, NEW t \in waiting, NEW level \in 0..Cap,
         Update(t, level)
  PROVE  /\ present' \subseteq Keys /\ tokens' \in [Keys -> 0..Cap]
         /\ last' \in [Keys -> 0..Horizon] /\ waiting' \subseteq waiting
         /\ UNCHANGED <<clock, key, now>> /\ Fresh'
         /\ PruneSafe => \A d \in Keys \ {key[t]} :
                           excess'[d] = excess[d] => Covered(d)'
  <1> DEFINE k == key[t]
             n == now[t]
  <1>1. /\ t \in Callers /\ k \in Keys /\ n \in 0..Horizon
        /\ clock \in Nat /\ n <= clock
        /\ Cap \in Nat /\ Stall \in Nat /\ Ttl \in Nat /\ Horizon \in Nat
    BY RateAssumption DEF IInv, TypeOK, Fresh
  <1>2. /\ present' = Kept(n) \cup {k}
        /\ tokens' = [tokens EXCEPT ![k] = level]
        /\ last' = [last EXCEPT ![k] = Seen(k, n)]
        /\ waiting' = waiting \ {t} /\ UNCHANGED <<clock, key, now>>
    BY DEF Update
  <1>3. Seen(k, n) \in 0..Horizon /\ Seen(k, n) <= clock
    BY <1>1, RefillBounds DEF IInv
  <1>4. Kept(n) \subseteq present /\ present \subseteq Keys
    BY DEF IInv, TypeOK, Kept
  <1>5. tokens' \in [Keys -> 0..Cap] /\ last' \in [Keys -> 0..Horizon]
    BY <1>2, <1>3 DEF IInv, TypeOK
  <1>6. Fresh'
    <2>1. \A d \in present' : last'[d] <= clock
      BY <1>1, <1>2, <1>3, <1>4 DEF IInv, Fresh, TypeOK
    <2> QED BY <1>2, <2>1 DEF IInv, Fresh
  <1>7. ASSUME PruneSafe, NEW d \in Keys \ {k}, excess'[d] = excess[d]
        PROVE  Covered(d)'
    <2>1. /\ tokens'[d] = tokens[d] /\ last'[d] = last[d]
          /\ d \in present' <=> d \in Kept(n)
      BY <1>2 DEF IInv, TypeOK
    <2>2. /\ Covered(d) /\ excess[d] \in Nat /\ tokens[d] \in Nat
          /\ last[d] \in Nat
      BY <1>1, <1>7 DEF IInv, TypeOK
    <2>3. CASE d \in Kept(n)
      BY <1>2, <1>7, <2>1, <2>2, <2>3 DEF Covered
    <2>4. CASE d \notin present
      BY <1>7, <2>2, <2>4 DEF Covered
    <2>5. CASE d \in Pruned(n)
      <3>1. n - last[d] > Ttl
        BY <2>5 DEF Pruned
      <3>2. excess[d] = 0
        BY <1>1, <1>7, <2>2, <3>1 DEF Covered, PruneSafe
      <3> QED BY <1>7, <3>2 DEF Covered
    <2> QED BY <2>3, <2>4, <2>5 DEF Kept
  <1> QED BY <1>1, <1>2, <1>4, <1>5, <1>6, <1>7

\* An admission keeps it.
LEMMA AdmitInv ==
  ASSUME IInv, NEW t \in Callers, Admit(t)
  PROVE  IInv'
  <1> DEFINE k == key[t]
             n == now[t]
             level == Refilled(k, n)
  <1>1. /\ t \in waiting /\ level >= Cost /\ Update(t, level - Cost)
        /\ excess' = [excess EXCEPT ![k] = @ + Cost]
        /\ promise' = [promise EXCEPT ![k] = Never]
    BY DEF Admit
  <1>2. /\ k \in Keys /\ clock \in Nat /\ Cost \in Nat /\ Cost > 0
        /\ Cap \in Nat /\ Stall \in Nat /\ Horizon \in Nat /\ Ttl \in Nat
        /\ tokens[k] \in 0..Cap /\ last[k] \in 0..Horizon
        /\ excess \in [Keys -> Nat] /\ excess[k] \in Nat
        /\ n \in Nat /\ n <= clock
    BY RateAssumption DEF IInv, TypeOK, Fresh
  <1>3. /\ level \in 0..Cap /\ Seen(k, n) \in Nat
        /\ clock - Seen(k, n) <= Stall
        /\ k \in Kept(n) => level - Seen(k, n) <= tokens[k] - last[k]
    BY <1>1, <1>2, RefillBounds DEF IInv
  <1>4. level - Cost \in 0..Cap
    BY <1>1, <1>2, <1>3
  <1>5. /\ present' \subseteq Keys /\ tokens' \in [Keys -> 0..Cap]
        /\ last' \in [Keys -> 0..Horizon] /\ waiting' \subseteq waiting
        /\ UNCHANGED <<clock, key, now>> /\ Fresh'
        /\ PruneSafe => \A d \in Keys \ {k} :
                          excess'[d] = excess[d] => Covered(d)'
    BY <1>1, <1>4, UpdateInv
  <1>6. TypeOK'
    BY <1>1, <1>2, <1>5 DEF IInv, TypeOK, Never
  <1>7. ASSUME PruneSafe PROVE Covered(k)'
    <2>1. /\ k \in present' /\ tokens'[k] = level - Cost
          /\ last'[k] = Seen(k, n) /\ excess'[k] = excess[k] + Cost
          /\ clock' = clock
      BY <1>1, <1>2 DEF IInv, TypeOK, Update
    <2>2. excess[k] + level + (clock - Seen(k, n)) <= Cap + Stall
      <3>1. CASE excess[k] = 0
        BY <1>2, <1>3, <3>1
      <3>2. CASE excess[k] # 0
        <4>1. k \in present /\ excess[k] + tokens[k] + (clock - last[k]) <= Cap + Stall
          BY <1>2, <1>7, <3>2 DEF IInv, Covered
        <4>2. k \in Kept(n)
          <5>1. k \notin Pruned(n)
            BY <1>2, <1>7, <3>2, <4>1 DEF Pruned, PruneSafe
          <5> QED BY <4>1, <5>1 DEF Kept
        <4> HIDE DEF level, n, k
        <4> QED BY <1>2, <1>3, <4>1, <4>2
      <3> QED BY <3>1, <3>2
    <2>3. excess'[k] + tokens'[k] + (clock' - last'[k])
            = excess[k] + level + (clock - Seen(k, n))
      <3>1. \A x, y, z, w \in Int : (x + w) + (y - w) + z = x + y + z
        OBVIOUS
      <3>2. clock - Seen(k, n) \in Int /\ level \in Int /\ Cost \in Int
        BY <1>2, <1>3
      <3> HIDE DEF level, n, k
      <3> QED BY <1>2, <2>1, <3>1, <3>2
    <2>4. excess'[k] + tokens'[k] + (clock' - last'[k]) <= Cap + Stall
      BY <2>2, <2>3
    <2>5. key' = key
      BY <1>5
    <2> QED BY <2>1, <2>4, <2>5 DEF Covered
  <1>8. PruneSafe => \A d \in Keys : Covered(d)'
    <2>1. \A d \in Keys \ {k} : excess'[d] = excess[d]
      BY <1>1, <1>2
    <2> QED BY <1>5, <1>7, <2>1
  <1> QED BY <1>5, <1>6, <1>8 DEF IInv

\* A rejection keeps it.
LEMMA RejectInv ==
  ASSUME IInv, NEW t \in Callers, Reject(t)
  PROVE  IInv'
  <1> DEFINE k == key[t]
             n == now[t]
             level == Refilled(k, n)
  <1>1. /\ t \in waiting /\ Update(t, level) /\ excess' = excess
        /\ promise' = [promise EXCEPT ![k] = clock + RetryAfter(level)]
    BY DEF Reject
  <1>2. /\ k \in Keys /\ clock \in Nat
        /\ Cap \in Nat /\ Stall \in Nat /\ Horizon \in Nat /\ Ttl \in Nat
        /\ tokens[k] \in 0..Cap /\ last[k] \in 0..Horizon
        /\ excess[k] \in Nat /\ n \in Nat /\ n <= clock
    BY RateAssumption DEF IInv, TypeOK, Fresh
  <1>3. /\ level \in 0..Cap /\ Seen(k, n) \in Nat
        /\ k \in Kept(n) => level - Seen(k, n) <= tokens[k] - last[k]
    BY <1>1, <1>2, RefillBounds DEF IInv
  <1>4. /\ present' \subseteq Keys /\ tokens' \in [Keys -> 0..Cap]
        /\ last' \in [Keys -> 0..Horizon] /\ waiting' \subseteq waiting
        /\ UNCHANGED <<clock, key, now>> /\ Fresh'
        /\ PruneSafe => \A d \in Keys \ {k} :
                          excess'[d] = excess[d] => Covered(d)'
    BY <1>1, <1>3, UpdateInv
  <1>5. TypeOK'
    <2>1. clock + RetryAfter(level) \in Int
      BY <1>2, <1>3, RateAssumption DEF RetryAfter, WholeSeconds
    <2>2. promise' \in [Keys -> Int]
      BY <1>1, <2>1 DEF IInv, TypeOK
    <2> QED BY <1>1, <1>4, <2>2 DEF IInv, TypeOK
  <1>6. ASSUME PruneSafe PROVE Covered(k)'
    <2>1. /\ k \in present' /\ tokens'[k] = level
          /\ last'[k] = Seen(k, n) /\ excess'[k] = excess[k]
          /\ clock' = clock /\ key' = key
      BY <1>1, <1>2 DEF IInv, TypeOK, Update
    <2>2. CASE excess[k] = 0
      BY <2>1, <2>2 DEF Covered
    <2>3. CASE excess[k] # 0
      <3>1. k \in present /\ excess[k] + tokens[k] + (clock - last[k]) <= Cap + Stall
        BY <1>2, <1>6, <2>3 DEF IInv, Covered
      <3>2. k \in Kept(n)
        <4>1. k \notin Pruned(n)
          BY <1>2, <1>6, <2>3, <3>1 DEF Pruned, PruneSafe
        <4> QED BY <3>1, <4>1 DEF Kept
      <3>3. excess[k] + level + (clock - Seen(k, n)) <= Cap + Stall
        <4> HIDE DEF level, n, k
        <4> QED BY <1>2, <1>3, <3>1, <3>2
      <3> QED BY <2>1, <3>3 DEF Covered
    <2> QED BY <2>2, <2>3
  <1>7. PruneSafe => \A d \in Keys : Covered(d)'
    BY <1>1, <1>4, <1>6
  <1> QED BY <1>4, <1>5, <1>7 DEF IInv

\* So every step does.
LEMMA NextInv == IInv /\ [Next]_vars => IInv'
  <1> SUFFICES ASSUME IInv, [Next]_vars PROVE IInv'
    OBVIOUS
  <1>1. CASE Next
    BY <1>1, TickInv, ArriveInv, AdmitInv, RejectInv DEF Next
  <1>2. CASE UNCHANGED vars
    BY <1>2
    DEF vars, buckets, callers, IInv, TypeOK, Fresh, Covered
  <1> QED BY <1>1, <1>2

----------------------------------------------------------------------------
\* Every reachable state of the limiter is well typed; in particular no bucket
\* holds more than its capacity or less than nothing.
THEOREM RateTypeCorrect == Spec => []TypeOK
  <1>1. IInv => TypeOK
    BY DEF IInv
  <1>2. IInv /\ [Next]_vars => IInv'
    BY NextInv
  <1> QED BY <1>1, <1>2, InitIInv, PTL DEF Spec

\* If a bucket refills within its time to live, no client ever gets more than
\* its burst and the sustained rate over any interval (ratelimit.go 71-114).
THEOREM RateIsSustained == PruneSafe => (Spec => []SustainedRate)
  <1> SUFFICES ASSUME PruneSafe PROVE Spec => []SustainedRate
    OBVIOUS
  <1>1. IInv => SustainedRate
    <2> SUFFICES ASSUME IInv, NEW k \in Keys PROVE excess[k] <= Cap + Stall
      BY DEF SustainedRate
    <2>1. /\ excess[k] \in Nat /\ tokens[k] \in Nat /\ clock \in Nat
          /\ last[k] \in Nat /\ Cap \in Nat /\ Stall \in Nat
          /\ k \in present => last[k] <= clock
      BY RateAssumption DEF IInv, TypeOK, Fresh
    <2> QED BY <2>1 DEF IInv, Covered
  <1>2. IInv /\ [Next]_vars => IInv'
    BY NextInv
  <1> QED BY <1>1, <1>2, InitIInv, PTL DEF Spec

----------------------------------------------------------------------------
(* Retry-After.  A token promised for a time p is there at p: the level of the
   bucket and the refill from last to p make up a whole token, and only the
   admission of another request of that client, which revokes the promise,
   takes anything out of the bucket.                                       *)

Promised(k) ==
  promise[k] # Never =>
    /\ promise[k] \in Nat
    /\ k \in present => tokens[k] + (promise[k] - last[k]) >= Cost

PInv == IInv /\ \A k \in Keys : Promised(k)

\* Rounding down to whole seconds gives back at most the second added.
LEMMA RoundedUp ==
  ASSUME NEW d \in Nat
  PROVE  WholeSeconds(d + Second) \in Nat /\ WholeSeconds(d + Second) >= d
  <1>1. Second \in Nat /\ Second > 0
    BY RateAssumption
  <1> DEFINE q == (d + Second) \div Second
  <1>2. q \in Nat /\ d + Second < Second * (q + 1)
    BY <1>1
  <1> HIDE DEF q
  <1>3. Second * (q + 1) = q * Second + Second /\ q * Second \in Nat
    BY <1>1, <1>2
  <1>4. q * Second > d
    BY <1>1, <1>2, <1>3
  <1> USE DEF q
  <1> QED BY <1>3, <1>4 DEF WholeSeconds

\* What a promise says of the bucket a caller that arrived in time finds.
LEMMA PromiseKept ==
  ASSUME PInv, Cost <= Cap, NEW t \in waiting,
         promise[key[t]] # Never, promise[key[t]] <= now[t]
  PROVE  Refilled(key[t], now[t]) >= Cost
  <1> DEFINE k == key[t]
             n == now[t]
  <1>1. /\ k \in Keys /\ n \in Nat /\ Cost \in Nat /\ Cap \in Nat
        /\ tokens[k] \in Nat /\ last[k] \in Nat
    BY RateAssumption DEF PInv, IInv, TypeOK
  <1>2. CASE k \notin Kept(n)
    BY <1>1, <1>2 DEF Refilled
  <1>3. CASE k \in Kept(n)
    <2>1. promise[k] \in Nat /\ tokens[k] + (promise[k] - last[k]) >= Cost
      BY <1>1, <1>3 DEF PInv, Promised, Kept
    <2> QED BY <1>1, <1>3, <2>1 DEF Refilled, minF
  <1> QED BY <1>2, <1>3

\* Every step is one the promise allows, or changes nothing it can see.
LEMMA PromiseStep ==
  ASSUME PInv, Next
  PROVE  \A k \in Keys : Promised(k)'
  <1> SUFFICES ASSUME NEW k \in Keys PROVE Promised(k)'
    OBVIOUS
  <1>1. /\ Promised(k) /\ clock \in Nat /\ Cost \in Nat
        /\ tokens[k] \in Nat /\ last[k] \in Nat
        /\ present \subseteq Keys /\ promise \in [Keys -> Int]
    BY RateAssumption DEF PInv, IInv, TypeOK
  <1>2. CASE Tick
    BY <1>1, <1>2 DEF Tick, buckets, Promised
  <1>3. ASSUME NEW t \in Callers, NEW d \in Keys, Arrive(t, d)
        PROVE  Promised(k)'
    BY <1>1, <1>3 DEF Arrive, buckets, Promised
  <1>4. ASSUME NEW t \in Callers, Admit(t) \/ Reject(t)
        PROVE  Promised(k)'
    <2> DEFINE level == Refilled(key[t], now[t])
    <2>1. t \in waiting /\ key[t] \in Keys
      BY <1>4 DEF Admit, Reject, PInv, IInv, TypeOK
    <2>2. CASE k # key[t]
      <3>1. /\ promise'[k] = promise[k] /\ tokens'[k] = tokens[k]
            /\ last'[k] = last[k] /\ (k \in present' => k \in present)
        BY <1>1, <1>4, <2>2
        DEF Admit, Reject, Update, Kept, PInv, IInv, TypeOK
      <3> QED BY <1>1, <3>1 DEF Promised
    <2>3. CASE k = key[t] /\ Admit(t)
      <3>1. promise'[k] = Never
        BY <1>1, <2>3 DEF Admit
      <3> QED BY <3>1 DEF Promised
    <2>4. CASE k = key[t] /\ Reject(t)
      <3>1. /\ promise'[k] = clock + RetryAfter(level) /\ tokens'[k] = level
            /\ last'[k] = Seen(k, now[t]) /\ level < Cost
        BY <1>1, <2>4 DEF Reject, Update, PInv, IInv, TypeOK
      <3>2. level \in Nat /\ Seen(k, now[t]) \in Nat /\ Seen(k, now[t]) <= clock
        BY <2>1, <2>4, RefillBounds DEF PInv, IInv
      <3> HIDE DEF level
      <3>3. Cost - level \in Nat
        BY <1>1, <3>1, <3>2
      <3>4. RetryAfter(level) \in Nat /\ RetryAfter(level) >= Cost - level
        BY <3>3, RoundedUp DEF RetryAfter
      <3>5. /\ promise'[k] \in Nat
            /\ tokens'[k] + (promise'[k] - last'[k]) >= Cost
        BY <1>1, <3>1, <3>2, <3>4
      <3> QED BY <3>5 DEF Promised
    <2> QED BY <1>4, <2>2, <2>3, <2>4
  <1> QED BY <1>2, <1>3, <1>4 DEF Next

\* If a burst is at least one request, a rejected client that comes back once
\* its Retry-After has passed is admitted (ratelimit.go 97-103, server.go 277).
THEOREM RetryAfterIsHonoured ==
  Cost <= Cap => (Spec => RetryHonoured)
  <1> SUFFICES ASSUME Cost <= Cap PROVE Spec => RetryHonoured
    OBVIOUS
  <1> DEFINE Step == \A t \in Callers :
               Reject(t) => promise[key[t]] = Never \/ now[t] < promise[key[t]]
  <1>1. Init => PInv
    BY InitIInv DEF Init, PInv, Promised
  <1>2. PInv /\ [Next]_vars => PInv'
    <2> SUFFICES ASSUME PInv, [Next]_vars PROVE PInv'
      OBVIOUS
    <2>1. IInv'
      BY NextInv DEF PInv
    <2>2. CASE Next
      BY <2>1, <2>2, PromiseStep DEF PInv
    <2>3. CASE UNCHANGED vars
      BY <2>1, <2>3 DEF vars, buckets, PInv, Promised
    <2> QED BY <2>2, <2>3
  <1>3. PInv => Step
    <2> SUFFICES ASSUME PInv, NEW t \in Callers, Reject(t),
                        promise[key[t]] # Never
                 PROVE  now[t] < promise[key[t]]
      OBVIOUS
    <2>1. /\ t \in waiting /\ Refilled(key[t], now[t]) < Cost
          /\ now[t] \in Nat /\ promise[key[t]] \in Int
          /\ Cost \in Nat /\ key[t] \in Keys
      BY RateAssumption DEF Reject, PInv, IInv, TypeOK
    <2>2. Refilled(key[t], now[t]) \in Nat
      BY <2>1, RefillBounds DEF PInv, IInv
    <2> QED BY <2>1, <2>2, PromiseKept
  <1> QED BY <1>1, <1>2, <1>3, PTL DEF Spec, RetryHonoured

----------------------------------------------------------------------------
(* Isolation. *)

\* A bucket is pruned only when it would be full again, so to its client it is as
\* if it were still there.
LEMMA PrunedIsFull ==
  ASSUME Cap <= Ttl + 1, IInv, NEW t \in waiting, NEW k \in Pruned(now[t])
  PROVE  k \in present /\ Available(k) = Cap
  <1>1. /\ k \in present /\ k \in Keys /\ t \in Callers
        /\ now[t] - last[k] > Ttl /\ now[t] <= clock
    BY DEF Pruned, IInv, TypeOK, Fresh
  <1>2. /\ now[t] \in Nat /\ last[k] \in Nat /\ clock \in Nat /\ tokens[k] \in Nat
        /\ Cap \in Nat /\ Ttl \in Nat
    BY <1>1, RateAssumption DEF IInv, TypeOK
  <1> QED BY <1>1, <1>2 DEF Available, minF, maxF

\* If a bucket refills within its time to live, no client's requests, with the
\* pruning they trigger, change what another may spend (ratelimit.go 71-114).
THEOREM RateIsolates == Cap <= Ttl + 1 => (Spec => Isolation)
  <1> SUFFICES ASSUME Cap <= Ttl + 1 PROVE Spec => Isolation
    OBVIOUS
  <1> DEFINE Step == \A t \in Callers, k \in Keys :
               (Admit(t) \/ Reject(t)) /\ k # key[t] => Available(k)' = Available(k)
  <1>1. IInv /\ [Next]_vars => IInv'
    BY NextInv
  <1>2. IInv => Step
    <2> SUFFICES ASSUME IInv, NEW t \in Callers, NEW k \in Keys,
                        Admit(t) \/ Reject(t), k # key[t]
                 PROVE  Available(k)' = Available(k)
      OBVIOUS
    <2>1. /\ t \in waiting /\ UNCHANGED clock
          /\ tokens'[k] = tokens[k] /\ last'[k] = last[k]
          /\ k \in present' <=> k \in Kept(now[t])
      BY DEF Admit, Reject, Update, IInv, TypeOK
    <2>2. CASE k \in Pruned(now[t])
      <3>1. k \notin present'
        BY <2>1, <2>2 DEF Kept
      <3> QED BY <2>1, <2>2, <3>1, PrunedIsFull DEF Available
    <2>3. CASE k \notin Pruned(now[t])
      <3>1. k \in present' <=> k \in present
        BY <2>1, <2>3 DEF Kept
      <3> QED BY <2>1, <3>1 DEF Available
    <2> QED BY <2>2, <2>3
  <1> QED BY <1>1, <1>2, InitIInv, PTL DEF Spec, Isolation
============================================================================
