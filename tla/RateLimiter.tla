---------------------------- MODULE RateLimiter ----------------------------
(* The per-client token bucket of src/api/ratelimit.go.

   Time is counted in ticks and tokens in units chosen so that a bucket gains
   one unit per tick; a request costs Cost units (one token).  The defaults, 5
   requests at once and 10 a minute, are a second per tick, Cost = 6, Cap = 30
   and Ttl = 600.  The arithmetic is exact: float64 rounding is left out.

   Allow reads the clock, then takes the lock: a caller may stall in between,
   for at most Stall ticks, while others go first.  A disabled limiter (Burst
   <= 0) returns before it touches anything and is not modelled.           *)
EXTENDS Integers

CONSTANTS
  Keys,      \* what clientKey returns: one per client address
  Callers,   \* the request goroutines
  Cap,       \* capacity of a bucket
  Cost,      \* units in one token
  Ttl,       \* a bucket idle for longer is pruned
  Second,    \* ticks in a second
  Stall,     \* longest wait between reading the clock and the lock
  Horizon    \* bound on the clock

ASSUME RateAssumption ==
  /\ Cap \in Nat \ {0} /\ Cost \in Nat \ {0} /\ Second \in Nat \ {0}
  /\ Ttl \in Nat /\ Stall \in Nat /\ Horizon \in Nat

VARIABLES
  clock,
  present,   \* the keys that have a bucket
  tokens,    \* bucket.tokens
  last,      \* bucket.last
  waiting,   \* callers between reading the clock and the lock
  key,       \* the key each caller asks for
  now,       \* the time each caller read
  excess,    \* history: the most a key got beyond one unit per tick, over all
             \* intervals of time that end now
  promise    \* history: when a rejected key was told a token is available

buckets == <<present, tokens, last>>
callers == <<waiting, key, now>>
vars == <<clock, buckets, callers, excess, promise>>

Never == -1

minF(a, b) == IF a < b THEN a ELSE b
maxF(a, b) == IF a < b THEN b ELSE a

----------------------------------------------------------------------------
(* The critical section, for a caller that read the time n. *)

\* Faulty: a bucket is dropped after half its time to live.
PrunedEarly(n) == {k \in present : 2 * (n - last[k]) > Ttl}

Pruned(n) == {k \in present : n - last[k] > Ttl}

Kept(n) == present \ Pruned(n)

\* Faulty: the refill is not capped.
RefilledUncapped(k, n) ==
  IF k \notin Kept(n) THEN Cap
  ELSE IF n > last[k] THEN tokens[k] + (n - last[k]) ELSE tokens[k]

\* The tokens of k's bucket, made full when it is new.
Refilled(k, n) ==
  IF k \notin Kept(n) THEN Cap
  ELSE IF n > last[k] THEN minF(Cap, tokens[k] + (n - last[k])) ELSE tokens[k]

\* Faulty: a caller sets the bucket back to the time it read.
SeenAsRead(k, n) == n

\* The time k's bucket was last refilled.
Seen(k, n) == IF k \in Kept(n) /\ last[k] > n THEN last[k] ELSE n

\* The Retry-After header tells whole seconds, rounded down (server.go 277).
WholeSeconds(d) == (d \div Second) * Second

\* Faulty: no second is added to make up for the rounding.
RetryAfterShort(level) == WholeSeconds(Cost - level)

RetryAfter(level) == WholeSeconds((Cost - level) + Second)

\* What the critical section of t leaves when k's bucket keeps the given level.
Update(t, level) ==
  LET k == key[t]
      n == now[t]
  IN  /\ present' = Kept(n) \cup {k}
      /\ tokens' = [tokens EXCEPT ![k] = level]
      /\ last' = [last EXCEPT ![k] = Seen(k, n)]
      /\ waiting' = waiting \ {t}
      /\ UNCHANGED <<clock, key, now>>

----------------------------------------------------------------------------
Init ==
  /\ clock = 0
  /\ present = {} /\ tokens = [k \in Keys |-> 0] /\ last = [k \in Keys |-> 0]
  /\ waiting = {} /\ now = [t \in Callers |-> 0]
  /\ key \in [Callers -> Keys]
  /\ excess = [k \in Keys |-> 0] /\ promise = [k \in Keys |-> Never]

\* Allow(k) reads the clock.
Arrive(t, k) ==
  /\ t \notin waiting
  /\ waiting' = waiting \cup {t}
  /\ key' = [key EXCEPT ![t] = k]
  /\ now' = [now EXCEPT ![t] = clock]
  /\ UNCHANGED <<clock, buckets, excess, promise>>

\* The locked part of Allow takes a token.
Admit(t) ==
  LET k == key[t]
      level == Refilled(k, now[t])
  IN  /\ t \in waiting /\ level >= Cost
      /\ Update(t, level - Cost)
      /\ excess' = [excess EXCEPT ![k] = @ + Cost]
      /\ promise' = [promise EXCEPT ![k] = Never]

\* The locked part of Allow finds no token; the client is told when to retry.
Reject(t) ==
  LET k == key[t]
      level == Refilled(k, now[t])
  IN  /\ t \in waiting /\ level < Cost
      /\ Update(t, level)
      /\ promise' = [promise EXCEPT ![k] = clock + RetryAfter(level)]
      /\ UNCHANGED excess

\* Time passes, unless a waiting caller would be overdue.
Tick ==
  /\ clock < Horizon
  /\ \A t \in waiting : clock - now[t] < Stall
  /\ clock' = clock + 1
  /\ excess' = [k \in Keys |-> maxF(0, excess[k] - 1)]
  /\ UNCHANGED <<buckets, callers, promise>>

Next ==
  \/ Tick
  \/ \E t \in Callers : \/ \E k \in Keys : Arrive(t, k)
                        \/ Admit(t)
                        \/ Reject(t)

Spec == Init /\ [][Next]_vars

----------------------------------------------------------------------------
(* Properties. *)

\* The types, and a bucket never holds more than it can.
TypeOK ==
  /\ clock \in 0..Horizon
  /\ present \subseteq Keys
  /\ tokens \in [Keys -> 0..Cap] /\ last \in [Keys -> 0..Horizon]
  /\ waiting \subseteq Callers
  /\ key \in [Callers -> Keys] /\ now \in [Callers -> 0..Horizon]
  /\ excess \in [Keys -> Nat] /\ promise \in [Keys -> Int]

\* A pruned bucket comes back full, which is harmless if an idle one would have
\* refilled by then.  The defaults satisfy this (30 + Stall <= 601).
PruneSafe == Cap + Stall <= Ttl + 1

\* "PerMinute is the sustained refill rate" (ratelimit.go 38): in no interval of
\* time does a client get more than its burst and one unit per tick, up to the
\* stall of one caller.
SustainedRate == \A k \in Keys : excess[k] <= Cap + Stall

\* "When rejected, RetryAfter says how long until a token is available"
\* (ratelimit.go 70), and the header rounds it to seconds (server.go 277): the
\* next request a rejected client makes once that time has passed is admitted,
\* whatever the other clients did and however stale their clocks.
RetryHonoured ==
  [][\A t \in Callers :
       Reject(t) => promise[key[t]] = Never \/ now[t] < promise[key[t]]]_vars

\* What a client could spend now.
Available(k) ==
  IF k \in present THEN minF(Cap, tokens[k] + maxF(0, clock - last[k])) ELSE Cap

\* A client's requests, and the pruning they trigger, never change what another
\* client may spend.
Isolation ==
  [][\A t \in Callers, k \in Keys :
       (Admit(t) \/ Reject(t)) /\ k # key[t] => Available(k)' = Available(k)]_vars

============================================================================
