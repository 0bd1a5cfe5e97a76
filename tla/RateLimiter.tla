----------------------------- MODULE RateLimiter -----------------------------
(* The token buckets of internal/api/rate_limiter.go, one per API key, as the  *)
(* concurrent requests of one transport use them: NewServer and NewGRPCServer *)
(* each build a limiter of their own.                                          *)
(*                                                                             *)
(* Time and tokens share a unit: a bucket gains one unit per tick of the       *)
(* clock and a request costs Cost units, which stands for a rate of            *)
(* RequestsPerSecond with a tick of 1 / (RequestsPerSecond * Cost) seconds.    *)
(* The fractions of the code's float64 are these units; its rounding is left   *)
(* out.  The shards only spread the keys over locks.                           *)
EXTENDS Integers

CONSTANTS
  Handlers,   \* goroutines serving requests
  Keys,      \* API keys
  Cost,      \* units a request spends: what one second refills, over the rate
  Burst,     \* units a full bucket holds: RateLimitConfig.Burst requests' worth
  MaxTime,   \* bound on the clock
  NoBucket   \* marks a key without a bucket

\* newRateLimiter refuses a rate or a burst that is not positive, so a full
\* bucket pays for at least one request.
ASSUME LimitsPositive == Cost \in Nat \ {0} /\ Burst \in Nat /\ Burst >= Cost
ASSUME MaxTimeNat == MaxTime \in Nat
ASSUME NoBucketIsNone == NoBucket \notin [tokens: Int, lastRefill: Nat]

VARIABLES
  time,      \* the process's monotonic clock
  buckets,   \* shards[].buckets: key -> tokenBucket
  pc,        \* caller -> where it is in allow
  key,       \* caller -> the API key of its request
  now,       \* caller -> what its time.Now() returned
  window,    \* a window of arrival times, any one, fixed from the start
  spent,     \* key -> units spent by admitted requests that arrived in window
  latest     \* key -> the latest arrival among its admitted requests, if any

limiterVars == <<time, buckets, pc, key, now, window, spent, latest>>

Clock == 0..MaxTime

LimiterTypeOK ==
  /\ time \in Clock
  /\ buckets \in [Keys -> [tokens: Int, lastRefill: Clock] \cup {NoBucket}]
  /\ \A k \in Keys : buckets[k] # NoBucket => buckets[k].tokens < Burst
  /\ pc \in [Handlers -> {"idle", "lookup", "create", "spend"}]
  /\ key \in [Handlers -> Keys]
  /\ now \in [Handlers -> Clock]
  /\ \A c \in Handlers : now[c] <= time
  /\ window \in [from: Clock, to: Clock]
  /\ spent \in [Keys -> Nat]
  /\ latest \in [Keys -> Clock]

LimiterInit ==
  /\ time = 0
  /\ buckets = [k \in Keys |-> NoBucket]
  /\ pc = [c \in Handlers |-> "idle"]
  /\ key \in [Handlers -> Keys]
  /\ now = [c \in Handlers |-> 0]
  /\ window \in {w \in [from: Clock, to: Clock] : w.from <= w.to}
  /\ spent = [k \in Keys |-> 0]
  /\ latest = [k \in Keys |-> 0]

ClockTick ==
  /\ time < MaxTime
  /\ time' = time + 1
  /\ UNCHANGED <<buckets, pc, key, now, window, spent, latest>>

\* middleware and unaryInterceptor pass the request's key to allow, which
\* reads the clock before it takes any lock.
Arrive(c, k) ==
  /\ pc[c] = "idle"
  /\ pc' = [pc EXCEPT ![c] = "lookup"]
  /\ key' = [key EXCEPT ![c] = k]
  /\ now' = [now EXCEPT ![c] = time]
  /\ UNCHANGED <<time, buckets, window, spent, latest>>

\* The lookup under the shard's read lock.
Lookup(c) ==
  /\ pc[c] = "lookup"
  /\ pc' = [pc EXCEPT ![c] = IF buckets[key[c]] = NoBucket THEN "create" ELSE "spend"]
  /\ UNCHANGED <<time, buckets, key, now, window, spent, latest>>

\* The request of c goes on to its handler.
Admit(c) ==
  /\ spent' = [spent EXCEPT ![key[c]] =
                 IF now[c] \in window.from..window.to THEN @ + Cost ELSE @]
  /\ latest' = [latest EXCEPT ![key[c]] = IF now[c] > @ THEN now[c] ELSE @]

\* A new bucket, its first token spent by the request that makes it.
Fresh(n) == [tokens |-> Burst - Cost, lastRefill |-> n]

\* Mutant of Create: no second lookup.
CreateUnchecked(c) ==
  /\ pc[c] = "create"
  /\ buckets' = [buckets EXCEPT ![key[c]] = Fresh(now[c])]
  /\ Admit(c)
  /\ pc' = [pc EXCEPT ![c] = "idle"]
  /\ UNCHANGED <<time, key, now, window>>

\* The second lookup under the shard's write lock, and the bucket when there
\* still is none.
Create(c) ==
  /\ pc[c] = "create"
  /\ \/ /\ buckets[key[c]] # NoBucket
        /\ pc' = [pc EXCEPT ![c] = "spend"]
        /\ UNCHANGED <<buckets, spent, latest>>
     \/ /\ buckets[key[c]] = NoBucket
        /\ buckets' = [buckets EXCEPT ![key[c]] = Fresh(now[c])]
        /\ Admit(c)
        /\ pc' = [pc EXCEPT ![c] = "idle"]
  /\ UNCHANGED <<time, key, now, window>>

\* Mutant of Refilled: no cap at the burst.
RefilledUncapped(b, n) == b.tokens + (n - b.lastRefill)

\* Mutant of Refilled: only whole tokens are added.
RefilledWhole(b, n) == LET filled == b.tokens + ((n - b.lastRefill) \div Cost) * Cost
                       IN IF filled > Burst THEN Burst ELSE filled

\* The tokens of bucket b for a request that arrived at n.  A request that was
\* overtaken on its way to the lock arrived before lastRefill, and the
\* elapsed time is negative.
Refilled(b, n) == LET filled == b.tokens + (n - b.lastRefill)
                  IN IF filled > Burst THEN Burst ELSE filled

\* tokenBucket.allow under the bucket's lock, and the request's answer.
Allow(c) ==
  LET tokens == Refilled(buckets[key[c]], now[c])
      bucket(left) == [tokens |-> left, lastRefill |-> now[c]]
  IN /\ pc[c] = "spend"
     /\ \/ /\ tokens < Cost
           /\ buckets' = [buckets EXCEPT ![key[c]] = bucket(tokens)]
           /\ UNCHANGED <<spent, latest>>
        \/ /\ tokens >= Cost
           /\ buckets' = [buckets EXCEPT ![key[c]] = bucket(tokens - Cost)]
           /\ Admit(c)
     /\ pc' = [pc EXCEPT ![c] = "idle"]
     /\ UNCHANGED <<time, key, now, window>>

LimiterNext ==
  \/ ClockTick
  \/ \E c \in Handlers : \/ \E k \in Keys : Arrive(c, k)
                        \/ Lookup(c)
                        \/ Create(c)
                        \/ Allow(c)

LimiterSpec == LimiterInit /\ [][LimiterNext]_limiterVars

\* Whatever order the requests take the lock in, those of one key that arrive
\* within a window are admitted at most a burst plus what the window refills.
WithinRate == \A k \in Keys : spent[k] <= Burst + (window.to - window.from)

\* A request is refused only when another of its key was admitted that
\* arrived later, or less than a token's refill earlier: the tokens that
\* overtaken requests take back are not lost to those that follow.
RefusedIsRecent ==
  \A c \in Handlers :
    pc[c] = "spend" /\ Refilled(buckets[key[c]], now[c]) < Cost
      => now[c] < latest[key[c]] + Cost
=============================================================================
