---------------------------- MODULE IngestionProofs ----------------------------
(* The ingestion process: TypeOK, HonestReply and NoneCutOff for any number of *)
(* requests and slots; and the rate limiter its requests pass first: WithinRate*)
(* and RefusedIsRecent for any number of requests, keys and ticks.  The two    *)
(* share no variable, and the proof of one assumes nothing of the other.  The  *)
(* library on finite sets comes in last, where the slots are counted.          *)
EXTENDS Ingestion, RateLimiter, TLAPS

-----------------------------------------------------------------------------
(* RateLimiter.  WithinRate and RefusedIsRecent both follow from one quantity: *)
(* a bucket's tokens less its lastRefill only ever falls, by Cost when a       *)
(* request is admitted and when the burst caps it, in whatever order the       *)
(* requests reach the lock.                                                    *)

\* Before a key has a bucket none of its requests has been admitted.
NoneYet == \A k \in Keys : buckets[k] = NoBucket => spent[k] = 0

\* Once a request of the window has been admitted, the units spent in the
\* window are gone from what the bucket held when the window began.
WindowPaid ==
  \A k \in Keys : buckets[k] # NoBucket /\ spent[k] > 0 =>
    (buckets[k].tokens - buckets[k].lastRefill) + spent[k] <= Burst - window.from

\* At the latest admitted arrival the bucket was not overdrawn.
Solvent ==
  \A k \in Keys : buckets[k] # NoBucket =>
    (buckets[k].tokens - buckets[k].lastRefill) + latest[k] >= 0

\* Only requests that found a bucket spend from it.
Found == \A c \in Handlers : pc[c] = "spend" => buckets[key[c]] # NoBucket

LimiterInv ==
  /\ LimiterTypeOK /\ window.from <= window.to
  /\ NoneYet /\ WindowPaid /\ Solvent /\ Found /\ WithinRate

\* The conjuncts of the invariant, for steps that need one of them.
LEMMA LimiterParts ==
  LimiterInv => /\ LimiterTypeOK /\ window.from <= window.to
                /\ NoneYet /\ WindowPaid /\ Solvent /\ Found /\ WithinRate
  BY DEF LimiterInv

USE LimitsPositive, MaxTimeNat, NoBucketIsNone

\* Refilled is an integer, at most the burst, and at most what the elapsed
\* time makes of the tokens; below a request's cost it is exactly that.
LEMMA RefilledBounds ==
  ASSUME NEW b \in [tokens: Int, lastRefill: Clock], NEW n \in Clock
  PROVE  /\ Refilled(b, n) \in Int
         /\ Refilled(b, n) <= Burst
         /\ Refilled(b, n) - n <= b.tokens - b.lastRefill
         /\ Refilled(b, n) < Cost => Refilled(b, n) - n = b.tokens - b.lastRefill
<1>1. b.tokens \in Int /\ b.lastRefill \in Int /\ n \in Int
  BY DEF Clock
<1>2. Burst \in Int /\ Cost \in Int /\ Burst >= Cost
  OBVIOUS
<1> QED BY <1>1, <1>2 DEF Refilled

\* The inductive step for a request that leaves bucket b, holding left units,
\* and is admitted.
LEMMA Admitted ==
  ASSUME LimiterInv, NEW c \in Handlers, NEW left \in Int, left >= 0, left <= Burst - Cost,
         buckets[key[c]] # NoBucket =>
           left + Cost - now[c] <= buckets[key[c]].tokens - buckets[key[c]].lastRefill,
         buckets' = [buckets EXCEPT ![key[c]] = [tokens |-> left, lastRefill |-> now[c]]],
         Admit(c), pc' = [pc EXCEPT ![c] = "idle"], UNCHANGED <<time, key, now, window>>
  PROVE  LimiterInv'
<1> DEFINE k == key[c]  n == now[c]  B == [tokens |-> left, lastRefill |-> n]
<1>1. /\ k \in Keys /\ n \in Clock /\ window.from \in Clock /\ window.to \in Clock
      /\ spent[k] \in Nat /\ latest[k] \in Clock
  BY LimiterParts DEF LimiterTypeOK
<1> USE <1>1
<1>2. /\ B \in [tokens: Int, lastRefill: Clock] /\ B.tokens = left /\ B.lastRefill = n
      /\ B \in [tokens: Int, lastRefill: Nat]
  BY DEF Clock
<1>3. B # NoBucket /\ buckets'[k] = B /\ \A j \in Keys \ {k} : buckets'[j] = buckets[j]
  BY LimiterParts, <1>2 DEF LimiterTypeOK
<1>4. /\ spent'[k] = IF n >= window.from /\ n <= window.to THEN spent[k] + Cost ELSE spent[k]
      /\ latest'[k] \in Clock /\ latest'[k] >= n /\ latest'[k] >= latest[k]
  BY LimiterParts DEF LimiterTypeOK, Admit, Clock
<1>5. \A j \in Keys \ {k} : spent'[j] = spent[j] /\ latest'[j] = latest[j]
  BY LimiterParts DEF LimiterTypeOK, Admit
<1>6. LimiterTypeOK'
  <2>1. buckets' \in [Keys -> [tokens: Int, lastRefill: Clock] \cup {NoBucket}]
    BY LimiterParts, <1>2 DEF LimiterTypeOK
  <2>2. \A j \in Keys : buckets'[j] # NoBucket => buckets'[j].tokens < Burst
    BY LimiterParts, <1>2, <1>3 DEF LimiterTypeOK
  <2>3. spent' \in [Keys -> Nat] /\ latest' \in [Keys -> Clock]
    BY LimiterParts DEF LimiterTypeOK, Admit
  <2> QED BY LimiterParts, <2>1, <2>2, <2>3 DEF LimiterTypeOK
<1>7. (left - n) + spent'[k] <= Burst - window.from \/ spent'[k] = 0
  <2>1. CASE spent[k] > 0
    <3>1. buckets[k] # NoBucket
      BY LimiterParts, <2>1 DEF NoneYet
    <3>2. /\ (buckets[k].tokens - buckets[k].lastRefill) + spent[k] <= Burst - window.from
          /\ buckets[k].tokens \in Int /\ buckets[k].lastRefill \in Int
      BY LimiterParts, <2>1, <3>1 DEF LimiterTypeOK, WindowPaid, Clock
    <3> QED BY <1>4, <3>1, <3>2 DEF Clock
  <2>2. CASE spent[k] = 0
    BY <1>4, <2>2 DEF Clock
  <2> QED BY <2>1, <2>2
<1>8. spent'[k] <= Burst + (window.to - window.from) /\ (left - n) + latest'[k] >= 0
  BY LimiterParts, <1>4, <1>7 DEF WithinRate, Clock
<1>9. NoneYet' /\ Found'
  BY LimiterParts, <1>3, <1>5 DEF LimiterTypeOK, NoneYet, Found
<1>10. WindowPaid' /\ Solvent' /\ WithinRate'
  <2> USE <1>2, <1>3, <1>5
  <2>1. WindowPaid'
    BY LimiterParts, <1>7 DEF WindowPaid
  <2>2. Solvent' /\ WithinRate'
    BY LimiterParts, <1>8 DEF Solvent, WithinRate
  <2> QED BY <2>1, <2>2
<1> QED BY <1>6, <1>9, <1>10 DEF LimiterInv

\* A refused request leaves its bucket's tokens less lastRefill as they were.
LEMMA Refused ==
  ASSUME LimiterInv, NEW c \in Handlers, NEW left \in Int, left < Cost,
         buckets[key[c]] # NoBucket,
         left - now[c] = buckets[key[c]].tokens - buckets[key[c]].lastRefill,
         buckets' = [buckets EXCEPT ![key[c]] = [tokens |-> left, lastRefill |-> now[c]]],
         pc' = [pc EXCEPT ![c] = "idle"], UNCHANGED <<time, key, now, window, spent, latest>>
  PROVE  LimiterInv'
<1> DEFINE k == key[c]  n == now[c]  B == [tokens |-> left, lastRefill |-> n]
<1>1. k \in Keys /\ n \in Clock
  BY LimiterParts DEF LimiterTypeOK
<1> USE <1>1
<1>2. /\ B \in [tokens: Int, lastRefill: Clock] /\ B.tokens = left /\ B.lastRefill = n
      /\ B \in [tokens: Int, lastRefill: Nat]
  BY DEF Clock
<1>3. B # NoBucket /\ buckets'[k] = B /\ \A j \in Keys \ {k} : buckets'[j] = buckets[j]
  BY LimiterParts, <1>2 DEF LimiterTypeOK
<1> USE <1>2, <1>3
<1>4. LimiterTypeOK'
  <2>1. buckets' \in [Keys -> [tokens: Int, lastRefill: Clock] \cup {NoBucket}]
    BY LimiterParts DEF LimiterTypeOK
  <2>2. \A j \in Keys : buckets'[j] # NoBucket => buckets'[j].tokens < Burst
    BY LimiterParts DEF LimiterTypeOK
  <2> QED BY LimiterParts, <2>1, <2>2 DEF LimiterTypeOK
<1>5. NoneYet' /\ Found'
  BY LimiterParts DEF LimiterTypeOK, NoneYet, Found
<1>6. WindowPaid' /\ Solvent'
  BY LimiterParts DEF WindowPaid, Solvent
<1>7. WithinRate'
  BY LimiterParts DEF WithinRate
<1> QED BY <1>4, <1>5, <1>6, <1>7 DEF LimiterInv

\* The inductive invariant, from newRateLimiter on through every interleaving
\* of allow.
THEOREM LimiterInvariance == LimiterSpec => []LimiterInv
<1>1. LimiterInit => LimiterInv
  BY DEF LimiterInit, LimiterInv, LimiterTypeOK, NoneYet, WindowPaid, Solvent, Found, WithinRate, Clock
<1>2. LimiterInv /\ [LimiterNext]_limiterVars => LimiterInv'
  <2> SUFFICES ASSUME LimiterInv, [LimiterNext]_limiterVars PROVE LimiterInv'
    OBVIOUS
  <2>1. CASE ClockTick
    BY <2>1 DEF ClockTick, LimiterInv, LimiterTypeOK, NoneYet, WindowPaid, Solvent, Found, WithinRate, Clock
  <2>2. ASSUME NEW c \in Handlers, NEW k \in Keys, Arrive(c, k) PROVE LimiterInv'
    <3>1. LimiterTypeOK' /\ Found'
      BY LimiterParts, <2>2 DEF Arrive, LimiterTypeOK, Found, Clock
    <3> QED BY <2>2, <3>1 DEF Arrive, LimiterInv, NoneYet, WindowPaid, Solvent, WithinRate
  <2>3. ASSUME NEW c \in Handlers, Lookup(c) PROVE LimiterInv'
    <3>1. LimiterTypeOK' /\ Found'
      BY LimiterParts, <2>3 DEF Lookup, LimiterTypeOK, Found
    <3> QED BY <2>3, <3>1 DEF Lookup, LimiterInv, NoneYet, WindowPaid, Solvent, WithinRate
  <2>4. ASSUME NEW c \in Handlers, Create(c) PROVE LimiterInv'
    <3>1. CASE buckets[key[c]] # NoBucket
      <4>1. LimiterTypeOK' /\ Found'
        BY LimiterParts, <2>4, <3>1 DEF Create, LimiterTypeOK, Found
      <4> QED BY <2>4, <3>1, <4>1 DEF Create, LimiterInv, NoneYet, WindowPaid, Solvent, WithinRate
    <3>2. CASE buckets[key[c]] = NoBucket
      <4>1. Burst - Cost \in Int /\ Burst - Cost >= 0
        OBVIOUS
      <4> QED BY <2>4, <3>2, <4>1, Admitted DEF Create, Fresh
    <3> QED BY <3>1, <3>2
  <2>5. ASSUME NEW c \in Handlers, Allow(c) PROVE LimiterInv'
    <3> DEFINE b == buckets[key[c]]  left == Refilled(b, now[c])
    <3>1. b # NoBucket
      BY LimiterParts, <2>5 DEF Allow, Found
    <3>2. b \in [tokens: Int, lastRefill: Clock] /\ now[c] \in Clock
      BY LimiterParts, <3>1 DEF LimiterTypeOK
    <3>3. /\ left \in Int /\ left <= Burst /\ left - now[c] <= b.tokens - b.lastRefill
          /\ left < Cost => left - now[c] = b.tokens - b.lastRefill
      BY <3>2, RefilledBounds
    <3>4. CASE left < Cost
      <4>1. /\ buckets' = [buckets EXCEPT ![key[c]] = [tokens |-> left, lastRefill |-> now[c]]]
            /\ pc' = [pc EXCEPT ![c] = "idle"] /\ UNCHANGED <<time, key, now, window, spent, latest>>
        BY <2>5, <3>3, <3>4 DEF Allow
      <4> HIDE DEF left
      <4> QED BY <3>1, <3>3, <3>4, <4>1, Refused, Zenon
    <3>5. CASE left >= Cost
      <4> DEFINE rest == left - Cost
      <4>1. now[c] \in Int /\ b.tokens \in Int /\ b.lastRefill \in Int
        BY <3>2 DEF Clock
      <4>2. rest \in Int /\ rest >= 0 /\ rest <= Burst - Cost /\ rest + Cost - now[c] = left - now[c]
        BY <3>3, <3>5, <4>1
      <4>3. rest + Cost - now[c] <= b.tokens - b.lastRefill
        BY <3>3, <4>2, Zenon
      <4>4. /\ buckets' = [buckets EXCEPT ![key[c]] = [tokens |-> rest, lastRefill |-> now[c]]]
            /\ Admit(c) /\ pc' = [pc EXCEPT ![c] = "idle"] /\ UNCHANGED <<time, key, now, window>>
        BY <2>5, <3>3, <3>5 DEF Allow
      <4> HIDE DEF rest
      <4> QED BY <4>2, <4>3, <4>4, Admitted, Zenon
    <3> QED BY <3>3, <3>4, <3>5
  <2>6. CASE UNCHANGED limiterVars
    BY <2>6 DEF limiterVars, LimiterInv, LimiterTypeOK, NoneYet, WindowPaid, Solvent, Found, WithinRate
  <2> QED BY <2>1, <2>2, <2>3, <2>4, <2>5, <2>6 DEF LimiterNext
<1> QED BY <1>1, <1>2, PTL DEF LimiterSpec

\* For every window, key, rate and burst: the requests admitted from the
\* window never exceed the burst plus its refill.
THEOREM RateBound == LimiterSpec => []WithinRate
BY LimiterInvariance, PTL DEF LimiterInv

\* For every key: a request that comes a token's refill after the latest
\* admitted one is admitted.
THEOREM NoStarvation == LimiterSpec => []RefusedIsRecent
<1>1. LimiterInv => RefusedIsRecent
  <2> SUFFICES ASSUME LimiterInv, NEW c \in Handlers, pc[c] = "spend",
                      Refilled(buckets[key[c]], now[c]) < Cost
               PROVE  now[c] < latest[key[c]] + Cost
    BY DEF RefusedIsRecent
  <2> DEFINE b == buckets[key[c]]
  <2>1. key[c] \in Keys /\ b # NoBucket
    BY LimiterParts DEF LimiterTypeOK, Found
  <2>2. b \in [tokens: Int, lastRefill: Clock] /\ now[c] \in Clock /\ latest[key[c]] \in Clock
    BY LimiterParts, <2>1 DEF LimiterTypeOK
  <2>3. Refilled(b, now[c]) \in Int /\ Refilled(b, now[c]) - now[c] = b.tokens - b.lastRefill
    BY <2>2, RefilledBounds
  <2>4. (b.tokens - b.lastRefill) + latest[key[c]] >= 0
    BY LimiterParts, <2>1 DEF Solvent
  <2>5. b.tokens \in Int /\ b.lastRefill \in Int /\ now[c] \in Int /\ latest[key[c]] \in Int
    BY <2>2 DEF Clock
  <2> QED BY <2>3, <2>4, <2>5
<1> QED BY <1>1, LimiterInvariance, PTL

\* In particular a bucket is never left with the whole burst, and no request
\* carries an instant later than the clock's.
THEOREM BucketsTyped == LimiterSpec => []LimiterTypeOK
<1>1. LimiterInv => LimiterTypeOK
  BY DEF LimiterInv
<1> QED
  BY <1>1, LimiterInvariance, PTL

-----------------------------------------------------------------------------
(* Ingestion. *)

HIDE LimitsPositive
HIDE MaxTimeNat
HIDE NoBucketIsNone
\* The requests that hold a slot.
Producing == {r \in Requests : at[r] = "produce"}

\* What the proofs use of counting sets of requests; RequestsCounted, at the
\* end, is that it holds.
CountsWell ==
  /\ Cardinality({}) = 0
  /\ \A S \in SUBSET Requests : Cardinality(S) \in Nat
  /\ \A S \in SUBSET Requests : \A r \in S : Cardinality(S \ {r}) = Cardinality(S) - 1 /\ Cardinality(S) > 0
  /\ \A S \in SUBSET Requests : \A r \in Requests \ S : Cardinality(S \cup {r}) = Cardinality(S) + 1

\* Where a request whose event the brokers hold, or whose client has an
\* answer, can be: an answer is final, and the event of a request that is
\* over is written or not for good.
Traced ==
  \A r \in Requests :
    /\ at[r] = "published" => r \in topic
    /\ r \in topic => at[r] \in {"produce", "published", "failed", "over"}
    /\ reply[r] # "none" => at[r] = "over"

\* Publisher.Close comes after both Shutdowns, each of which has seen its
\* server without a request or has met the deadline.
Ordered ==
  /\ client = "closed" => main \in {"closed", "returned"}
  /\ main \in {"stopReload", "waitReload", "closed", "returned"} =>
       \A s \in Servers : shutdown[s] \in {"done", "forced"}
  /\ \A s \in Servers : shutdown[s] = "forced" => deadline
  /\ \A s \in Servers : shutdown[s] = "done" => InFlight(s) = {}

IInv == TypeOK /\ Traced /\ HonestReply /\ Ordered

\* The conjuncts of the invariant, for steps that need one of them.
LEMMA Parts == IInv => TypeOK /\ Traced /\ HonestReply /\ Ordered
  BY DEF IInv

USE MaxInFlightPositive

\* The induction starts: no request has arrived and every slot is free.
LEMMA InitIInv == CountsWell /\ Init => IInv
<1> SUFFICES ASSUME CountsWell, Init PROVE IInv
  OBVIOUS
<1>1. TypeOK
  <2>1. {r \in Requests : at[r] = "produce"} = {}
    BY DEF Init
  <2>2. slots = Cardinality({r \in Requests : at[r] = "produce"})
    BY <2>1, Zenon DEF Init, CountsWell
  <2>3. /\ main = "serving" /\ runDone \in BOOLEAN /\ startErr \in SUBSET Servers /\ deadline \in BOOLEAN
        /\ reloader = "waiting" /\ client = "open" /\ topic \subseteq Requests
    BY Zenon DEF Init
  <2>5. slots \in 0 .. MaxInFlight
    BY DEF Init
  <2>4. /\ server \in [Servers -> {"starting", "serving", "stopped", "failed", "broken"}]
        /\ shutdown \in [Servers -> {"none", "called", "draining", "done", "forced"}]
        /\ at \in [Requests -> {"unsent", "over"} \cup Handling]
        /\ via \in [Requests -> Servers]
        /\ reply \in [Requests -> {"none", "accepted", "rejected", "unavailable"}]
    BY DEF Init
  <2> QED
    BY <2>2, <2>3, <2>4, <2>5 DEF TypeOK
<1>2. Traced /\ HonestReply
  BY DEF Init, Traced, HonestReply
<1>3. Ordered
  BY DEF Init, Ordered, Servers
<1> QED
  BY <1>1, <1>2, <1>3 DEF IInv

\* The types of what the steps of the process change.
Flags == runDone \in BOOLEAN /\ deadline \in BOOLEAN

Stages ==
  /\ main \in {"serving", "draining", "stopReload", "waitReload", "closed", "returned"}
  /\ reloader \in {"waiting", "reloading", "stopped"} /\ client \in {"open", "closed"}
  /\ startErr \in SUBSET Servers
  /\ server \in [Servers -> {"starting", "serving", "stopped", "failed", "broken"}]
  /\ shutdown \in [Servers -> {"none", "called", "draining", "done", "forced"}]

\* A step of the process leaves the requests alone, but decides when the
\* publisher is closed.
LEMMA ProcessIInv ==
  ASSUME IInv, UNCHANGED requests,
         \/ Signal \/ Drain \/ Expire \/ Join \/ StopReload \/ Close \/ Return
         \/ ReloaderTick \/ ReloadOnce \/ ReloaderStops
         \/ \E s \in Servers : \/ Listen(s) \/ StartFails(s) \/ StartReturns(s)
                                \/ StopAccepting(s) \/ Drained(s) \/ ForceStop(s)
  PROVE  IInv'
<1> USE DEF requests
<1>1. TypeOK'
  <2>1. slots' \in 0 .. MaxInFlight /\ slots' = Cardinality({r \in Requests : at'[r] = "produce"})
    BY Parts DEF TypeOK
  <2>2. /\ at' \in [Requests -> {"unsent", "over"} \cup Handling] /\ via' \in [Requests -> Servers]
        /\ topic' \subseteq Requests /\ reply' \in [Requests -> {"none", "accepted", "rejected", "unavailable"}]
    BY Parts DEF TypeOK
  <2>3. Flags /\ Stages
    BY Parts, Zenon DEF TypeOK, Flags, Stages
  <2>4. ASSUME Signal \/ Expire PROVE Flags' /\ Stages'
    <3>1. Flags'
      BY <2>3, <2>4, Zenon DEF Flags, Signal, Expire
    <3>2. Stages'
      BY <2>3, <2>4 DEF Stages, Signal, Expire
    <3> QED BY <3>1, <3>2
  <2>5. ASSUME Drain \/ Join \/ StopReload \/ Close \/ Return PROVE Flags' /\ Stages'
    <3>1. Flags'
      BY <2>3, <2>5, Zenon DEF Flags, Drain, Join, StopReload, Close, Return
    <3>2. Stages'
      BY <2>3, <2>5 DEF Stages, Drain, Join, StopReload, Close, Return
    <3> QED BY <3>1, <3>2
  <2>6. ASSUME ReloaderTick \/ ReloadOnce \/ ReloaderStops PROVE Flags' /\ Stages'
    <3>1. Flags'
      BY <2>3, <2>6, Zenon DEF Flags, ReloaderTick, ReloadOnce, ReloaderStops
    <3>2. Stages'
      BY <2>3, <2>6 DEF Stages, ReloaderTick, ReloadOnce, ReloaderStops
    <3> QED BY <3>1, <3>2
  <2>7. ASSUME NEW s \in Servers, Listen(s) \/ StartFails(s) \/ StartReturns(s) PROVE Flags' /\ Stages'
    <3>1. Flags'
      BY <2>3, <2>7, Zenon DEF Flags, Listen, StartFails, StartReturns
    <3>2. Stages'
      BY <2>3, <2>7 DEF Stages, Listen, StartFails, StartReturns
    <3> QED BY <3>1, <3>2
  <2>8. ASSUME NEW s \in Servers, StopAccepting(s) \/ Drained(s) \/ ForceStop(s) PROVE Flags' /\ Stages'
    <3>1. Flags'
      BY <2>3, <2>8, Zenon DEF Flags, StopAccepting, Drained, ForceStop
    <3>2. Stages'
      BY <2>3, <2>8 DEF Stages, StopAccepting, Drained, ForceStop
    <3> QED BY <3>1, <3>2
  <2>9. Flags' /\ Stages'
    BY <2>4, <2>5, <2>6, <2>7, <2>8, ZenonT(30)
  <2> QED
    BY <2>1, <2>2, <2>9 DEF TypeOK, Flags, Stages
<1>2. Traced' /\ HonestReply'
  BY Parts DEF Traced, HonestReply
<1>3. Ordered'
  <2>1. /\ Ordered /\ shutdown \in [Servers -> {"none", "called", "draining", "done", "forced"}]
        /\ \A s \in Servers : InFlight(s)' = InFlight(s)
    BY Parts DEF TypeOK, InFlight
  <2> USE <2>1
  <2>2. ASSUME UNCHANGED <<main, shutdown, deadline, client>> PROVE Ordered'
    BY <2>2 DEF Ordered
  <2>3. CASE Signal \/ ReloaderTick \/ ReloadOnce \/ ReloaderStops
    <3>1. UNCHANGED <<main, shutdown, deadline, client>>
      BY <2>3 DEF Signal, ReloaderTick, ReloadOnce, ReloaderStops
    <3> QED BY <2>2, <3>1, Zenon
  <2>4. CASE Expire
    BY <2>4 DEF Ordered, Expire
  <2>5. CASE Drain
    BY <2>5, Zenon DEF Ordered, Drain
  <2>6. CASE Join \/ StopReload
    BY <2>6 DEF Ordered, Join, StopReload
  <2>7. CASE Close \/ Return
    BY <2>7 DEF Ordered, Close, Return
  <2>8. ASSUME NEW s \in Servers, Listen(s) \/ StartFails(s) \/ StartReturns(s) PROVE Ordered'
    <3>1. UNCHANGED <<main, shutdown, deadline, client>>
      BY <2>8, Zenon DEF Listen, StartFails, StartReturns
    <3> QED BY <2>2, <3>1, Zenon
  <2>9. ASSUME NEW s \in Servers, StopAccepting(s) PROVE Ordered'
    BY <2>9, Zenon DEF Ordered, StopAccepting
  <2>10. ASSUME NEW s \in Servers, Drained(s) \/ ForceStop(s) PROVE Ordered'
    BY <2>10 DEF Ordered, Drained, ForceStop
  <2> QED
    BY <2>3, <2>4, <2>5, <2>6, <2>7, <2>8, <2>9, <2>10
<1> QED
  BY <1>1, <1>2, <1>3 DEF IInv

\* The places taken follow a request into "produce" and out of it.
LEMMA Counted ==
  ASSUME CountsWell, TypeOK, NEW r \in Requests, NEW stage, at' = [at EXCEPT ![r] = stage]
  PROVE  /\ Cardinality(Producing) \in Nat
         /\ at[r] = "produce" /\ stage # "produce" =>
              Cardinality(Producing') = Cardinality(Producing) - 1 /\ Cardinality(Producing) > 0
         /\ at[r] # "produce" /\ stage = "produce" => Cardinality(Producing') = Cardinality(Producing) + 1
         /\ at[r] # "produce" /\ stage # "produce" => Producing' = Producing
<1>1. Producing \in SUBSET Requests
  BY DEF Producing
<1>2. Cardinality(Producing) \in Nat
  BY <1>1 DEF CountsWell
<1>3. ASSUME at[r] = "produce", stage # "produce"
      PROVE  Cardinality(Producing') = Cardinality(Producing) - 1 /\ Cardinality(Producing) > 0
  <2>1. r \in Producing /\ Producing' = Producing \ {r}
    BY <1>3 DEF Producing, TypeOK
  <2> QED
    BY <2>1, <1>1 DEF CountsWell
<1>4. ASSUME at[r] # "produce", stage = "produce"
      PROVE  Cardinality(Producing') = Cardinality(Producing) + 1
  <2>1. r \in Requests \ Producing /\ Producing' = Producing \cup {r}
    BY <1>4 DEF Producing, TypeOK
  <2> QED
    BY <2>1, <1>1 DEF CountsWell
<1>5. ASSUME at[r] # "produce", stage # "produce" PROVE Producing' = Producing
  BY <1>5 DEF Producing, TypeOK
<1> QED
  BY <1>2, <1>3, <1>4, <1>5

\* A server whose Shutdown returned nil has no request.
LEMMA DoneIsIdle ==
  ASSUME Ordered, NEW s \in Servers, shutdown[s] = "done"
  PROVE  InFlight(s) = {}
  BY Zenon DEF Ordered

\* What every step of a request r has in common.
LEMMA RequestIInv ==
  ASSUME CountsWell, IInv, NEW r \in Requests, NEW stage \in Handling \cup {"over"}, Goto(r, stage),
         UNCHANGED <<process, via>>,
         at[r] \in Handling \/ (at[r] = "unsent" /\ shutdown[via[r]] \in {"none", "called"}),
         slots' = slots + (IF stage = "produce" THEN 1 ELSE 0) - (IF at[r] = "produce" THEN 1 ELSE 0),
         stage = "produce" => at[r] # "produce" /\ slots < MaxInFlight,
         topic' = topic,
         stage = "published" => r \in topic,
         r \in topic => stage \in {"published", "failed", "over"},
         \/ reply' = reply
         \/ stage = "over" /\ reply' = [reply EXCEPT ![r] = "none"]
         \/ stage = "over" /\ r \in topic /\ reply' = [reply EXCEPT ![r] = "accepted"]
         \/ stage = "over" /\ r \notin topic /\ reply' = [reply EXCEPT ![r] = "rejected"]
         \/ stage = "over" /\ reply' = [reply EXCEPT ![r] = "unavailable"]
  PROVE  IInv'
<1>1. at' = [at EXCEPT ![r] = stage] /\ at'[r] = stage /\ \A q \in Requests \ {r} : at'[q] = at[q]
  BY Parts, Zenon DEF Goto, TypeOK
<1>2. \A q \in Requests \ {r} : reply'[q] = reply[q]
  BY Parts, Zenon DEF TypeOK
<1>3. TypeOK'
  <2>1. slots' \in 0 .. MaxInFlight /\ slots' = Cardinality(Producing')
    <3>1. slots = Cardinality(Producing) /\ slots \in 0 .. MaxInFlight
      BY Parts DEF TypeOK, Producing
    <3>2. /\ at[r] = "produce" /\ stage # "produce" =>
              Cardinality(Producing') = Cardinality(Producing) - 1 /\ Cardinality(Producing) > 0
          /\ at[r] # "produce" /\ stage = "produce" => Cardinality(Producing') = Cardinality(Producing) + 1
          /\ at[r] # "produce" /\ stage # "produce" => Producing' = Producing
      BY <1>1, Counted, Zenon DEF IInv
    <3>3. CASE at[r] = "produce"
      BY <3>1, <3>2, <3>3
    <3>4. CASE at[r] # "produce" /\ stage = "produce"
      BY <3>1, <3>2, <3>4
    <3>5. CASE at[r] # "produce" /\ stage # "produce"
      BY <3>1, <3>2, <3>5
    <3> QED
      BY <3>3, <3>4, <3>5, Zenon
  <2>2. at' \in [Requests -> {"unsent", "over"} \cup Handling]
    BY Parts, <1>1, Zenon DEF TypeOK
  <2>3. reply' \in [Requests -> {"none", "accepted", "rejected", "unavailable"}]
    BY Parts, Zenon DEF TypeOK
  <2> QED
    BY Parts, <2>1, <2>2, <2>3, Zenon DEF TypeOK, process, Producing
<1>4. Traced'
  <2> SUFFICES ASSUME NEW q \in Requests
               PROVE  /\ at'[q] = "published" => q \in topic'
                      /\ q \in topic' => at'[q] \in {"produce", "published", "failed", "over"}
                      /\ reply'[q] # "none" => at'[q] = "over"
    BY Zenon DEF Traced
  <2>1. CASE q = r
    BY Parts, <1>1, <2>1, Zenon DEF Traced, Handling
  <2>2. CASE q # r
    BY Parts, <1>1, <1>2, <2>2 DEF Traced
  <2> QED
    BY <2>1, <2>2, Zenon
<1>5. HonestReply'
  <2> SUFFICES ASSUME NEW q \in Requests
               PROVE  (reply'[q] = "accepted" => q \in topic') /\ (reply'[q] = "rejected" => q \notin topic')
    BY DEF HonestReply
  <2>1. CASE q = r
    BY Parts, <2>1, Zenon DEF TypeOK, HonestReply
  <2>2. CASE q # r
    BY Parts, <1>2, <2>2, Zenon DEF HonestReply
  <2> QED
    BY <2>1, <2>2
<1>6. Ordered'
  <2>1. ASSUME NEW s \in Servers, shutdown[s] = "done" PROVE InFlight(s)' = {}
    <3>1. InFlight(s) = {}
      BY <2>1, DoneIsIdle, Zenon DEF IInv
    <3>2. via[r] # s
      BY <2>1, <3>1 DEF InFlight
    <3> QED
      BY <1>1, <3>1, <3>2 DEF InFlight
  <2> QED
    BY Parts, <2>1, Zenon DEF Ordered, process
<1> QED
  BY <1>3, <1>4, <1>5, <1>6, Zenon DEF IInv

\* An answer is what RequestIInv asks of it.
LEMMA AnswerIInv ==
  ASSUME CountsWell, IInv, NEW r \in Requests, NEW answer \in {"accepted", "rejected", "unavailable"},
         Answer(r, answer),
         at[r] \in Handling, at[r] # "produce", UNCHANGED <<process, via, slots, topic>>,
         answer = "accepted" => r \in topic,
         answer = "rejected" => r \notin topic
  PROVE  IInv'
<1>1. Goto(r, "over") /\ "over" \in Handling \cup {"over"}
  BY DEF Answer
<1>2. PICK a \in {"none", answer} : reply' = [reply EXCEPT ![r] = a]
  BY DEF Answer
<1>3. slots' = slots + 0 - 0
  BY Parts DEF TypeOK
<1> QED
  BY <1>1, <1>2, <1>3, RequestIInv, Zenon

\* Up to validation nothing has been published.
LEMMA RefusableIInv ==
  ASSUME CountsWell, IInv, NEW r \in Requests, at[r] \in {"authenticate", "rateLimit", "validate"},
         NEW stage \in {"rateLimit", "validate", "publish"},
         (Goto(r, stage) /\ UNCHANGED reply) \/ Answer(r, "rejected"),
         UNCHANGED <<process, via, slots, topic>>
  PROVE  IInv'
<1>1. at[r] \in Handling /\ at[r] # "produce" /\ stage \in Handling
  BY Zenon DEF Handling
<1>2. r \notin topic
  BY Parts DEF Traced
<1>3. slots' = slots + 0 - 0
  BY Parts DEF TypeOK
<1>4. CASE Answer(r, "rejected")
  BY <1>1, <1>2, <1>4, AnswerIInv, Zenon
<1>5. CASE Goto(r, stage) /\ UNCHANGED reply
  BY <1>1, <1>2, <1>3, <1>5, RequestIInv
<1> QED
  BY <1>4, <1>5

\* The brokers write the event of a request that has no answer yet.
LEMMA WriteIInv ==
  ASSUME IInv, NEW r \in Requests, BrokersWrite(r)
  PROVE  IInv'
<1> USE DEF BrokersWrite
<1>1. TypeOK'
  BY Parts DEF TypeOK, process
<1>2. reply[r] = "none"
  BY Parts, Zenon DEF Traced
<1>3. Traced'
  BY Parts, <1>2 DEF Traced
<1>4. HonestReply'
  BY Parts, <1>2, Zenon DEF HonestReply
<1>5. Ordered'
  BY Parts, Zenon DEF Ordered, InFlight, process
<1> QED
  BY <1>1, <1>3, <1>4, <1>5, Zenon DEF IInv

\* Every step of a request, a publish or the shutdown preserves IInv.
LEMMA NextIInv == CountsWell /\ IInv /\ [Next]_vars => IInv'
<1> SUFFICES ASSUME CountsWell, IInv, [Next]_vars PROVE IInv'
  BY Zenon
<1> USE DEF Handling
<1>1. CASE UNCHANGED vars
  BY <1>1 DEF vars, process, requests, IInv, TypeOK, Traced, HonestReply, Ordered, InFlight
<1>2. CASE \/ Signal \/ Drain \/ Expire \/ Join \/ StopReload \/ Close \/ Return
           \/ ReloaderTick \/ ReloadOnce \/ ReloaderStops
           \/ \E s \in Servers : \/ Listen(s) \/ StartFails(s) \/ StartReturns(s)
                                  \/ StopAccepting(s) \/ Drained(s) \/ ForceStop(s)
  <2>1. UNCHANGED requests
    <3>1. CASE Signal \/ Drain \/ Expire \/ Join \/ StopReload \/ Close \/ Return
      BY <3>1 DEF Signal, Drain, Expire, Join, StopReload, Close, Return
    <3>2. CASE ReloaderTick \/ ReloadOnce \/ ReloaderStops
      BY <3>2, Zenon DEF ReloaderTick, ReloadOnce, ReloaderStops
    <3>3. ASSUME NEW s \in Servers, Listen(s) \/ StartFails(s) \/ StartReturns(s) PROVE UNCHANGED requests
      BY <3>3 DEF Listen, StartFails, StartReturns
    <3>4. ASSUME NEW s \in Servers, StopAccepting(s) \/ Drained(s) \/ ForceStop(s) PROVE UNCHANGED requests
      BY <3>4, Zenon DEF StopAccepting, Drained, ForceStop
    <3> QED BY <1>2, <3>1, <3>2, <3>3, <3>4, Zenon
  <2> QED
    BY <1>2, <2>1, ProcessIInv
<1>3. ASSUME NEW r \in Requests, Accept(r) PROVE IInv'
  <2>1. r \notin topic /\ slots' = slots + 0 - 0
    BY Parts, <1>3 DEF TypeOK, Traced, Accept
  <2> QED
    BY <1>3, <2>1, RequestIInv, Zenon DEF Accept
<1>4. ASSUME NEW r \in Requests, Authenticate(r) \/ RateLimit(r) \/ ValidateREST(r) \/ ValidateGRPC(r) PROVE IInv'
  BY <1>4, RefusableIInv DEF Authenticate, RateLimit, ValidateREST, ValidateGRPC
<1>5. ASSUME NEW r \in Requests, TakeSlot(r) PROVE IInv'
  <2>1. r \notin topic /\ slots \in Nat /\ at[r] = "publish"
    BY Parts, <1>5 DEF TypeOK, Traced, TakeSlot
  <2>2. CASE slots < MaxInFlight /\ slots' = slots + 1 /\ Goto(r, "produce")
    <3>1. slots' = slots + 1 - 0
      BY <2>1, <2>2
    <3> QED
      BY <1>5, <2>1, <2>2, <3>1, RequestIInv DEF TakeSlot
  <2>3. CASE slots = MaxInFlight /\ Goto(r, "failed") /\ UNCHANGED slots
    <3>1. slots' = slots + 0 - 0
      BY <2>1, <2>3
    <3> QED
      BY <1>5, <2>1, <2>3, <3>1, RequestIInv DEF TakeSlot
  <2> QED
    BY <1>5, <2>2, <2>3, Zenon DEF TakeSlot
<1>6. ASSUME NEW r \in Requests, Published(r) PROVE IInv'
  <2>1. slots' = slots + 0 - 1
    BY Parts, <1>6 DEF TypeOK, Published
  <2> QED
    BY <1>6, <2>1, RequestIInv DEF Published
<1>7. ASSUME NEW r \in Requests, PublishFails(r) PROVE IInv'
  <2>1. slots' = slots + 0 - 1
    BY Parts, <1>7 DEF TypeOK, PublishFails
  <2> QED
    BY <1>7, <2>1, RequestIInv DEF PublishFails
<1>8. ASSUME NEW r \in Requests, Acknowledge(r) PROVE IInv'
  <2>1. at[r] = "published" => r \in topic
    BY Parts DEF Traced
  <2> QED
    BY <1>8, <2>1, AnswerIInv DEF Acknowledge
<1> QED
  BY <1>1, <1>2, <1>3, <1>4, <1>5, <1>6, <1>7, <1>8, WriteIInv DEF Next

-----------------------------------------------------------------------------
INSTANCE FiniteSetTheorems

\* The counting of the slots is that of finite sets.
LEMMA RequestsCounted == CountsWell
<1>1. \A S \in SUBSET Requests : IsFiniteSet(S)
  BY RequestsFinite, FS_Subset
<1>2. \A S \in SUBSET Requests : Cardinality(S) \in Nat
  BY <1>1, FS_CardinalityType
<1>3. ASSUME NEW S \in SUBSET Requests, NEW r \in S
      PROVE  Cardinality(S \ {r}) = Cardinality(S) - 1 /\ Cardinality(S) > 0
  <2>1. Cardinality(S \ {r}) = Cardinality(S) - 1 /\ Cardinality(S) # 0
    BY <1>1, FS_RemoveElement, FS_EmptySet, Zenon
  <2> QED BY <1>2, <2>1
<1>4. ASSUME NEW S \in SUBSET Requests, NEW r \in Requests \ S
      PROVE  Cardinality(S \cup {r}) = Cardinality(S) + 1
  BY <1>1, FS_AddElement
<1> QED
  BY <1>2, <1>3, <1>4, FS_EmptySet DEF CountsWell

\* The inductive invariant the theorems on the request path below rest on.
THEOREM Invariance == Spec => []IInv
<1>1. Init => IInv
  BY InitIInv, RequestsCounted
<1>2. IInv /\ [Next]_vars => IInv'
  BY NextIInv, RequestsCounted
<1> QED BY <1>1, <1>2, PTL DEF Spec

\* Among the rest, the taken slots are those of the requests in ProduceSync,
\* and never more than MaxInFlight.
THEOREM SlotsCounted == Spec => []TypeOK
<1>1. IInv => TypeOK
  BY DEF IInv
<1> QED
  BY <1>1, Invariance, PTL

\* A client is told 202 only of an event the brokers hold, and that its
\* request was rejected only of one they never will.
THEOREM RepliesHonest == Spec => []HonestReply
<1>1. IInv => HonestReply
  BY DEF IInv
<1> QED
  BY <1>1, Invariance, PTL

\* A shutdown that meets no deadline closes the Kafka client under no handler.
THEOREM CutOffOnlyLate == Spec => []NoneCutOff
<1>1. IInv => NoneCutOff
  <2> SUFFICES ASSUME IInv, client = "closed", ~deadline, NEW r \in Requests PROVE at[r] \notin Handling
    BY DEF NoneCutOff
  <2>1. via[r] \in Servers
    BY Parts DEF TypeOK
  <2>2. shutdown[via[r]] = "done"
    BY Parts, <2>1, Zenon DEF Ordered
  <2>3. InFlight(via[r]) = {}
    BY <2>1, <2>2, DoneIsIdle DEF IInv
  <2> QED
    BY <2>3 DEF InFlight
<1> QED
  BY <1>1, Invariance, PTL
=============================================================================
