------------------------------ MODULE Ingestion ------------------------------
(* The ingestion service: requests on their way through a REST or a gRPC      *)
(* server, the backpressure slots and the Kafka publisher, and the life of the *)
(* process from run's start of the two servers to its return, as in            *)
(* cmd/ingestion/main.go, internal/api and internal/ingestion.                 *)
(*                                                                             *)
(* What a request holds is abstracted to how far it gets.  The answers of the  *)
(* authenticator, the rate limiter (RateLimiter), the validation and the      *)
(* circuit breaker (CircuitBreaker) are free choices here.                     *)
EXTENDS Integers, FiniteSets

CONSTANTS
  Requests,      \* requests that clients send, each once
  MaxInFlight    \* BackpressureConfig.MaxInFlight

\* BackpressureConfig.validate.
ASSUME MaxInFlightPositive == MaxInFlight \in Nat \ {0}

ASSUME RequestsFinite == IsFiniteSet(Requests)

Servers == {"http", "grpc"}

VARIABLES
  main,       \* where run is
  runDone,    \* runCtx is done
  startErr,   \* the servers whose failure recordStartErr was told of
  server,     \* server -> where the goroutine that calls its Start is
  shutdown,   \* server -> where the goroutine that calls its Shutdown is
  deadline,   \* shutdownCtx has expired
  reloader,   \* where the tenant-partition reload goroutine is
  client,     \* the Kafka client, open until Publisher.Close
  at,         \* request -> how far it is
  via,        \* request -> the server it came in by
  slots,      \* taken places in BackpressureLimiter.slots
  topic,      \* requests whose event the brokers hold
  reply       \* request -> the answer its client has seen

process == <<main, runDone, startErr, server, shutdown, deadline, reloader, client>>
requests == <<at, via, slots, topic, reply>>
vars == <<process, requests>>

\* A handler is running for the request.
Handling == {"authenticate", "rateLimit", "validate", "publish", "produce", "published", "failed"}

TypeOK ==
  /\ main \in {"serving", "draining", "stopReload", "waitReload", "closed", "returned"}
  /\ runDone \in BOOLEAN
  /\ startErr \in SUBSET Servers
  /\ server \in [Servers -> {"starting", "serving", "stopped", "failed", "broken"}]
  /\ shutdown \in [Servers -> {"none", "called", "draining", "done", "forced"}]
  /\ deadline \in BOOLEAN
  /\ reloader \in {"waiting", "reloading", "stopped"}
  /\ client \in {"open", "closed"}
  /\ at \in [Requests -> {"unsent", "over"} \cup Handling]
  /\ via \in [Requests -> Servers]
  /\ slots \in 0..MaxInFlight
  /\ slots = Cardinality({r \in Requests : at[r] = "produce"})
  /\ topic \subseteq Requests
  /\ reply \in [Requests -> {"none", "accepted", "rejected", "unavailable"}]

\* run has built the publisher, the two servers and their goroutines.
Init ==
  /\ main = "serving" /\ runDone = FALSE /\ startErr = {}
  /\ server = [s \in Servers |-> "starting"]
  /\ shutdown = [s \in Servers |-> "none"]
  /\ deadline = FALSE
  /\ reloader = "waiting" /\ client = "open"
  /\ at = [r \in Requests |-> "unsent"]
  /\ via \in [Requests -> Servers]
  /\ slots = 0 /\ topic = {}
  /\ reply = [r \in Requests |-> "none"]

-----------------------------------------------------------------------------
(* The process *)

Alive == main # "returned"

\* SIGINT or SIGTERM ends ctx, and with it runCtx.
Signal ==
  /\ main = "serving" /\ ~runDone
  /\ runDone' = TRUE
  /\ UNCHANGED <<main, startErr, server, shutdown, deadline, reloader, client, requests>>

\* Start binds its address.
Listen(s) ==
  /\ Alive /\ server[s] = "starting"
  /\ shutdown[s] \in {"none", "called"}
  /\ server' = [server EXCEPT ![s] = "serving"]
  /\ UNCHANGED <<main, runDone, startErr, shutdown, deadline, reloader, client, requests>>

\* The address cannot be bound, or accepting connections fails before
\* Shutdown.
Failing(s) == \/ server[s] = "starting"
              \/ server[s] = "serving" /\ shutdown[s] \in {"none", "called"}

\* Mutant of StartFails: the error does not cancel runCtx.
StartFailsAlone(s) ==
  /\ Alive /\ Failing(s)
  /\ server' = [server EXCEPT ![s] = IF @ = "starting" THEN "failed" ELSE "broken"]
  /\ startErr' = startErr \cup {s}
  /\ UNCHANGED <<main, runDone, shutdown, deadline, reloader, client, requests>>

\* Start returns an error: the goroutine records it, which cancels runCtx,
\* and sends it on its channel.
StartFails(s) ==
  /\ Alive /\ Failing(s)
  /\ server' = [server EXCEPT ![s] = IF @ = "starting" THEN "failed" ELSE "broken"]
  /\ startErr' = startErr \cup {s}
  /\ runDone' = TRUE
  /\ UNCHANGED <<main, shutdown, deadline, reloader, client, requests>>

\* Start returns ErrServerClosed or ErrServerStopped and the goroutine sends
\* nil: the HTTP server's as soon as Shutdown is called, a gRPC server's that
\* has begun to serve when GracefulStop or Stop is through.
StartReturns(s) ==
  /\ Alive
  /\ \/ server[s] = "starting" /\ shutdown[s] \in {"draining", "done", "forced"}
     \/ server[s] = "serving" /\ shutdown[s] \in IF s = "http" THEN {"draining", "done", "forced"}
                                                              ELSE {"done", "forced"}
  /\ server' = [server EXCEPT ![s] = "stopped"]
  /\ UNCHANGED <<main, runDone, startErr, shutdown, deadline, reloader, client, requests>>

\* run is past <-runCtx.Done(): it sets the deadline and starts the two
\* goroutines that call Shutdown.
Drain ==
  /\ main = "serving" /\ runDone
  /\ main' = "draining"
  /\ shutdown' = [s \in Servers |-> "called"]
  /\ UNCHANGED <<runDone, startErr, server, deadline, reloader, client, requests>>

\* Shutdown closes the listener: no request comes in by s any more.
StopAccepting(s) ==
  /\ Alive /\ shutdown[s] = "called"
  /\ shutdown' = [shutdown EXCEPT ![s] = "draining"]
  /\ UNCHANGED <<main, runDone, startErr, server, deadline, reloader, client, requests>>

\* shutdownTimeout passes.
Expire ==
  /\ main = "draining" /\ ~deadline
  /\ deadline' = TRUE
  /\ UNCHANGED <<main, runDone, startErr, server, shutdown, reloader, client, requests>>

\* The requests of server s that a handler still works on.
InFlight(s) == {r \in Requests : via[r] = s /\ at[r] \in Handling}

\* Shutdown returns nil.
Drained(s) ==
  /\ Alive /\ shutdown[s] = "draining" /\ InFlight(s) = {}
  /\ shutdown' = [shutdown EXCEPT ![s] = "done"]
  /\ UNCHANGED <<main, runDone, startErr, server, deadline, reloader, client, requests>>

\* Mutant of ForceStop: GRPCServer.Shutdown waits for GracefulStop alone.
ForceStopHTTP(s) ==
  /\ Alive /\ shutdown[s] = "draining" /\ deadline /\ s = "http"
  /\ shutdown' = [shutdown EXCEPT ![s] = "forced"]
  /\ UNCHANGED <<main, runDone, startErr, server, deadline, reloader, client, requests>>

\* Shutdown returns shutdownCtx's error.  The gRPC server's has called Stop,
\* which closes the connections of its requests; their handlers run on.
ForceStop(s) ==
  /\ Alive /\ shutdown[s] = "draining" /\ deadline
  /\ shutdown' = [shutdown EXCEPT ![s] = "forced"]
  /\ UNCHANGED <<main, runDone, startErr, server, deadline, reloader, client, requests>>

\* Start has returned.
Finished == {"stopped", "failed", "broken"}

\* Mutant of Join: run waits for the Start goroutines only.
JoinStarts ==
  /\ main = "draining"
  /\ \A s \in Servers : server[s] \in Finished
  /\ main' = "stopReload"
  /\ UNCHANGED <<runDone, startErr, server, shutdown, deadline, reloader, client, requests>>

\* run has waited for both Shutdown goroutines and received from both
\* channels: it has its result, and its deferred calls follow.
Join ==
  /\ main = "draining"
  /\ \A s \in Servers : shutdown[s] \in {"done", "forced"} /\ server[s] \in Finished
  /\ main' = "stopReload"
  /\ UNCHANGED <<runDone, startErr, server, shutdown, deadline, reloader, client, requests>>

\* Publisher.Close cancels the reloader and waits for it.
StopReload ==
  /\ main = "stopReload"
  /\ main' = "waitReload"
  /\ UNCHANGED <<runDone, startErr, server, shutdown, deadline, reloader, client, requests>>

\* TenantPartitionReloader.Run: a tick, or ctx is done.  With both ready the
\* select takes either.
ReloaderTick ==
  /\ Alive /\ reloader = "waiting"
  /\ reloader' = "reloading"
  /\ UNCHANGED <<main, runDone, startErr, server, shutdown, deadline, client, requests>>

ReloadOnce ==
  /\ Alive /\ reloader = "reloading"
  /\ reloader' = "waiting"
  /\ UNCHANGED <<main, runDone, startErr, server, shutdown, deadline, client, requests>>

ReloaderStops ==
  /\ main = "waitReload" /\ reloader = "waiting"
  /\ reloader' = "stopped"
  /\ UNCHANGED <<main, runDone, startErr, server, shutdown, deadline, client, requests>>

\* Publisher.Close closes the Kafka client.
Close ==
  /\ main = "waitReload" /\ reloader = "stopped"
  /\ client' = "closed" /\ main' = "closed"
  /\ UNCHANGED <<runDone, startErr, server, shutdown, deadline, reloader, requests>>

\* run returns and the process exits, with it what handlers still work on.
Return ==
  /\ main = "closed"
  /\ main' = "returned"
  /\ UNCHANGED <<runDone, startErr, server, shutdown, deadline, reloader, client, requests>>

-----------------------------------------------------------------------------
(* A request *)

Goto(r, stage) == at' = [at EXCEPT ![r] = stage]

\* A request comes in on a connection of its server.
Accept(r) ==
  /\ Alive /\ at[r] = "unsent"
  /\ server[via[r]] \in {"serving", "broken"} /\ shutdown[via[r]] \in {"none", "called"}
  /\ Goto(r, "authenticate")
  /\ UNCHANGED <<process, via, slots, topic, reply>>

\* The handler returns with an answer, which a client whose connection Stop
\* has closed, or who has gone, does not see.
Answer(r, answer) ==
  /\ Goto(r, "over")
  /\ reply' \in {[reply EXCEPT ![r] = a] :
                   a \in IF via[r] = "grpc" /\ shutdown["grpc"] = "forced" THEN {"none"}
                                                                         ELSE {"none", answer}}

\* apiKeyAuthenticator.
Authenticate(r) ==
  /\ Alive /\ at[r] = "authenticate"
  /\ \/ Goto(r, "rateLimit") /\ UNCHANGED reply
     \/ Answer(r, "rejected")
  /\ UNCHANGED <<process, via, slots, topic>>

\* The rate limiter's middleware and interceptor.
RateLimit(r) ==
  /\ Alive /\ at[r] = "rateLimit"
  /\ \/ Goto(r, "validate") /\ UNCHANGED reply
     \/ Answer(r, "rejected")
  /\ UNCHANGED <<process, via, slots, topic>>

\* Reading, decoding, validate and toIngestionEvent, in the REST handler ...
ValidateREST(r) ==
  /\ via[r] = "http" /\ Alive /\ at[r] = "validate"
  /\ \/ Goto(r, "publish") /\ UNCHANGED reply
     \/ Answer(r, "rejected")
  /\ UNCHANGED <<process, via, slots, topic>>

\* ... and validateTransactionEvent and transactionEventToIngestionEvent in
\* IngestTransaction.
ValidateGRPC(r) ==
  /\ via[r] = "grpc" /\ Alive /\ at[r] = "validate"
  /\ \/ Goto(r, "publish") /\ UNCHANGED reply
     \/ Answer(r, "rejected")
  /\ UNCHANGED <<process, via, slots, topic>>

\* BackpressureLimiter.Publish: a slot is free, or ErrPublishQueueFull.
TakeSlot(r) ==
  /\ Alive /\ at[r] = "publish"
  /\ \/ slots < MaxInFlight /\ slots' = slots + 1 /\ Goto(r, "produce")
     \/ slots = MaxInFlight /\ Goto(r, "failed") /\ UNCHANGED slots
  /\ UNCHANGED <<process, via, topic, reply>>

\* All in-sync replicas hold the event.
BrokersWrite(r) ==
  /\ Alive /\ client = "open" /\ at[r] = "produce"
  /\ topic' = topic \cup {r}
  /\ UNCHANGED <<process, at, via, slots, reply>>

\* Mutant of Published: a nil error before the acknowledgment.
PublishedEarly(r) ==
  /\ Alive /\ at[r] = "produce"
  /\ Goto(r, "published") /\ slots' = slots - 1
  /\ UNCHANGED <<process, via, topic, reply>>

\* ProduceSync has the acknowledgment, Publish returns nil and the deferred
\* releaseSlot runs.
Published(r) ==
  /\ Alive /\ at[r] = "produce" /\ r \in topic
  /\ Goto(r, "published") /\ slots' = slots - 1
  /\ UNCHANGED <<process, via, topic, reply>>

\* Mutant of PublishFails: the slot is not released.
PublishFailsHoldingSlot(r) ==
  /\ Alive /\ at[r] = "produce"
  /\ Goto(r, "failed")
  /\ UNCHANGED <<process, via, slots, topic, reply>>

\* Publish returns an error: the breaker is open, the request's ctx is done,
\* the brokers refuse, the client is closed.  The event may be written all
\* the same.
PublishFails(r) ==
  /\ Alive /\ at[r] = "produce"
  /\ Goto(r, "failed") /\ slots' = slots - 1
  /\ UNCHANGED <<process, via, topic, reply>>

\* The handler answers 202, or 503.
Acknowledge(r) ==
  /\ Alive
  /\ \/ at[r] = "published" /\ Answer(r, "accepted")
     \/ at[r] = "failed" /\ Answer(r, "unavailable")
  /\ UNCHANGED <<process, via, slots, topic>>

-----------------------------------------------------------------------------

Next ==
  \/ Signal \/ Drain \/ Expire \/ Join \/ StopReload \/ Close \/ Return
  \/ ReloaderTick \/ ReloadOnce \/ ReloaderStops
  \/ \E s \in Servers : \/ Listen(s) \/ StartFails(s) \/ StartReturns(s)
                         \/ StopAccepting(s) \/ Drained(s) \/ ForceStop(s)
  \/ \E r \in Requests : \/ Accept(r) \/ Authenticate(r) \/ RateLimit(r)
                          \/ ValidateREST(r) \/ ValidateGRPC(r) \/ TakeSlot(r)
                          \/ BrokersWrite(r) \/ Published(r) \/ PublishFails(r)
                          \/ Acknowledge(r)

Spec == Init /\ [][Next]_vars

\* Goroutines that can run do, and the deadline passes.  The reloader's
\* select takes ctx.Done() at some wakeup, hence strong fairness.  Nothing is
\* asked of the brokers or of the handlers: ProduceSync may never return.
FairSpec ==
  /\ Spec
  /\ WF_vars(Drain) /\ WF_vars(Expire) /\ WF_vars(Join)
  /\ WF_vars(StopReload) /\ WF_vars(Close) /\ WF_vars(Return)
  /\ WF_vars(ReloadOnce) /\ SF_vars(ReloaderStops)
  /\ \A s \in Servers : /\ WF_vars(StartReturns(s)) /\ WF_vars(StopAccepting(s))
                        /\ WF_vars(Drained(s) \/ ForceStop(s))

\* A client told 202 has its event in the topic, and a client told that its
\* request was rejected does not.
HonestReply ==
  \A r \in Requests : /\ reply[r] = "accepted" => r \in topic
                      /\ reply[r] = "rejected" => r \notin topic

\* The Kafka client is closed under a handler only when shutdownTimeout had
\* passed: a drain that ends in time loses no request.
NoneCutOff ==
  client = "closed" /\ ~deadline => \A r \in Requests : at[r] \notin Handling

\* run returns after a signal, and after either server has failed to start,
\* even if the brokers never answer the requests in flight.
Terminates == (runDone \/ startErr # {}) ~> (main = "returned")
=============================================================================
