------------------------------ MODULE Processor ------------------------------
(***************************************************************************)
(* A dedicated processor process, from start to exit: run of               *)
(* cmd/processor/main.go, the metrics server it starts, the consumer with  *)
(* its manually assigned partitions, and the goroutine that reloads them   *)
(* from the tenant partition map.                                          *)
(*                                                                         *)
(* What happens to a record is Consumer's subject; here a consumer is the  *)
(* set of partitions its Kafka client fetches.  The environment changes    *)
(* what the mounted map and the dedicated ConfigMap say, sends the process *)
(* the signal to stop, and may kill it; a process that has ended is        *)
(* started again.                                                          *)
(***************************************************************************)
EXTENDS Naturals

CONSTANTS
  Partitions,  \* the numbers an entry of the map can name
  MaxFailures  \* bound on signals, kills and failures of parts of the process

ASSUME ProcessorAssumption == MaxFailures \in Nat

VARIABLES
  manual,      \* KAFKA_MANUAL_PARTITIONS in the dedicated ConfigMap
  entry,       \* the tenant's entry in the mounted map, as partitions
  main,        \* where run is
  canceled,    \* runCtx is canceled
  signaled,    \* ctx is canceled by a signal
  server,      \* the goroutine of the metrics server
  closing,     \* Shutdown of the metrics server was called
  startErr,
  consumeErr,
  shutdownErr,
  metricsErr,  \* what the server's goroutine has sent
  exit,        \* what run is about to return
  reload,      \* where the reload goroutine is
  stopped,     \* stopReload was called
  target,      \* the partitions reloadOnce has loaded
  assignment,  \* con.assignment
  consuming,   \* the partitions the Kafka client fetches
  client,      \* the Kafka client: open or closed
  pool,        \* the Postgres pool: open or closed
  failures

sources == <<manual, entry>>
errors == <<startErr, consumeErr, shutdownErr, metricsErr>>
metrics == <<server, closing>>
reloader == <<reload, stopped, target, assignment, consuming>>
resources == <<client, pool>>
processVars == <<main, canceled, signaled, metrics, errors, exit, reloader, resources, failures>>
processorVars == <<sources, processVars>>

\* No usable value: no ConfigMap; no file, no entry or a count below one.
NoTarget == {}

ProcessorTypeOK ==
  /\ manual \in SUBSET Partitions
  /\ entry \in SUBSET Partitions
  /\ main \in {"down", "run", "shutdown", "receive", "close", "wait", "closePool"}
  /\ canceled \in BOOLEAN /\ signaled \in BOOLEAN
  /\ server \in {"none", "up", "failing", "done"}
  /\ closing \in BOOLEAN
  /\ startErr \in BOOLEAN /\ consumeErr \in BOOLEAN /\ shutdownErr \in BOOLEAN /\ metricsErr \in BOOLEAN
  /\ exit \in {"none", "nil", "error"}
  /\ reload \in {"idle", "loaded", "added", "gone"}
  /\ stopped \in BOOLEAN
  /\ target \in SUBSET Partitions
  /\ assignment \in SUBSET Partitions
  /\ consuming \in SUBSET Partitions
  /\ client \in {"open", "closed"} /\ pool \in {"open", "closed"}
  /\ failures \in Nat

NoProcess ==
  /\ main = "down"
  /\ canceled = FALSE /\ signaled = FALSE
  /\ server = "none" /\ closing = FALSE
  /\ startErr = FALSE /\ consumeErr = FALSE /\ shutdownErr = FALSE /\ metricsErr = FALSE
  /\ exit = "none"
  /\ reload = "gone" /\ stopped = FALSE /\ target = NoTarget
  /\ assignment = {} /\ consuming = {}
  /\ client = "closed" /\ pool = "closed"
  /\ failures = 0

Failure == failures < MaxFailures /\ failures' = failures + 1

-----------------------------------------------------------------------------
(* The environment of the process *)

\* SIGTERM or SIGINT.
Signal ==
  /\ main # "down" /\ ~signaled
  /\ Failure
  /\ signaled' = TRUE /\ canceled' = TRUE
  /\ UNCHANGED <<sources, main, metrics, errors, exit, reloader, resources>>

\* The process is gone, whatever its goroutines were doing.
Gone ==
  /\ main' = "down"
  /\ canceled' = FALSE /\ signaled' = FALSE
  /\ server' = "none" /\ closing' = FALSE
  /\ startErr' = FALSE /\ consumeErr' = FALSE /\ shutdownErr' = FALSE /\ metricsErr' = FALSE
  /\ exit' = "none"
  /\ reload' = "gone" /\ stopped' = FALSE /\ target' = NoTarget
  /\ assignment' = {} /\ consuming' = {}
  /\ client' = "closed" /\ pool' = "closed"

Kill ==
  /\ main # "down"
  /\ Failure
  /\ Gone
  /\ UNCHANGED sources

-----------------------------------------------------------------------------
(* run *)

\* Up to the call of consumer.Run: the pool, the client with the manually
\* assigned partitions, the reload goroutine and the metrics server.  A start
\* that fails on the way leaves nothing behind and is left out.
Start ==
  /\ main = "down" /\ manual # NoTarget
  /\ main' = "run" /\ server' = "up" /\ reload' = "idle"
  /\ assignment' = manual /\ consuming' = manual
  /\ client' = "open" /\ pool' = "open"
  /\ UNCHANGED <<sources, canceled, signaled, closing, errors, exit, stopped, target, failures>>

\* ListenAndServe fails: recordStartErr stops the consumer, and the error is
\* sent afterwards.
ServerFails ==
  /\ server = "up" /\ ~closing
  /\ Failure
  /\ server' = "failing"
  /\ startErr' = TRUE /\ canceled' = TRUE
  /\ UNCHANGED <<sources, main, signaled, closing, consumeErr, shutdownErr, metricsErr, exit, reloader, resources>>

ServerSendsError ==
  /\ server = "failing"
  /\ server' = "done" /\ metricsErr' = TRUE
  /\ UNCHANGED <<sources, main, canceled, signaled, closing, startErr, consumeErr, shutdownErr, exit, reloader,
                 resources, failures>>

\* ErrServerClosed.
ServerCloses ==
  /\ server = "up" /\ closing
  /\ server' = "done" /\ metricsErr' = FALSE
  /\ UNCHANGED <<sources, main, canceled, signaled, closing, startErr, consumeErr, shutdownErr, exit, reloader,
                 resources, failures>>

\* consumer.Run returns nil when it is canceled.
RunCanceled ==
  /\ main = "run" /\ canceled
  /\ main' = "shutdown" /\ consumeErr' = FALSE
  /\ UNCHANGED <<sources, canceled, signaled, metrics, startErr, shutdownErr, metricsErr, exit, reloader, resources,
                 failures>>

\* A fetch failed, or a record could not be routed to the dead-letter topic.
RunFails ==
  /\ main = "run" /\ ~canceled
  /\ Failure
  /\ main' = "shutdown" /\ consumeErr' = TRUE
  /\ UNCHANGED <<sources, canceled, signaled, metrics, startErr, shutdownErr, metricsErr, exit, reloader, resources>>

\* Shutdown closes the listener, and may run into its timeout.
Shutdown ==
  /\ main = "shutdown"
  /\ main' = "receive" /\ closing' = TRUE
  /\ shutdownErr' \in BOOLEAN
  /\ shutdownErr' => failures < MaxFailures
  /\ failures' = IF shutdownErr' THEN failures + 1 ELSE failures
  /\ UNCHANGED <<sources, canceled, signaled, server, startErr, consumeErr, metricsErr, exit, reloader, resources>>

\* Mutant of Result: an error of the server is looked for in the last place
\* only.
ResultWithoutServer == IF consumeErr \/ shutdownErr THEN "error" ELSE "nil"

\* The switch at the end of run.
Result == IF startErr \/ consumeErr \/ shutdownErr \/ metricsErr THEN "error" ELSE "nil"

Receive ==
  /\ main = "receive" /\ server = "done"
  /\ main' = "close" /\ exit' = Result
  /\ UNCHANGED <<sources, canceled, signaled, metrics, errors, reloader, resources, failures>>

\* The deferred calls: cancelRun, consumer.Close, which stops the reload
\* goroutine and waits for it before it closes the client, and pool.Close.
Close ==
  /\ main = "close"
  /\ main' = "wait" /\ canceled' = TRUE /\ stopped' = TRUE
  /\ UNCHANGED <<sources, signaled, metrics, errors, exit, reload, target, assignment, consuming, resources, failures>>

\* Mutant of CloseClient: Close only tells the goroutine to stop.
CloseClientAtOnce ==
  /\ main = "wait"
  /\ main' = "closePool" /\ client' = "closed" /\ consuming' = {}
  /\ UNCHANGED <<sources, canceled, signaled, metrics, errors, exit, reload, stopped, target, assignment, pool, failures>>

CloseClient ==
  /\ main = "wait" /\ reload = "gone"
  /\ main' = "closePool" /\ client' = "closed" /\ consuming' = {}
  /\ UNCHANGED <<sources, canceled, signaled, metrics, errors, exit, reload, stopped, target, assignment, pool, failures>>

ClosePool ==
  /\ main = "closePool"
  /\ Gone
  /\ UNCHANGED <<sources, failures>>

-----------------------------------------------------------------------------
(* The reload goroutine *)

\* reloadOnce up to the lock: an entry that cannot be used changes nothing,
\* and a tick may still win against a stop that has just come.
Load ==
  /\ reload = "idle" /\ entry # NoTarget
  /\ IF entry = assignment THEN UNCHANGED <<reload, target>>
     ELSE reload' = "loaded" /\ target' = entry
  /\ UNCHANGED <<sources, main, canceled, signaled, metrics, errors, exit, stopped, assignment, consuming, resources,
                 failures>>

\* Mutant of AddPartitions and RemovePartitions: what is dropped goes first.
AddPartitionsLast ==
  /\ reload = "loaded"
  /\ reload' = "added"
  /\ consuming' = consuming \ (assignment \ target)
  /\ UNCHANGED <<sources, main, canceled, signaled, metrics, errors, exit, stopped, target, assignment, resources,
                 failures>>

\* applyAssignment: the partitions that are new are added before those that
\* are dropped are removed.
AddPartitions ==
  /\ reload = "loaded"
  /\ reload' = "added"
  /\ consuming' = consuming \cup (target \ assignment)
  /\ UNCHANGED <<sources, main, canceled, signaled, metrics, errors, exit, stopped, target, assignment, resources,
                 failures>>

RemovePartitions ==
  /\ reload = "added"
  /\ reload' = "idle"
  /\ consuming' = consuming \ (assignment \ target)
  /\ assignment' = target /\ target' = NoTarget
  /\ UNCHANGED <<sources, main, canceled, signaled, metrics, errors, exit, stopped, resources, failures>>

ReloaderReturns ==
  /\ reload = "idle" /\ stopped
  /\ reload' = "gone"
  /\ UNCHANGED <<sources, main, canceled, signaled, metrics, errors, exit, stopped, target, assignment, consuming,
                 resources, failures>>

Run == RunCanceled \/ RunFails \/ Shutdown \/ Receive \/ Close \/ CloseClient \/ ClosePool
Server == ServerFails \/ ServerSendsError \/ ServerCloses
Reloader == Load \/ AddPartitions \/ RemovePartitions \/ ReloaderReturns

Process == Signal \/ Kill \/ Start \/ Run \/ Server \/ Reloader

\* What a process does by itself, failures apart.
Progress ==
  \/ Start
  \/ RunCanceled \/ Shutdown \/ Receive \/ Close \/ CloseClient \/ ClosePool
  \/ ServerSendsError \/ ServerCloses
  \/ Reloader

-----------------------------------------------------------------------------
(* Properties *)

\* applyAssignment's comment: a reload never has zero partitions assigned in
\* between, and a partition that is both in the old and in the new range is
\* fetched throughout.
NeverUnassigned ==
  client = "open" =>
    /\ consuming # {}
    /\ target # NoTarget => assignment \cap target \subseteq consuming

\* Close: the reload goroutine never uses a client that is closed, nor does
\* consumer.Run a pool or a client that is.
NothingAfterClose ==
  /\ reload \in {"idle", "loaded", "added"} => client = "open"
  /\ main = "run" => client = "open" /\ pool = "open"

\* run returns nil only after a signal, and when neither the consumer nor the
\* metrics server has failed: startErr is read only after it was written.
HonestExit == exit = "nil" => signaled /\ ~(startErr \/ consumeErr \/ shutdownErr \/ server = "failing")
=============================================================================
