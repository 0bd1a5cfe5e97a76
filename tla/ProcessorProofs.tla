---------------------------- MODULE ProcessorProofs ----------------------------
(* The dedicated processor and the loop it is a part of (Propagation), for any *)
(* tenants, publishers and topic and any number of changes, signals, kills and *)
(* failures.  NeverUnassigned, NothingAfterClose and HonestExit need nothing   *)
(* of what the operator and the publishers do but that the process sees them   *)
(* through the mounted map and the dedicated ConfigMap; PropagationTypeOK is   *)
(* about the whole loop.  The circuit breaker (CircuitBreaker) that the        *)
(* processor has in front of Postgres, and ingestion in front of Kafka, shares *)
(* no variable with them and is proved by itself, for any number of callers,   *)
(* outages and abandoned calls and any thresholds and timeouts.                *)
EXTENDS Propagation, CircuitBreaker, TLAPS

-----------------------------------------------------------------------------
(* CircuitBreaker: types *)

\* The initial state is well typed.
LEMMA TypeInit == BreakerInit => BreakerTypeOK
BY ConfigAssumption DEF BreakerInit, BreakerTypeOK, States

\* Record keeps the machine well typed: in the closed state the counter stays
\* below the threshold because reaching it trips the breaker.
LEMMA RecordType ==
  ASSUME BreakerTypeOK, NEW err \in BOOLEAN, Record(err)
  PROVE  /\ state' \in States
         /\ consecutiveFailures' \in 0..(FailureThreshold - 1)
         /\ openFor' \in 0..OpenTimeout
BY ConfigAssumption DEF BreakerTypeOK, Record, Trip, States, machine

\* Every step keeps the variables well typed.
LEMMA TypeStep == BreakerTypeOK /\ [BreakerNext]_breakerVars => BreakerTypeOK'
<1> SUFFICES ASSUME BreakerTypeOK, [BreakerNext]_breakerVars PROVE BreakerTypeOK'
  OBVIOUS
<1>1. ASSUME NEW c \in Callers, AllowClosed(c) \/ AllowProbe(c) PROVE BreakerTypeOK'
  BY <1>1, ConfigAssumption DEF BreakerTypeOK, AllowClosed, AllowProbe, Enter, States, machine
<1>2. ASSUME NEW c \in Callers, Succeeds(c) PROVE BreakerTypeOK'
  BY <1>2, RecordType, Zenon DEF Succeeds, Leave, BreakerTypeOK
<1>3. ASSUME NEW c \in Callers, Ignored(c) PROVE BreakerTypeOK'
  BY <1>3, RecordType, Zenon DEF Ignored, Leave, BreakerTypeOK
<1>4. ASSUME NEW c \in Callers, Errs(c) PROVE BreakerTypeOK'
  BY <1>4, RecordType, Zenon DEF Errs, Leave, BreakerTypeOK
<1>5. ASSUME NEW c \in Callers, Abandoned(c) PROVE BreakerTypeOK'
  <2>1. faults' \in Nat
    BY <1>5 DEF Abandoned, Fault, BreakerTypeOK
  <2>2. Leave(c) /\ Record(TRUE)
    BY <1>5, Zenon DEF Abandoned
  <2> QED BY <2>1, <2>2, RecordType, Zenon DEF Leave, BreakerTypeOK
<1>6. ASSUME Outage PROVE BreakerTypeOK'
  <2>1. faults' \in Nat
    BY <1>6 DEF Outage, Fault, BreakerTypeOK
  <2>2. BecomesHealthy(FALSE)
    BY <1>6 DEF Outage
  <2> QED BY <2>1, <2>2, Zenon DEF BecomesHealthy, machine, BreakerTypeOK
<1>7. ASSUME Recovery PROVE BreakerTypeOK'
  BY <1>7, Zenon DEF Recovery, BecomesHealthy, machine, BreakerTypeOK
<1>8. ASSUME Tick PROVE BreakerTypeOK'
  BY <1>8, ConfigAssumption DEF Tick, Probing, BreakerTypeOK
<1>9. CASE UNCHANGED breakerVars
  BY <1>9 DEF breakerVars, machine, inFlight, BreakerTypeOK
<1> QED BY <1>1, <1>2, <1>3, <1>4, <1>5, <1>6, <1>7, <1>8, <1>9 DEF BreakerNext, Returns

\* The machine's and the calls' variables keep their types, and the failure
\* counter never reaches the threshold.
THEOREM BreakerTypeCorrect == BreakerSpec => []BreakerTypeOK
BY TypeInit, TypeStep, PTL DEF BreakerSpec

-----------------------------------------------------------------------------
(* The half-open state has a probe *)

\* Whatever a call's outcome, Record leaves the half-open state.
LEMMA RecordEndsHalfOpen ==
  ASSUME NEW err \in BOOLEAN, Record(err)
  PROVE  state' # "HalfOpen"
BY DEF Record, Trip, machine

\* Every step keeps a probe in flight in the half-open state.
LEMMA WedgeStep == BreakerTypeOK /\ NeverWedged /\ [BreakerNext]_breakerVars => NeverWedged'
<1> SUFFICES ASSUME BreakerTypeOK, NeverWedged, [BreakerNext]_breakerVars PROVE NeverWedged'
  OBVIOUS
<1> USE DEF NeverWedged, Probing
<1>1. ASSUME NEW c \in Callers, AllowClosed(c) PROVE NeverWedged'
  BY <1>1 DEF AllowClosed, machine
<1>2. ASSUME NEW c \in Callers, AllowProbe(c) PROVE NeverWedged'
  BY <1>2 DEF AllowProbe, Enter, BreakerTypeOK
<1>3. ASSUME NEW c \in Callers, Returns(c) \/ Abandoned(c) PROVE NeverWedged'
  BY <1>3, RecordEndsHalfOpen, Zenon DEF Returns, Succeeds, Ignored, Errs, Abandoned
<1>4. ASSUME Outage \/ Recovery PROVE NeverWedged'
  BY <1>4, Zenon DEF Outage, Recovery, BecomesHealthy, machine
<1>5. ASSUME Tick PROVE NeverWedged'
  BY <1>5 DEF Tick
<1>6. CASE UNCHANGED breakerVars
  BY <1>6 DEF breakerVars, machine, inFlight
<1> QED BY <1>1, <1>2, <1>3, <1>4, <1>5, <1>6 DEF BreakerNext

\* The breaker is never half-open without a probe whose Record will end that:
\* it cannot come to refuse calls for good.
THEOREM BreakerNeverWedged == BreakerSpec => []NeverWedged
<1>1. BreakerInit => NeverWedged
  BY DEF BreakerInit, NeverWedged
<1> QED BY <1>1, WedgeStep, BreakerTypeCorrect, PTL DEF BreakerSpec

-----------------------------------------------------------------------------
(* One probe at a time *)

\* The inductive invariant behind SingleProbe.  A probe in flight while the
\* breaker is open started before it opened, so its deadline passes before
\* OpenTimeout does.
ProbeInv ==
  /\ BreakerTypeOK
  /\ SingleProbe
  /\ \A c \in Probing : age[c] <= ProbeTimeout
  /\ state = "Open" => \A c \in Probing : openFor <= age[c]
  /\ \A c \in Callers : calls[c] # "probe" => age[c] = 0

\* A call that returns takes its probe away, and Record opens the breaker, if
\* it does, with openFor = 0.
LEMMA LeaveProbeInv ==
  ASSUME ProbeInv, BreakerTypeOK', NEW c \in Callers, NEW err \in BOOLEAN, Leave(c), Record(err)
  PROVE  ProbeInv'
<1>1. /\ \A d \in Callers : d # c => calls'[d] = calls[d] /\ age'[d] = age[d]
      /\ calls'[c] = "none" /\ age'[c] = 0
  BY DEF ProbeInv, BreakerTypeOK, Leave
<1>2. Probing' \subseteq Probing /\ \A d \in Probing' : d # c
  BY <1>1 DEF Probing
<1>3. state' = "Open" => openFor' = 0 \/ (state = "Open" /\ openFor' = openFor)
  BY DEF Record, Trip, machine
<1>4. state' = "Open" => \A d \in Probing' : openFor' <= age'[d]
  BY <1>1, <1>2, <1>3 DEF ProbeInv, BreakerTypeOK, Probing
<1> QED BY <1>1, <1>2, <1>4 DEF ProbeInv, SingleProbe, Probing

\* Every step keeps ProbeInv when a probe's deadline comes before OpenTimeout.
LEMMA ProbeStep ==
  ASSUME 0 < ProbeTimeout, ProbeTimeout < OpenTimeout, ProbeInv, [BreakerNext]_breakerVars
  PROVE  ProbeInv'
<1>1. BreakerTypeOK /\ BreakerTypeOK'
  BY TypeStep DEF ProbeInv
<1>2. ASSUME NEW c \in Callers, AllowClosed(c) PROVE ProbeInv'
  BY <1>1, <1>2 DEF AllowClosed, Enter, machine, ProbeInv, SingleProbe, Probing, BreakerTypeOK
<1>3. ASSUME NEW c \in Callers, AllowProbe(c) PROVE ProbeInv'
  <2>1. Probing = {}
    BY <1>1, <1>3, ConfigAssumption DEF AllowProbe, ProbeInv, Probing, BreakerTypeOK
  <2>2. Probing' = {c} /\ age' = age /\ age[c] = 0 /\ state' = "HalfOpen"
    BY <1>1, <1>3, <2>1 DEF AllowProbe, Enter, ProbeInv, Probing, BreakerTypeOK
  <2> QED BY <1>1, <1>3, <2>2, ConfigAssumption
          DEF AllowProbe, Enter, ProbeInv, SingleProbe, Probing, BreakerTypeOK
<1>4. ASSUME NEW c \in Callers, Returns(c) \/ Abandoned(c) PROVE ProbeInv'
  BY <1>1, <1>4, LeaveProbeInv, Zenon DEF Returns, Succeeds, Ignored, Errs, Abandoned
<1>5. ASSUME Outage \/ Recovery PROVE ProbeInv'
  BY <1>1, <1>5, Zenon DEF Outage, Recovery, BecomesHealthy, machine, ProbeInv, SingleProbe, Probing
<1>6. ASSUME Tick PROVE ProbeInv'
  <2>1. Probing' = Probing /\ SingleProbe' /\ state' = state /\ calls' = calls
    BY <1>6 DEF Tick, ProbeInv, SingleProbe, Probing
  <2>2. /\ openFor \in Int /\ ProbeTimeout \in Int
        /\ \A c \in Callers : age[c] \in Int
    BY <1>1, ConfigAssumption DEF BreakerTypeOK
  <2>3. ASSUME NEW c \in Probing
        PROVE  c \in Callers /\ age[c] < ProbeTimeout /\ age'[c] = age[c] + 1
    BY <1>6, ConfigAssumption DEF Tick, Probing
  <2>4. \A c \in Probing : age'[c] <= ProbeTimeout
    BY <2>2, <2>3
  <2>5. openFor' = openFor \/ openFor' = openFor + 1
    BY <1>6, Zenon DEF Tick
  <2>6. state = "Open" => \A c \in Probing : openFor' <= age'[c]
    BY <2>2, <2>3, <2>5 DEF ProbeInv
  <2>7. \A c \in Callers : calls[c] # "probe" => age'[c] = 0
    BY <1>6 DEF Tick, ProbeInv, Probing
  <2> QED BY <1>1, <2>1, <2>4, <2>6, <2>7 DEF ProbeInv
<1>7. CASE UNCHANGED breakerVars
  BY <1>1, <1>7 DEF breakerVars, machine, inFlight, ProbeInv, SingleProbe, Probing
<1> QED BY <1>2, <1>3, <1>4, <1>5, <1>6, <1>7 DEF BreakerNext

\* With a ProbeTimeout below OpenTimeout the breaker never has two probes in
\* flight, whatever late results reopen or close it under a probe.
THEOREM BreakerSingleProbe ==
  ASSUME 0 < ProbeTimeout, ProbeTimeout < OpenTimeout
  PROVE  BreakerSpec => []SingleProbe
<1>1. BreakerInit => ProbeInv
  BY TypeInit, ConfigAssumption DEF BreakerInit, ProbeInv, SingleProbe, Probing
<1>2. ProbeInv /\ [BreakerNext]_breakerVars => ProbeInv'
  BY ProbeStep
<1>3. ProbeInv => SingleProbe
  BY DEF ProbeInv
<1> QED BY <1>1, <1>2, <1>3, PTL DEF BreakerSpec

-----------------------------------------------------------------------------
(* Processor. *)

Flags ==
  /\ canceled \in BOOLEAN /\ signaled \in BOOLEAN /\ closing \in BOOLEAN
  /\ startErr \in BOOLEAN /\ consumeErr \in BOOLEAN /\ shutdownErr \in BOOLEAN /\ metricsErr \in BOOLEAN

\* The client is open from Start to CloseClient, and the goroutine that uses
\* it is gone before and after; the pool is open as long as the process runs.
Opened ==
  /\ main \in {"down", "run", "shutdown", "receive", "close", "wait", "closePool"}
  /\ reload \in {"idle", "loaded", "added", "gone"}
  /\ client = IF main \in {"down", "closePool"} THEN "closed" ELSE "open"
  /\ pool = IF main = "down" THEN "closed" ELSE "open"
  /\ main \in {"down", "closePool"} => reload = "gone"

\* In the middle of a reload the client fetches the union of what it had and
\* of what it is to have, and otherwise what con.assignment says.
Fetching ==
  /\ target # NoTarget <=> reload \in {"loaded", "added"}
  /\ client = "open" =>
       /\ assignment # {}
       /\ consuming = IF reload = "added" THEN assignment \cup target ELSE assignment

\* Why run is on its way out, and what it knows once it has heard from the
\* metrics server.
Leaving ==
  /\ main = "down" => ~canceled /\ server = "none"
  /\ main = "run" /\ canceled => signaled \/ startErr
  /\ main \notin {"down", "run"} => signaled \/ startErr \/ consumeErr
  /\ exit = "nil" => /\ main \in {"close", "wait", "closePool"} /\ server = "done"
                     /\ ~startErr /\ ~consumeErr /\ ~shutdownErr
  /\ main \in {"down", "run", "shutdown", "receive"} => exit = "none"
  /\ main \in {"close", "wait", "closePool"} => server = "done"

PInv == Flags /\ Opened /\ Fetching /\ Leaving

\* The conjuncts of the invariant, for steps that need one of them.
LEMMA Parts == PInv => Flags /\ Opened /\ Fetching /\ Leaving
  BY DEF PInv

\* The induction starts: the process is down and holds nothing.
LEMMA InitPInv == Init => PInv
  BY Zenon DEF Init, NoProcess, PInv, Flags, Opened, Fetching, Leaving, NoTarget

\* Steps that leave the process alone, but for the cancellation of a pool that
\* is torn down.
LEMMA OutsidePInv ==
  ASSUME PInv, UNCHANGED <<main, metrics, errors, exit, reloader, resources>>,
         \/ UNCHANGED <<canceled, signaled>>
         \/ main # "down" /\ canceled' = TRUE /\ signaled' = TRUE
  PROVE  PInv'
<1> USE DEF metrics, errors, reloader, resources
<1>1. Flags'
  BY Parts, Zenon DEF Flags
<1>2. Opened' /\ Fetching'
  BY Parts DEF Opened, Fetching
<1>3. Leaving'
  BY Parts DEF Flags, Leaving
<1> QED
  BY <1>1, <1>2, <1>3 DEF PInv

\* A process that is gone holds no resource and runs no goroutine.
LEMMA GonePInv ==
  ASSUME PInv, Gone
  PROVE  PInv'
  BY Zenon DEF PInv, Gone, Flags, Opened, Fetching, Leaving, NoTarget

\* Start opens what the later phases close.
LEMMA StartPInv ==
  ASSUME PInv, Start
  PROVE  PInv'
<1> USE DEF Start, errors
<1>1. Flags'
  BY Parts DEF Flags
<1>2. Opened'
  BY Parts DEF Opened
<1>3. Fetching'
  <2>1. reload = "gone"
    BY Parts DEF Opened
  <2>2. target = {} /\ target' = {}
    BY Parts, <2>1 DEF Fetching, NoTarget
  <2>3. assignment' # {} /\ consuming' = assignment' /\ reload' = "idle"
    BY DEF NoTarget
  <2> QED
    BY <2>2, <2>3 DEF Fetching, NoTarget
<1>4. Leaving'
  BY Parts DEF Flags, Leaving
<1> QED
  BY <1>1, <1>2, <1>3, <1>4 DEF PInv

\* The steps of run, phase by phase in the order of its deferred calls.
LEMMA RunPInv ==
  ASSUME PInv, Run
  PROVE  PInv'
<1> USE DEF metrics, errors, reloader, resources, Failure
<1>1. CASE RunCanceled \/ RunFails
  <2>1. Flags' BY Parts, <1>1, Zenon DEF Flags, RunCanceled, RunFails
  <2>2. Opened' BY Parts, <1>1 DEF Opened, RunCanceled, RunFails
  <2>3. Fetching' BY Parts, <1>1, Zenon DEF Opened, Fetching, RunCanceled, RunFails
  <2>4. Leaving' BY Parts, <1>1 DEF Flags, Leaving, RunCanceled, RunFails
  <2> QED BY <2>1, <2>2, <2>3, <2>4 DEF PInv
<1>2. CASE Shutdown
  <2>1. Flags' BY Parts, <1>2 DEF Flags, Shutdown
  <2>2. Opened' BY Parts, <1>2 DEF Opened, Shutdown
  <2>3. Fetching' BY Parts, <1>2 DEF Opened, Fetching, Shutdown
  <2>4. Leaving' BY Parts, <1>2 DEF Flags, Leaving, Shutdown
  <2> QED BY <2>1, <2>2, <2>3, <2>4 DEF PInv
<1>3. CASE Receive
  <2>1. Flags' BY Parts, <1>3 DEF Flags, Receive
  <2>2. Opened' BY Parts, <1>3 DEF Opened, Receive
  <2>3. Fetching' BY Parts, <1>3 DEF Opened, Fetching, Receive
  <2>4. Leaving' BY Parts, <1>3 DEF Flags, Leaving, Receive, Result
  <2> QED BY <2>1, <2>2, <2>3, <2>4 DEF PInv
<1>4. CASE Close
  <2>1. Flags' BY Parts, <1>4 DEF Flags, Close
  <2>2. Opened' BY Parts, <1>4 DEF Opened, Close
  <2>3. Fetching' BY Parts, <1>4 DEF Opened, Fetching, Close
  <2>4. Leaving' BY Parts, <1>4 DEF Flags, Leaving, Close
  <2> QED BY <2>1, <2>2, <2>3, <2>4 DEF PInv
<1>5. CASE CloseClient
  <2>1. Flags' BY Parts, <1>5 DEF Flags, CloseClient
  <2>2. Opened' BY Parts, <1>5 DEF Opened, CloseClient
  <2>3. Fetching' BY Parts, <1>5 DEF Opened, Fetching, CloseClient
  <2>4. Leaving' BY Parts, <1>5 DEF Flags, Leaving, CloseClient
  <2> QED BY <2>1, <2>2, <2>3, <2>4 DEF PInv
<1>6. CASE ClosePool
  BY <1>6, GonePInv, Zenon DEF ClosePool
<1> QED
  BY <1>1, <1>2, <1>3, <1>4, <1>5, <1>6 DEF Run

\* The server fails only before run has heard from it.
LEMMA ServerPInv ==
  ASSUME PInv, Server
  PROVE  PInv'
<1> USE DEF reloader, resources, Failure, Server, ServerFails, ServerSendsError, ServerCloses
<1>1. Flags'
  BY Parts, Zenon DEF Flags
<1>2. Opened' /\ Fetching'
  BY Parts, Zenon DEF Opened, Fetching
<1>3. Leaving'
  BY Parts DEF Flags, Leaving
<1> QED
  BY <1>1, <1>2, <1>3 DEF PInv

\* The reloader changes the fetched partitions only while the client is open.
LEMMA ReloaderPInv ==
  ASSUME PInv, Reloader
  PROVE  PInv'
<1> USE DEF metrics, errors, resources
<1>1. main \notin {"down", "closePool"} /\ client = "open" /\ reload # "gone"
  BY Parts, Zenon DEF Opened, Reloader, Load, AddPartitions, RemovePartitions, ReloaderReturns
<1>2. UNCHANGED <<main, canceled, signaled, metrics, errors, exit, resources>>
  BY DEF Reloader, Load, AddPartitions, RemovePartitions, ReloaderReturns
<1>3. Flags' /\ Leaving'
  BY Parts, <1>2 DEF Flags, Leaving
<1>4. Opened'
  BY Parts, <1>1, <1>2 DEF Opened, Reloader, Load, AddPartitions, RemovePartitions, ReloaderReturns
<1>5. Fetching'
  <2>1. CASE Load
    BY Parts, <1>1, <1>2, <2>1, Zenon DEF Fetching, Load, NoTarget
  <2>2. CASE AddPartitions
    BY Parts, <1>1, <1>2, <2>2, Zenon DEF Fetching, AddPartitions, NoTarget
  <2>3. CASE RemovePartitions
    BY Parts, <1>1, <1>2, <2>3, Zenon DEF Fetching, RemovePartitions, NoTarget
  <2>4. CASE ReloaderReturns
    BY Parts, <1>1, <1>2, <2>4 DEF Fetching, ReloaderReturns, NoTarget
  <2> QED
    BY <2>1, <2>2, <2>3, <2>4, Zenon DEF Reloader
<1> QED
  BY <1>3, <1>4, <1>5, Zenon DEF PInv

\* Every step of the process preserves PInv.
LEMMA NextPInv == PInv /\ [Next]_vars => PInv'
<1> SUFFICES ASSUME PInv, [Next]_vars PROVE PInv'
  OBVIOUS
<1>1. CASE Process
  <2>1. CASE Signal
    BY <2>1, OutsidePInv DEF Signal
  <2>2. CASE Kill
    BY <2>2, GonePInv DEF Kill
  <2> QED
    BY <1>1, <2>1, <2>2, StartPInv, RunPInv, ServerPInv, ReloaderPInv DEF Process
<1>2. CASE Ensure
  BY <1>2, OutsidePInv, Zenon DEF Ensure
<1>3. CASE SyncProcessor
  BY <1>3, OutsidePInv DEF SyncProcessor, processVars
<1>4. CASE UNCHANGED processorVars
  BY <1>4, OutsidePInv DEF processorVars, processVars
<1> QED
  BY <1>1, <1>2, <1>3, <1>4, Zenon DEF Next, vars, Change, Observe, UpdateMap, SyncPublisher, Reload, Partition

\* The inductive invariant the theorems on cmd/processor/main.go below rest on.
THEOREM PInvariance == Spec => []PInv
  BY InitPInv, NextPInv, PTL DEF Spec

\* A reload never leaves the process without a partition, and never stops it
\* from fetching one it keeps.
THEOREM AlwaysFetching == Spec => []NeverUnassigned
<1>1. PInv => NeverUnassigned
  BY Parts DEF Opened, Fetching, NeverUnassigned
<1> QED
  BY <1>1, PInvariance, PTL

\* The reload goroutine is gone when the client is closed.
THEOREM CleanClose == Spec => []NothingAfterClose
<1>1. PInv => NothingAfterClose
  BY Parts DEF Opened, NothingAfterClose
<1> QED
  BY <1>1, PInvariance, PTL

\* run returns nil only when it was told to stop and nothing has failed.
THEOREM ExitIsHonest == Spec => []HonestExit
<1>1. PInv => HonestExit
  BY Parts DEF Leaving, HonestExit
<1> QED
  BY <1>1, PInvariance, PTL

-----------------------------------------------------------------------------
(* Propagation: types *)

\* A table's range is an entry, and an entry names partitions below twice the
\* size of the topic.
LEMMA EntryTyped ==
  /\ NoRange \in TableRanges
  /\ \A r \in TableRanges : r \in Entries
  /\ \A r \in TableRanges : r # NoRange => r.size \in 1 .. Total
  /\ \A r \in Entries : r.size \in 0 .. Total /\ SetOf(r) \in SUBSET Partitions
<1>1. Total \in Nat /\ Total >= 1 /\ Partitions = 0 .. (2 * Total - 2)
  BY PropagationAssumption
<1>2. NoRange \in TableRanges /\ NoRange \in Entries
  BY <1>1 DEF TableRanges, NoRange, Layout!NoRange, Entries
<1>3. ASSUME NEW r \in Entries PROVE r.size \in 0 .. Total /\ SetOf(r) \in SUBSET Partitions
  <2>1. r.start \in 0 .. (Total - 1) /\ r.size \in 0 .. Total
    BY DEF Entries
  <2>2. \A x \in r.start .. (r.start + r.size - 1) : x \in 0 .. (2 * Total - 2)
    BY <1>1, <2>1
  <2> QED BY <1>1, <2>1, <2>2 DEF SetOf
<1>4. \A r \in TableRanges : r # NoRange => r.size \in 1 .. Total
  BY <1>1 DEF TableRanges, Entries
<1> QED BY <1>2, <1>3, <1>4 DEF TableRanges

\* The explicit ranges of a table lie in the topic, whatever the counts.
LEMMA LayoutTyped ==
  ASSUME NEW c \in [Tenants -> 0 .. (Total + DefaultSize)]
  PROVE  LayoutOf(c) \in [Tenants -> TableRanges]
<1> DEFINE rs == LayoutOf(c)  cap == Layout!Capacity(Total)
<1>1. Layout!IsLayout(rs, c, Total)
  BY LayoutAssumption
<1>2. rs = [t \in Tenants |-> rs[t]]
  BY DEF LayoutOf
<1>3. Total \in Nat /\ Total >= 1 /\ DefaultSize \in Nat
  BY PropagationAssumption
<1>4. cap \in Nat /\ cap <= Total
  BY <1>3 DEF Layout!Capacity
<1> HIDE DEF rs, cap
<1>5. ASSUME NEW t \in Tenants PROVE rs[t] \in TableRanges
  <2>1. CASE c[t] = 0
    BY <1>1, <2>1 DEF Layout!IsLayout, TableRanges, NoRange
  <2>2. CASE c[t] # 0
    <3>1. PICK s \in 0 .. cap :
            rs[t] = IF s = cap THEN Layout!NoRange
                    ELSE [start |-> s, size |-> IF s + c[t] > cap THEN cap - s ELSE c[t]]
      BY <1>1, <2>2, Zenon DEF Layout!IsLayout, cap
    <3>2. CASE s = cap
      BY <3>1, <3>2, Zenon DEF TableRanges, NoRange
    <3>3. CASE s # cap
      <4> DEFINE z == IF s + c[t] > cap THEN cap - s ELSE c[t]
      <4>1. c[t] \in Nat /\ c[t] >= 1 /\ s \in Nat /\ s < cap
        BY <1>3, <1>4, <2>2, <3>3
      <4>2. z \in Nat /\ z >= 1 /\ s + z <= cap
        BY <1>4, <4>1
      <4>3. rs[t] = [start |-> s, size |-> z]
        BY <3>1, <3>3
      <4> HIDE DEF z
      <4>4. s \in 0 .. (Total - 1) /\ z \in 0 .. Total /\ s + z <= Total
        BY <1>3, <1>4, <4>1, <4>2
      <4> QED BY <4>2, <4>3, <4>4 DEF TableRanges, Entries, Layout!End
    <3> QED BY <3>2, <3>3
  <2> QED BY <2>1, <2>2, Zenon
<1> QED BY <1>2, <1>5 DEF rs

\* Init builds a table of its own.
LEMMA InitTyped == Init => PropagationTypeOK
<1> SUFFICES ASSUME Init PROVE PropagationTypeOK
  OBVIOUS
<1> DEFINE c == [t \in Tenants |-> IF t \in Isolated THEN DefaultSize ELSE 0]
<1>1. DefaultSize \in Nat /\ Total \in Nat /\ MaxChanges \in Nat /\ Isolated \subseteq Tenants /\ Me \in Tenants
  BY PropagationAssumption
<1>2. c \in [Tenants -> 0 .. (Total + DefaultSize)]
  BY <1>1
<1>3. map \in [Tenants -> TableRanges]
  <2>1. map = LayoutOf(c)
    BY DEF Init
  <2> HIDE DEF c
  <2> QED BY <1>2, <2>1, LayoutTyped
<1>4. map \in [Tenants -> Entries]
  BY <1>3, EntryTyped
<1>5. \A t \in Tenants : map[t].size \in 0 .. Total
  BY <1>4, EntryTyped, Zenon
<1>6. counts \in [Publishers -> [Tenants -> 0 .. Total]]
  BY <1>5 DEF Init
<1>7. NoRanges \in [Tenants -> TableRanges]
  BY EntryTyped, Zenon DEF NoRanges
<1>8. shares \in [Publishers -> [Tenants -> TableRanges]] /\ ranges \in [Publishers -> [Tenants -> TableRanges]]
  BY <1>3, <1>7, Zenon DEF Init
<1>9. manual \in SUBSET Partitions /\ entry \in SUBSET Partitions
  BY <1>1, <1>4, EntryTyped, Zenon DEF Init
<1>10. ProcessorTypeOK
  BY <1>9, Zenon DEF Init, NoProcess, NoTarget, ProcessorTypeOK
<1> QED BY <1>1, <1>3, <1>4, <1>6, <1>8, <1>10 DEF Init, PropagationTypeOK

\* The steps of the process keep its state well typed: what it fetches comes
\* from the two ConfigMaps.
LEMMA ProcessTyped ==
  ASSUME ProcessorTypeOK, Process
  PROVE  ProcessorTypeOK'
<1> USE ProcessorAssumption DEF ProcessorTypeOK
<1>1. CASE Signal
  BY <1>1 DEF Signal, Failure, sources, metrics, errors, reloader, resources
<1>2. ASSUME Gone, UNCHANGED sources, failures' \in Nat PROVE ProcessorTypeOK'
  BY <1>2, Zenon DEF Gone, sources, NoTarget
<1>3. CASE Kill
  BY <1>2, <1>3 DEF Kill, Failure
<1>4. CASE Start
  BY <1>4 DEF Start, sources, errors
<1>5. CASE Server
  <2>1. CASE ServerFails
    BY <2>1 DEF ServerFails, Failure, sources, reloader, resources
  <2>2. CASE ServerSendsError
    BY <2>2 DEF ServerSendsError, sources, reloader, resources
  <2>3. CASE ServerCloses
    <3>1. metricsErr' \in BOOLEAN
      BY <2>3, Zenon DEF ServerCloses
    <3> QED BY <2>3, <3>1 DEF ServerCloses, sources, reloader, resources
  <2> QED BY <1>5, <2>1, <2>2, <2>3, Zenon DEF Server
<1>6. CASE RunCanceled \/ RunFails
  <2>1. CASE RunCanceled
    <3>1. consumeErr' \in BOOLEAN
      BY <2>1, Zenon DEF RunCanceled
    <3> QED BY <2>1, <3>1 DEF RunCanceled, sources, metrics, reloader, resources
  <2>2. CASE RunFails
    BY <2>2 DEF RunFails, Failure, sources, metrics, reloader, resources
  <2> QED BY <1>6, <2>1, <2>2, Zenon
<1>7. CASE Shutdown
  BY <1>7 DEF Shutdown, sources, reloader, resources
<1>8. CASE Receive
  <2>1. exit' \in {"none", "nil", "error"}
    BY <1>8, Zenon DEF Receive, Result
  <2> QED BY <1>8, <2>1 DEF Receive, sources, metrics, errors, reloader, resources
<1>9. CASE Close
  BY <1>9 DEF Close, sources, metrics, errors, resources
<1>10. CASE CloseClient
  BY <1>10 DEF CloseClient, sources, metrics, errors
<1>11. CASE ClosePool
  BY <1>2, <1>11, Zenon DEF ClosePool
<1>12. CASE Load
  <2>1. reload' \in {"idle", "loaded", "added", "gone"} /\ target' \in SUBSET Partitions
    BY <1>12, Zenon DEF Load
  <2> QED BY <1>12, <2>1 DEF Load, sources, metrics, errors, resources
<1>13. CASE ReloaderReturns
  BY <1>13 DEF ReloaderReturns, sources, metrics, errors, resources
<1>14. CASE AddPartitions
  <2>1. consuming' \in SUBSET Partitions
    BY <1>14, Zenon DEF AddPartitions
  <2> QED BY <1>14, <2>1 DEF AddPartitions, sources, metrics, errors, resources
<1>15. CASE RemovePartitions
  <2>1. consuming' \in SUBSET Partitions /\ target' \in SUBSET Partitions
    BY <1>15, Zenon DEF RemovePartitions, NoTarget
  <2> QED BY <1>15, <2>1 DEF RemovePartitions, sources, metrics, errors, resources
<1> QED
  BY <1>1, <1>3, <1>4, <1>5, <1>6, <1>7, <1>8, <1>9, <1>10, <1>11, <1>12, <1>13, <1>14, <1>15, Zenon
  DEF Process, Run, Reloader

\* A step of the environment changes at most what the ConfigMaps say and
\* whether the process was told to stop.
LEMMA SourcesTyped ==
  ASSUME ProcessorTypeOK, manual' \in SUBSET Partitions, entry' \in SUBSET Partitions,
         signaled' \in BOOLEAN, canceled' \in BOOLEAN,
         UNCHANGED <<main, metrics, errors, exit, reloader, resources, failures>>
  PROVE  ProcessorTypeOK'
BY DEF ProcessorTypeOK, metrics, errors, reloader, resources

\* A step that leaves the process and its ConfigMaps alone keeps its types.
LEMMA UntouchedTyped ==
  ASSUME ProcessorTypeOK, UNCHANGED processorVars
  PROVE  ProcessorTypeOK'
BY DEF ProcessorTypeOK, processorVars, processVars, sources, metrics, errors, reloader, resources

\* The steps of the operator and of the kubelets.  Ensure is the one that joins
\* the start of one table with the count of another.
LEMMA OperatorTyped ==
  ASSUME PropagationTypeOK,
         (\E t \in Tenants : Change(t) \/ Observe(t)) \/ Ensure \/ UpdateMap
           \/ (\E p \in Publishers : SyncPublisher(p)) \/ SyncProcessor
  PROVE  PropagationTypeOK'
<1>1. Me \in Tenants /\ MaxChanges \in Nat
  BY PropagationAssumption
<1>2. ASSUME UNCHANGED processorVars PROVE ProcessorTypeOK'
  BY <1>2, UntouchedTyped, Zenon DEF PropagationTypeOK
<1>3. ASSUME NEW t \in Tenants, Change(t) PROVE PropagationTypeOK'
  <2>1. dedicated' \subseteq Tenants /\ changes' \in 0 .. MaxChanges
    BY <1>1, <1>3 DEF Change, PropagationTypeOK
  <2> QED BY <1>2, <1>3, <2>1, Zenon DEF Change, PropagationTypeOK, publisherVars
<1>4. ASSUME NEW t \in Tenants, Observe(t) PROVE PropagationTypeOK'
  <2>1. gauge[t] \in TableRanges /\ gauge[t] # NoRange
    BY <1>4, Zenon DEF Observe, PropagationTypeOK
  <2>2. gauge[t].size \in 1 .. Total /\ NoRange \in Entries
    BY <2>1, EntryTyped, Zenon
  <2>3. pass' \in [tenant: Tenants, flag: BOOLEAN, count: 1 .. Total, range: Entries, step: {"ensure", "map"}]
    <3>1. (t \in dedicated) \in BOOLEAN /\ "ensure" \in {"ensure", "map"}
      OBVIOUS
    <3> QED BY <1>4, <2>2, <3>1, Zenon DEF Observe
  <2> QED BY <1>2, <1>4, <2>3, Zenon DEF Observe, PropagationTypeOK, publisherVars
<1>5. CASE Ensure
  <2> DEFINE range == IF pass.flag THEN [start |-> gauge[pass.tenant].start, size |-> pass.count] ELSE NoRange
  <2>1. pass \in [tenant: Tenants, flag: BOOLEAN, count: 1 .. Total, range: Entries, step: {"ensure", "map"}]
    BY <1>5 DEF Ensure, PropagationTypeOK
  <2>2. pass.tenant \in Tenants /\ pass.count \in 0 .. Total
    BY <2>1, PropagationAssumption
  <2>3. gauge[pass.tenant] \in Entries
    BY <2>2, EntryTyped, Zenon DEF PropagationTypeOK
  <2>4. [start |-> gauge[pass.tenant].start, size |-> pass.count] \in Entries
    BY <2>2, <2>3, Zenon DEF Entries
  <2>5. range \in Entries
    BY <2>4, EntryTyped
  <2>6. pass' = [pass EXCEPT !.range = range, !.step = "map"] /\ manual' = IF pass.tenant = Me THEN SetOf(range) ELSE manual
    BY <1>5 DEF Ensure
  <2> HIDE DEF range
  <2>7. pass' \in [tenant: Tenants, flag: BOOLEAN, count: 1 .. Total, range: Entries, step: {"ensure", "map"}]
    BY <2>1, <2>5, <2>6, Zenon
  <2>8. manual' \in SUBSET Partitions
    BY <2>5, <2>6, EntryTyped DEF PropagationTypeOK, ProcessorTypeOK
  <2>9. signaled' \in BOOLEAN /\ canceled' \in BOOLEAN
    BY <1>5, Zenon DEF Ensure, PropagationTypeOK, ProcessorTypeOK
  <2>10. entry' \in SUBSET Partitions /\ UNCHANGED <<main, metrics, errors, exit, reloader, resources, failures>>
    BY <1>5, Zenon DEF Ensure, PropagationTypeOK, ProcessorTypeOK
  <2>11. ProcessorTypeOK'
    BY <2>8, <2>9, <2>10, SourcesTyped, Zenon DEF PropagationTypeOK
  <2> QED BY <1>5, <2>7, <2>11 DEF Ensure, PropagationTypeOK, publisherVars
<1>6. CASE UpdateMap
  <2>1. pass \in [tenant: Tenants, flag: BOOLEAN, count: 1 .. Total, range: Entries, step: {"ensure", "map"}]
    BY <1>6, Zenon DEF UpdateMap, PropagationTypeOK
  <2>2. map' \in [Tenants -> Entries]
    BY <1>6, <2>1, Zenon DEF UpdateMap, PropagationTypeOK
  <2> QED BY <1>2, <1>6, <2>2, Zenon DEF UpdateMap, PropagationTypeOK, publisherVars
<1>7. ASSUME NEW p \in Publishers, SyncPublisher(p) PROVE PropagationTypeOK'
  <2>1. file' \in [Publishers -> [Tenants -> Entries]]
    BY <1>7, Zenon DEF SyncPublisher, PropagationTypeOK
  <2> QED BY <1>2, <1>7, <2>1, Zenon DEF SyncPublisher, PropagationTypeOK, operatorVars
<1>8. CASE SyncProcessor
  <2>1. entry' \in SUBSET Partitions
    BY <1>1, <1>8, EntryTyped DEF SyncProcessor, PropagationTypeOK
  <2>2. ProcessorTypeOK'
    BY <1>8, <2>1, SourcesTyped, Zenon DEF SyncProcessor, PropagationTypeOK, ProcessorTypeOK, processVars
  <2> QED BY <1>8, <2>2, Zenon DEF SyncProcessor, PropagationTypeOK, publisherVars, operatorVars
<1> QED BY <1>3, <1>4, <1>5, <1>6, <1>7, <1>8

\* What a draw from the pool keeps, proved below (PoolIsWell).
PoolWell ==
  \A rs, old \in [Tenants -> TableRanges] : \A t \in Tenants :
    Drawn(rs, old, t) \in [Tenants -> TableRanges]

\* The steps of the publishers: a table is laid out and drawn from within the
\* topic, whatever the counts of the file add up to.
LEMMA PublisherTyped ==
  ASSUME PoolWell, PropagationTypeOK, NEW p \in Publishers, Reload(p) \/ \E t \in Tenants : Partition(p, t)
  PROVE  PropagationTypeOK'
<1>1. ASSUME UNCHANGED processorVars PROVE ProcessorTypeOK'
  BY <1>1, UntouchedTyped, ZenonT(30) DEF PropagationTypeOK
<1>2. CASE Reload(p)
  <2>1. file[p] \in [Tenants -> Entries]
    BY Zenon DEF PropagationTypeOK
  <2>2. \A t \in Tenants : file[p][t].size \in 0 .. Total
    BY <2>1, EntryTyped, Zenon
  <2>3. counts' \in [Publishers -> [Tenants -> 0 .. Total]] /\ fresh' \subseteq Publishers
    BY <1>2, <2>2 DEF Reload, PropagationTypeOK
  <2> QED BY <1>1, <1>2, <2>3, Zenon DEF Reload, PropagationTypeOK, operatorVars
<1>3. ASSUME NEW t \in Tenants, Partition(p, t) PROVE PropagationTypeOK'
  <2> DEFINE rs == IF p \in fresh THEN LayoutOf(counts[p]) ELSE ranges[p]
             old == IF p \in fresh THEN NoRanges ELSE shares[p]
             new == Drawn(rs, old, t)
  <2>1. counts[p] \in [Tenants -> 0 .. (Total + DefaultSize)]
    <3>1. Total \in Nat /\ DefaultSize \in Nat
      BY PropagationAssumption
    <3>2. \A n \in 0 .. Total : n \in 0 .. (Total + DefaultSize)
      BY <3>1
    <3>3. counts[p] \in [Tenants -> 0 .. Total]
      BY Zenon DEF PropagationTypeOK
    <3> QED BY <3>2, <3>3, Zenon
  <2>2. rs \in [Tenants -> TableRanges]
    BY <2>1, LayoutTyped, Zenon DEF PropagationTypeOK
  <2>3. old \in [Tenants -> TableRanges]
    BY EntryTyped DEF NoRanges, PropagationTypeOK
  <2> DEFINE Laid(r, o, n) ==
               /\ ranges' = [ranges EXCEPT ![p] = r]
               /\ shares' = [shares EXCEPT ![p] = n]
               /\ gauge' = IF p # Scraped THEN gauge
                           ELSE [u \in Tenants |-> IF p \in fresh /\ r[u].size > 0 THEN r[u]
                                                  ELSE IF n[u] # o[u] THEN n[u]
                                                  ELSE gauge[u]]
  <2>4. fresh' = fresh \ {p} /\ Laid(rs, old, new)
    <3>1. \E r \in {rs}, o \in {old} : \E n \in {Drawn(r, o, t)} : Laid(r, o, n)
      BY <1>3, Zenon DEF Partition
    <3>2. fresh' = fresh \ {p}
      BY <1>3, Zenon DEF Partition
    <3> HIDE DEF rs, old, Laid
    <3>3. PICK r \in {rs}, o \in {old} : \E n \in {Drawn(r, o, t)} : Laid(r, o, n)
      BY <3>1, Zenon
    <3>4. PICK n \in {Drawn(r, o, t)} : Laid(r, o, n)
      BY <3>3
    <3>5. r = rs /\ o = old
      BY Zenon
    <3>6. n = new
      BY <3>5
    <3> QED BY <3>2, <3>4, <3>5, <3>6, Zenon
  <2> HIDE DEF rs, old
  <2>5. new \in [Tenants -> TableRanges]
    BY <2>2, <2>3, Zenon DEF PoolWell
  <2> HIDE DEF new
  <2>6. ranges' \in [Publishers -> [Tenants -> TableRanges]] /\ shares' \in [Publishers -> [Tenants -> TableRanges]]
    BY <2>2, <2>4, <2>5, Zenon DEF PropagationTypeOK
  <2>7. gauge' \in [Tenants -> TableRanges]
    BY <2>2, <2>4, <2>5, Zenon DEF PropagationTypeOK
  <2> QED BY <1>1, <1>3, <2>4, <2>6, <2>7, ZenonT(30) DEF Partition, PropagationTypeOK, operatorVars
<1> QED BY <1>2, <1>3

\* Every step of the loop.
LEMMA NextTyped == PoolWell /\ PropagationTypeOK /\ [Next]_vars => PropagationTypeOK'
<1> SUFFICES ASSUME PoolWell, PropagationTypeOK, [Next]_vars PROVE PropagationTypeOK'
  BY Zenon
<1>1. CASE Process /\ UNCHANGED <<publisherVars, operatorVars>>
  <2>1. ProcessorTypeOK'
    BY <1>1, ProcessTyped, Zenon DEF PropagationTypeOK
  <2> QED BY <1>1, <2>1, Zenon DEF PropagationTypeOK, publisherVars, operatorVars
<1>2. CASE UNCHANGED vars
  <2>1. UNCHANGED <<sources, processVars>> /\ UNCHANGED <<publisherVars, operatorVars>>
    BY <1>2 DEF vars, processorVars
  <2>2. ProcessorTypeOK'
    BY <1>2, UntouchedTyped, Zenon DEF PropagationTypeOK, vars
  <2> QED BY <2>1, <2>2 DEF PropagationTypeOK, publisherVars, operatorVars
<1> QED BY <1>1, <1>2, OperatorTyped, PublisherTyped, Zenon DEF Next

-----------------------------------------------------------------------------
(* Propagation: the pool *)

INSTANCE WellFoundedInduction

\* A set of natural numbers that is not empty has a least element.
LEMMA LeastNatural ==
  ASSUME NEW T, T \subseteq Nat, T # {}
  PROVE \E x \in T : \A y \in T : x <= y
<1> DEFINE R == {ss \in Nat \X Nat : ss[1] < ss[2]}
<1>0. R = OpToRel(<, Nat)
  BY Zenon DEF OpToRel
<1>1. IsWellFoundedOn(R, Nat)
  BY <1>0, NatLessThanWellFounded, Zenon
<1>2. \A x, y \in Nat : x < y => <<x, y>> \in R
  OBVIOUS
<1> HIDE DEF R
<1>3. PICK x \in T : \A y \in T : ~(<<y, x>> \in R)
  BY <1>1, WFMin, Zenon
<1>4. \A y \in T : x <= y
  <2> TAKE y \in T
  <2>1. x \in Nat /\ y \in Nat /\ ~(y < x)
    BY <1>2, <1>3, Zenon
  <2> QED BY <2>1
<1> QED BY <1>4

\* Max of the FiniteSetsExt module is what its name says on the ends of
\* ranges that lie in the topic.
LEMMA MaxOfEnds ==
  ASSUME NEW S, S \subseteq 0 .. Total, 0 \in S
  PROVE  Max(S) \in 0 .. Total
<1> DEFINE T == {Total - x : x \in S}
<1>1. Total \in Nat
  BY PropagationAssumption, Zenon
<1>2. T \subseteq Nat /\ T # {}
  BY <1>1
<1>3. PICK d \in T : \A y \in T : d <= y
  BY <1>2, LeastNatural, Zenon
<1>4. PICK m \in S : d = Total - m
  BY <1>3, Zenon
<1>5. \A y \in S : m >= y
  <2> TAKE y \in S
  <2>1. Total - y \in T /\ d <= Total - y /\ y \in Nat /\ m \in Nat
    BY <1>3
  <2> QED BY <1>1, <1>4, <2>1
<1>6. Max(S) \in S
  BY <1>5, Zenon DEF Max
<1> QED BY <1>6, Zenon

\* A range drawn from the pool does, too.
LEMMA DrawnTyped ==
  ASSUME NEW rs \in [Tenants -> TableRanges], NEW old \in [Tenants -> TableRanges], NEW t \in Tenants
  PROVE  Drawn(rs, old, t) \in [Tenants -> TableRanges]
<1> DEFINE S == {0} \cup {Layout!End(r) : r \in {rs[u] : u \in Tenants} \cup {old[u] : u \in Tenants}}
           next == Max(S)
           z == Min({DefaultSize, Total - next})
<1>1. Total \in Nat /\ Total >= 1 /\ DefaultSize \in Nat /\ DefaultSize >= 1
  BY PropagationAssumption
<1>2. \A r \in TableRanges : Layout!End(r) \in 0 .. Total
  BY <1>1 DEF TableRanges, Entries, Layout!End, NoRange, Layout!NoRange
<1>3. S \subseteq 0 .. Total /\ 0 \in S
  BY <1>1, <1>2
<1>4. next \in 0 .. Total
  <2> HIDE DEF S
  <2> QED BY <1>3, MaxOfEnds, ZenonT(30)
<1>5. Drawn(rs, old, t) = IF rs[t].size > 0 \/ old[t].size > 0 \/ next = Total THEN old
                          ELSE [old EXCEPT ![t] = [start |-> next, size |-> z]]
  BY Zenon DEF Drawn
<1>6. ASSUME next # Total PROVE [start |-> next, size |-> z] \in TableRanges
  <2> HIDE DEF next
  <2>1. next \in Nat /\ next < Total /\ Total - next \in Nat /\ Total - next >= 1
    BY <1>1, <1>4, <1>6
  <2>2. z \in {DefaultSize, Total - next} /\ z <= Total - next
    BY <1>1, <2>1 DEF Min
  <2> HIDE DEF z
  <2>3. next \in 0 .. (Total - 1) /\ z \in 0 .. Total /\ z > 0 /\ next + z <= Total
    BY <1>1, <2>1, <2>2
  <2> QED BY <2>3 DEF TableRanges, Entries, Layout!End
<1> HIDE DEF next, z
<1> QED BY <1>5, <1>6, Zenon

\* So a draw keeps every table in the topic.
LEMMA PoolIsWell == PoolWell
BY DrawnTyped, Zenon DEF PoolWell

\* For any topic, tenants and publishers, and whatever is stale where: no
\* table and no gauge ever leaves the topic, a count is never below one or
\* above the topic's size, and what the processor is told to fetch is bounded.
THEOREM PropagationTyped == Spec => []PropagationTypeOK
<1>1. PropagationTypeOK /\ [Next]_vars => PropagationTypeOK'
  BY NextTyped, PoolIsWell
<1> QED BY InitTyped, <1>1, PTL DEF Spec
=============================================================================
