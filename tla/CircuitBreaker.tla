---------------------------- MODULE CircuitBreaker ----------------------------
(***************************************************************************)
(* corebreaker.Machine and the wrappers that put it in front of a          *)
(* dependency: ingestion.CircuitBreaker in front of the Kafka publisher,   *)
(* TransactionRepositoryBreaker and ReconciledStateRepositoryBreaker in    *)
(* front of Postgres.  All of them call Allow, then the dependency, then   *)
(* Record, and many calls are in flight at once: Allow and Record are each *)
(* atomic under the machine's mutex, the call between them is not.         *)
(*                                                                         *)
(* The dependency is external.  A call can fail if the dependency was down *)
(* at some time during the call and succeed if it was up at some time, so  *)
(* a call that started before an outage may answer long after it.  A call  *)
(* also fails when its caller gives up.                                    *)
(*                                                                         *)
(* Time is counted in ticks.  A call refused with ErrOpen changes nothing  *)
(* and has no action.                                                      *)
(***************************************************************************)
EXTENDS Naturals, FiniteSets

CONSTANTS Callers,
          FailureThreshold,
          OpenTimeout,
          ProbeTimeout,  \* 0 disables the bound on a probe
          MaxFaults      \* bound on outages and abandoned calls in a behaviour

\* Config.Validate.
ASSUME ConfigAssumption ==
  /\ FailureThreshold \in Nat \ {0}
  /\ OpenTimeout \in Nat \ {0}
  /\ ProbeTimeout \in Nat
  /\ MaxFaults \in Nat

VARIABLES
  state,
  consecutiveFailures,
  openFor,   \* time since openedAt, counted up to OpenTimeout
  calls,     \* the call each caller has in flight
  age,       \* how long a probe has been in flight
  seen,      \* whether the dependency was up, down or both during the call
  healthy,   \* whether the dependency is up
  faults     \* how many faults have happened

machine == <<state, consecutiveFailures, openFor>>
inFlight == <<calls, age, seen>>
breakerVars == <<machine, inFlight, healthy, faults>>

States == {"Closed", "Open", "HalfOpen"}

BreakerTypeOK ==
  /\ state \in States
  /\ consecutiveFailures \in 0..(FailureThreshold - 1)
  /\ openFor \in 0..OpenTimeout
  /\ calls \in [Callers -> {"none", "normal", "probe"}]
  /\ age \in [Callers -> Nat]
  /\ seen \in [Callers -> SUBSET BOOLEAN]
  /\ healthy \in BOOLEAN
  /\ faults \in Nat

BreakerInit ==
  /\ state = "Closed"
  /\ consecutiveFailures = 0
  /\ openFor = 0
  /\ calls = [c \in Callers |-> "none"]
  /\ age = [c \in Callers |-> 0]
  /\ seen = [c \in Callers |-> {}]
  /\ healthy = TRUE
  /\ faults = 0

-----------------------------------------------------------------------------
(* The machine *)

\* The call goes through to the dependency.
Enter(c, kind) ==
  /\ calls[c] = "none"
  /\ calls' = [calls EXCEPT ![c] = kind]
  /\ seen' = [seen EXCEPT ![c] = {healthy}]
  /\ UNCHANGED <<age, healthy, faults>>

\* Allow in the closed state.
AllowClosed(c) ==
  /\ state = "Closed"
  /\ Enter(c, "normal")
  /\ UNCHANGED machine

\* Mutant of AllowProbe: the open timeout is not awaited.
AllowProbeEarly(c) ==
  /\ state = "Open"
  /\ state' = "HalfOpen"
  /\ Enter(c, "probe")
  /\ UNCHANGED <<consecutiveFailures, openFor>>

\* Allow in the open state once OpenTimeout has elapsed.
AllowProbe(c) ==
  /\ state = "Open" /\ openFor >= OpenTimeout
  /\ state' = "HalfOpen"
  /\ Enter(c, "probe")
  /\ UNCHANGED <<consecutiveFailures, openFor>>

Trip ==
  /\ state' = "Open"
  /\ openFor' = 0
  /\ consecutiveFailures' = 0

\* Mutant of Record: an error leaves the half-open state as it is.
RecordKeepsHalfOpen(err) ==
  \/ state = "HalfOpen" /\ err /\ UNCHANGED machine
  \/ state = "HalfOpen" /\ ~err /\ state' = "Closed" /\ consecutiveFailures' = 0 /\ UNCHANGED openFor
  \/ state = "Closed" /\ err /\ consecutiveFailures + 1 >= FailureThreshold /\ Trip
  \/ state = "Closed" /\ err /\ consecutiveFailures + 1 < FailureThreshold
     /\ consecutiveFailures' = consecutiveFailures + 1 /\ UNCHANGED <<state, openFor>>
  \/ state = "Closed" /\ ~err /\ consecutiveFailures' = 0 /\ UNCHANGED <<state, openFor>>
  \/ state = "Open" /\ UNCHANGED machine

\* Mutant of Record: the breaker trips one failure too late.
RecordTripsLate(err) ==
  \/ state = "HalfOpen" /\ err /\ Trip
  \/ state = "HalfOpen" /\ ~err /\ state' = "Closed" /\ consecutiveFailures' = 0 /\ UNCHANGED openFor
  \/ state = "Closed" /\ err /\ consecutiveFailures + 1 > FailureThreshold /\ Trip
  \/ state = "Closed" /\ err /\ consecutiveFailures + 1 <= FailureThreshold
     /\ consecutiveFailures' = consecutiveFailures + 1 /\ UNCHANGED <<state, openFor>>
  \/ state = "Closed" /\ ~err /\ consecutiveFailures' = 0 /\ UNCHANGED <<state, openFor>>
  \/ state = "Open" /\ UNCHANGED machine

\* Record, which does not know whether the call was a probe: in the half-open
\* state the outcome of any call decides.
Record(err) ==
  \/ state = "HalfOpen" /\ err /\ Trip
  \/ state = "HalfOpen" /\ ~err /\ state' = "Closed" /\ consecutiveFailures' = 0 /\ UNCHANGED openFor
  \/ state = "Closed" /\ err /\ consecutiveFailures + 1 >= FailureThreshold /\ Trip
  \/ state = "Closed" /\ err /\ consecutiveFailures + 1 < FailureThreshold
     /\ consecutiveFailures' = consecutiveFailures + 1 /\ UNCHANGED <<state, openFor>>
  \/ state = "Closed" /\ ~err /\ consecutiveFailures' = 0 /\ UNCHANGED <<state, openFor>>
  \/ state = "Open" /\ UNCHANGED machine

-----------------------------------------------------------------------------
(* The calls *)

Leave(c) ==
  /\ calls[c] # "none"
  /\ calls' = [calls EXCEPT ![c] = "none"]
  /\ age' = [age EXCEPT ![c] = 0]
  /\ seen' = [seen EXCEPT ![c] = {}]
  /\ UNCHANGED healthy

Succeeds(c) ==
  /\ TRUE \in seen[c]
  /\ Leave(c)
  /\ Record(FALSE)
  /\ UNCHANGED faults

\* Mutant of Ignored: an ignored error is not recorded at all.
IgnoredUnrecorded(c) ==
  /\ TRUE \in seen[c]
  /\ Leave(c)
  /\ UNCHANGED <<machine, faults>>

\* The repository reports one of its sentinels (ErrDuplicateEvent, ErrNotFound,
\* ErrStaleReconciledState): recordResult records it as a success.
Ignored(c) ==
  /\ TRUE \in seen[c]
  /\ Leave(c)
  /\ Record(FALSE)
  /\ UNCHANGED faults

Errs(c) ==
  /\ FALSE \in seen[c]
  /\ Leave(c)
  /\ Record(TRUE)
  /\ UNCHANGED faults

Fault == faults < MaxFaults /\ faults' = faults + 1

\* The caller's context ends: the error is recorded like any other.
Abandoned(c) ==
  /\ Fault
  /\ Leave(c)
  /\ Record(TRUE)

Returns(c) == Succeeds(c) \/ Ignored(c) \/ Errs(c)

-----------------------------------------------------------------------------
(* The dependency and the clock *)

BecomesHealthy(h) ==
  /\ healthy = ~h
  /\ healthy' = h
  /\ seen' = [c \in Callers |-> IF calls[c] = "none" THEN {} ELSE seen[c] \cup {h}]
  /\ UNCHANGED <<machine, calls, age>>

Outage == Fault /\ BecomesHealthy(FALSE)
Recovery == BecomesHealthy(TRUE) /\ UNCHANGED faults

Probing == {c \in Callers : calls[c] = "probe"}

\* ProbeContext: a probe's context ends at ProbeTimeout and the dependency's
\* client honours it, so the clock does not move past a probe's deadline.
Tick ==
  /\ \A c \in Probing : ProbeTimeout > 0 => age[c] < ProbeTimeout
  /\ openFor' = IF state = "Open" /\ openFor < OpenTimeout THEN openFor + 1 ELSE openFor
  /\ age' = [c \in Callers |-> IF c \in Probing /\ ProbeTimeout > 0 THEN age[c] + 1 ELSE age[c]]
  /\ UNCHANGED <<state, consecutiveFailures, calls, seen, healthy, faults>>

BreakerNext ==
  \/ \E c \in Callers :
       \/ AllowClosed(c)
       \/ AllowProbe(c)
       \/ Returns(c)
       \/ Abandoned(c)
  \/ Outage
  \/ Recovery
  \/ Tick

BreakerSpec == BreakerInit /\ [][BreakerNext]_breakerVars

\* Clients keep calling, time passes, and a dependency that is up answers.
BreakerFairness ==
  /\ WF_breakerVars(\E c \in Callers : AllowClosed(c) \/ AllowProbe(c))
  /\ \A c \in Callers : WF_breakerVars(healthy /\ Returns(c))
  /\ WF_breakerVars(Tick)

BreakerFairSpec == BreakerSpec /\ BreakerFairness

-----------------------------------------------------------------------------
(* Properties *)

\* The half-open state refuses every call, so it must always have a probe in
\* flight whose Record will end it: no order of late results of other calls
\* leaves the breaker refusing calls for good.
NeverWedged == state = "HalfOpen" => Probing # {}

\* Only one probe is in flight at a time, although a late result of a call
\* from before the trip can reopen or close the breaker under a probe.
SingleProbe == \A c, d \in Probing : c = d

\* Once the dependency stays up the breaker closes and stays closed, whatever
\* results of older calls still come in.
Recovers == <>[]healthy => <>[](state = "Closed")
=============================================================================
