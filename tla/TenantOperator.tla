---------------------------- MODULE TenantOperator ----------------------------
(***************************************************************************)
(* TradingTenantReconciler: passes of Reconcile over TradingTenant         *)
(* resources, the four dedicated resources of an isolated tenant and the   *)
(* tenant-partition-map ConfigMap all tenants of the namespace share.      *)
(*                                                                         *)
(* A worker is an operator process, which runs one pass at a time; there   *)
(* can be several of them, since leader election is off by default.  Every *)
(* API call of a pass that writes is a step of its own; a read is a step   *)
(* with the call next to it where the two could not be told apart: a cache *)
(* or a gauge that changes after the read may as well change after both.   *)
(*                                                                         *)
(* The API server and the manager's client are external.  A write of an    *)
(* object fails with a conflict unless it is based on the object's latest  *)
(* version.  Versions are modelled by the sets of the copies that are      *)
(* current: a write makes every other copy of the object outdated.  Get    *)
(* reads a cache that follows the API server with some delay.              *)
(*                                                                         *)
(* The signals of a tenant are abstracted to whether they exceed their     *)
(* thresholds.  Replica counts of the deployments follow the status and    *)
(* are left out, as are events and metrics.                                *)
(***************************************************************************)
EXTENDS Naturals, Sequences, FiniteSets

CONSTANTS Tenants,
          Existing,    \* tenants whose TradingTenant exists at the start
          Workers,
          MinReplicas, MaxReplicas,
          Workloads,   \* the Deployments and the Service of an isolated tenant,
                       \* in the order in which a pass creates and deletes them
          Readings,    \* which of lag and latency may exceed their thresholds
          Ranges,      \* what the publisher's gauges may say: start and count
          NoTenant,    \* no pass is running
          NoRange,     \* no entry in the map, no dedicated ConfigMap
          MaxFaults,   \* bound on failing calls and ending processes
          MaxLives,    \* bound on TradingTenants that are created or deleted
          MaxChanges   \* bound on changes of their specs and of the gauges

ASSUME OperatorAssumption ==
  /\ MinReplicas \in Nat \ {0} /\ MaxReplicas \in Nat /\ MinReplicas <= MaxReplicas
  /\ Existing \subseteq Tenants
  /\ Workloads \in Seq(STRING \ {"configmap"})
  /\ Readings \subseteq [lagHigh: BOOLEAN, latencyHigh: BOOLEAN]
  /\ Ranges # {} /\ Ranges \subseteq [start: Nat, count: Nat \ {0}]
  /\ NoRange \notin [start: Nat, count: Nat \ {0}] /\ NoTenant \notin Tenants
  /\ MaxFaults \in Nat /\ MaxLives \in Nat /\ MaxChanges \in Nat

VARIABLES
  tenants,       \* the TradingTenant of each tenant
  pool,          \* the dedicated resources that exist
  assigned,      \* KAFKA_MANUAL_PARTITIONS in the dedicated ConfigMap
  map,           \* the shared ConfigMap: whether it exists, and its entries
  gauge,         \* the partition range the publisher reports
  cache,         \* each worker's cached copy of each TradingTenant
  cacheCurrent,  \* <<worker, tenant>> of the cached copies that are current
  mapCache,      \* each worker's cached copy of the shared map
  mapCacheCurrent,
  pc,            \* where each worker is in Reconcile
  tenant,        \* the tenant of the pass
  copy,          \* the TradingTenant of the pass
  copyCurrent,   \* the workers whose copy is current
  observed,      \* the signals of the pass
  range,         \* partitionStart, with partitionCount
  todo,          \* dedicated resources still to create or to delete
  mapping,       \* the shared map mutateTenantPartitionMap has read
  mappingCurrent,
  faults, lives, changes

object == <<tenants, cacheCurrent, copyCurrent>>
shared == <<map, mapCacheCurrent, mappingCurrent>>
caches == <<cache, mapCache>>
locals == <<copy, observed, range, todo, mapping>>
vars == <<object, shared, caches, locals, pool, assigned, gauge, pc, tenant, faults, lives, changes>>

Signals == [lagHigh: BOOLEAN, latencyHigh: BOOLEAN, partitionCount: Nat]
NoSignals == [lagHigh |-> FALSE, latencyHigh |-> FALSE, partitionCount |-> 0]

\* A TradingTenant as a pass sees it: the flag of its spec and, of its status,
\* CurrentReplicas, which is 0 before the first pass.  Nothing reads the state
\* a pass publishes.
TradingTenants == [exists: BOOLEAN, dedicated: BOOLEAN, replicas: Nat]
Absent == [exists |-> FALSE, dedicated |-> FALSE, replicas |-> 0]

\* A range may mix the start of one gauge value with the count of another.
PartitionRanges == [start: Nat, count: Nat \ {0}]
ConfigMaps == [exists: BOOLEAN, entries: [Tenants -> PartitionRanges \cup {NoRange}]]
NoMap == [exists |-> FALSE, entries |-> [t \in Tenants |-> NoRange]]

\* The dedicated resources: the ConfigMap is created first and deleted last.
EnsureOrder == <<"configmap">> \o Workloads
TearDownOrder == Workloads \o <<"configmap">>
Dedicated == {EnsureOrder[i] : i \in DOMAIN EnsureOrder}

AnyRange == CHOOSE r \in Ranges : TRUE

Steps == {"idle", "updateSpec", "ensure", "tearDown", "getMap", "writeMap", "status"}

TypeOK ==
  /\ tenants \in [Tenants -> TradingTenants]
  /\ pool \in [Tenants -> SUBSET Dedicated]
  /\ assigned \in [Tenants -> PartitionRanges \cup {NoRange}]
  /\ map \in ConfigMaps
  /\ gauge \in [Tenants -> Ranges]
  /\ cache \in [Workers -> [Tenants -> TradingTenants]]
  /\ cacheCurrent \subseteq Workers \X Tenants
  /\ mapCache \in [Workers -> ConfigMaps]
  /\ mapCacheCurrent \subseteq Workers
  /\ pc \in [Workers -> Steps]
  /\ tenant \in [Workers -> Tenants \cup {NoTenant}]
  /\ copy \in [Workers -> TradingTenants]
  /\ copyCurrent \subseteq Workers
  /\ observed \in [Workers -> Signals]
  /\ range \in [Workers -> PartitionRanges]
  /\ todo \in [Workers -> Seq(Dedicated)]
  /\ mapping \in [Workers -> ConfigMaps]
  /\ mappingCurrent \subseteq Workers
  /\ faults \in Nat /\ lives \in Nat /\ changes \in Nat

\* Processes start where earlier ones have brought the existing tenants to rest,
\* those in isolated with a dedicated pool.
Init ==
  /\ \E isolated \in SUBSET Existing :
       /\ tenants = [t \in Tenants |->
                       IF t \in Existing
                       THEN [exists |-> TRUE, dedicated |-> t \in isolated, replicas |-> MinReplicas]
                       ELSE Absent]
       /\ pool = [t \in Tenants |-> IF t \in isolated THEN Dedicated ELSE {}]
       /\ assigned = [t \in Tenants |-> IF t \in isolated THEN AnyRange ELSE NoRange]
       /\ map = [exists |-> isolated # {}, entries |-> assigned]
  /\ gauge = [t \in Tenants |-> AnyRange]
  /\ cache = [w \in Workers |-> tenants]
  /\ cacheCurrent = Workers \X Tenants
  /\ mapCache = [w \in Workers |-> map]
  /\ mapCacheCurrent = Workers
  /\ pc = [w \in Workers |-> "idle"]
  /\ tenant = [w \in Workers |-> NoTenant]
  /\ copy = [w \in Workers |-> Absent]
  /\ copyCurrent = {}
  /\ observed = [w \in Workers |-> NoSignals]
  /\ range = [w \in Workers |-> AnyRange]
  /\ todo = [w \in Workers |-> <<>>]
  /\ mapping = [w \in Workers |-> NoMap]
  /\ mappingCurrent = {}
  /\ faults = 0 /\ lives = 0 /\ changes = 0

-----------------------------------------------------------------------------
(* The API server and the caches *)

\* The TradingTenant of t is written, by the workers in writers or by a user:
\* their copies stay current, all others are outdated.
Write(t, new, writers) ==
  /\ tenants' = [tenants EXCEPT ![t] = new]
  /\ cacheCurrent' = {x \in cacheCurrent : x[2] # t}
  /\ copyCurrent' = {w \in copyCurrent : tenant[w] # t \/ w \in writers}

WriteMap(new) ==
  /\ map' = new
  /\ mapCacheCurrent' = {}
  /\ mappingCurrent' = {}

\* A watch event brings a cache up to date.
Sync(w, t) ==
  /\ <<w, t>> \notin cacheCurrent
  /\ cache' = [cache EXCEPT ![w][t] = tenants[t]]
  /\ cacheCurrent' = cacheCurrent \cup {<<w, t>>}
  /\ UNCHANGED <<tenants, copyCurrent, shared, mapCache, locals, pool, assigned, gauge, pc, tenant, faults, lives, changes>>

SyncMap(w) ==
  /\ w \notin mapCacheCurrent
  /\ mapCache' = [mapCache EXCEPT ![w] = map]
  /\ mapCacheCurrent' = mapCacheCurrent \cup {w}
  /\ UNCHANGED <<object, map, mappingCurrent, cache, locals, pool, assigned, gauge, pc, tenant, faults, lives, changes>>

-----------------------------------------------------------------------------
(* classify *)

Clamp(value, minimum, maximum) ==
  IF value < minimum THEN minimum ELSE IF value > maximum THEN maximum ELSE value

\* The decision for a TradingTenant and the signals observed.
Classify(obj, signals) ==
  LET Decide(s, r, d) == [state |-> s, replicas |-> r, setDedicatedNodePool |-> d]
      lagHigh == signals.lagHigh
      latencyHigh == signals.latencyHigh
      baseline == IF obj.replicas < MinReplicas THEN MinReplicas ELSE obj.replicas
      headroom == baseline < signals.partitionCount
      target == IF signals.partitionCount < MaxReplicas THEN signals.partitionCount ELSE MaxReplicas
  IN CASE lagHigh /\ latencyHigh -> Decide("Scaling", MaxReplicas, FALSE)
       [] lagHigh /\ ~latencyHigh /\ headroom ->
            Decide("Scaling", Clamp(target, MinReplicas, MaxReplicas), FALSE)
       [] lagHigh /\ ~latencyHigh /\ ~headroom -> Decide("Isolated", baseline, TRUE)
       [] ~lagHigh /\ latencyHigh -> Decide("Degraded", baseline, FALSE)
       [] ~lagHigh /\ ~latencyHigh -> Decide(IF obj.dedicated THEN "Isolated" ELSE "Stable", baseline, FALSE)

-----------------------------------------------------------------------------
(* Reconcile *)

Goto(w, s) == pc' = [pc EXCEPT ![w] = s]

\* The pass is over, with or without an error: the worker will start another.
End(w) ==
  /\ Goto(w, "idle")
  /\ copy' = [copy EXCEPT ![w] = Absent]
  /\ observed' = [observed EXCEPT ![w] = NoSignals]
  /\ range' = [range EXCEPT ![w] = AnyRange]
  /\ todo' = [todo EXCEPT ![w] = <<>>]
  /\ mapping' = [mapping EXCEPT ![w] = NoMap]
  /\ tenant' = [tenant EXCEPT ![w] = NoTenant]

\* Provisioning when the flag is set, teardown when it is not.
Branch(w, dedicated) ==
  /\ Goto(w, IF dedicated THEN "ensure" ELSE "tearDown")
  /\ todo' = [todo EXCEPT ![w] = IF dedicated THEN EnsureOrder ELSE TearDownOrder]

\* Get, the queries for lag, latency and partition count, and classify.  A
\* pass for a tenant that is not there has no effect and is left out.
Start(w, t) ==
  \E reading \in Readings :
    LET obj == cache[w][t]
        signals == [lagHigh |-> reading.lagHigh, latencyHigh |-> reading.latencyHigh,
                    partitionCount |-> gauge[t].count]
    IN /\ pc[w] = "idle" /\ obj.exists
       /\ tenant' = [tenant EXCEPT ![w] = t]
       /\ copy' = [copy EXCEPT ![w] = obj]
       /\ copyCurrent' = IF <<w, t>> \in cacheCurrent THEN copyCurrent \cup {w} ELSE copyCurrent \ {w}
       /\ observed' = [observed EXCEPT ![w] = signals]
       /\ IF Classify(obj, signals).setDedicatedNodePool /\ ~obj.dedicated
          THEN Goto(w, "updateSpec") /\ UNCHANGED todo
          ELSE Branch(w, obj.dedicated)
       /\ UNCHANGED <<tenants, cacheCurrent, shared, caches, range, mapping, pool, assigned,
                      gauge, faults, lives, changes>>

UpdateSpec(w) ==
  LET new == [copy[w] EXCEPT !.dedicated = TRUE] IN
  /\ pc[w] = "updateSpec" /\ w \in copyCurrent
  /\ Write(tenant[w], new, {w})
  /\ copy' = [copy EXCEPT ![w] = new]
  /\ Branch(w, TRUE)
  /\ UNCHANGED <<shared, caches, observed, range, mapping, pool, assigned, gauge, tenant, faults, lives, changes>>

\* The next of the dedicated resources is done.
Proceed(w) ==
  /\ todo' = [todo EXCEPT ![w] = Tail(@)]
  /\ Goto(w, IF Len(todo[w]) = 1 THEN "getMap" ELSE pc[w])
  /\ UNCHANGED <<object, shared, caches, copy, observed, mapping, gauge, tenant, lives, changes>>

Fault == faults < MaxFaults /\ faults' = faults + 1

\* The query for the partition start comes before the first resource, the
\* ConfigMap; the count was read at the start of the pass.
ObservedRange(w) ==
  IF Head(todo[w]) = "configmap"
  THEN [start |-> gauge[tenant[w]].start, count |-> observed[w].partitionCount]
  ELSE range[w]

\* ensureDedicatedPool: CreateOrUpdate of the next resource.
Ensure(w) ==
  LET r == Head(todo[w])
      t == tenant[w]
  IN /\ pc[w] = "ensure"
     /\ range' = [range EXCEPT ![w] = ObservedRange(w)]
     /\ pool' = [pool EXCEPT ![t] = @ \cup {r}]
     /\ assigned' = IF r = "configmap" THEN [assigned EXCEPT ![t] = ObservedRange(w)] ELSE assigned
     /\ Proceed(w)
     /\ UNCHANGED faults

\* CreateOrUpdate writes nothing because an outdated copy of the resource is
\* already as it should be.
EnsureOutdated(w) ==
  /\ pc[w] = "ensure"
  /\ range' = [range EXCEPT ![w] = ObservedRange(w)]
  /\ Fault
  /\ Proceed(w)
  /\ UNCHANGED <<pool, assigned>>

\* tearDownDedicatedPool: Delete of the next resource, if it is there.
TearDown(w) ==
  LET r == Head(todo[w])
      t == tenant[w]
  IN /\ pc[w] = "tearDown"
     /\ pool' = [pool EXCEPT ![t] = @ \ {r}]
     /\ assigned' = IF r = "configmap" THEN [assigned EXCEPT ![t] = NoRange] ELSE assigned
     /\ Proceed(w)
     /\ UNCHANGED <<range, faults>>

\* Mutant of Mutated: the entry of a tenant that is not isolated is kept.
MutatedEnsureOnly(w, old) ==
  IF copy[w].dedicated THEN [old EXCEPT !.entries[tenant[w]] = range[w]] ELSE old

\* Mutant of Mutated: the entry is zeroed, not deleted.
MutatedZero(w, old) ==
  [old EXCEPT !.entries[tenant[w]] = IF copy[w].dedicated THEN range[w] ELSE [start |-> 0, count |-> 0]]

\* mutateTenantPartitionMap up to its write.  Nothing is written when the map
\* is missing and would be empty, or is already as it should be.
Mutated(w, old) ==
  [old EXCEPT !.entries[tenant[w]] = IF copy[w].dedicated THEN range[w] ELSE NoRange]

GetMap(w) ==
  LET old == mapCache[w]
      new == Mutated(w, old)
  IN /\ pc[w] = "getMap"
     /\ IF new = old
        THEN Goto(w, "status") /\ UNCHANGED <<mapping, mappingCurrent>>
        ELSE /\ Goto(w, "writeMap")
             /\ mapping' = [mapping EXCEPT ![w] = new]
             /\ mappingCurrent' = IF w \in mapCacheCurrent THEN mappingCurrent \cup {w} ELSE mappingCurrent \ {w}
     /\ UNCHANGED <<object, map, mapCacheCurrent, caches, copy, observed, range, todo, pool, assigned,
                    gauge, tenant, faults, lives, changes>>

\* Create when the map was not found, Update otherwise.
CreateMap(w) ==
  /\ pc[w] = "writeMap" /\ ~mapping[w].exists
  /\ IF map.exists
     THEN Goto(w, "getMap") /\ UNCHANGED shared
     ELSE Goto(w, "status") /\ WriteMap([mapping[w] EXCEPT !.exists = TRUE])
  /\ mapping' = [mapping EXCEPT ![w] = NoMap]
  /\ UNCHANGED <<object, caches, copy, observed, range, todo, pool, assigned, gauge, tenant, faults, lives, changes>>

\* Mutant of UpdateMap: the write does not depend on the version read.
UpdateMapUnchecked(w) ==
  /\ pc[w] = "writeMap" /\ mapping[w].exists
  /\ WriteMap(mapping[w])
  /\ Goto(w, "status")
  /\ mapping' = [mapping EXCEPT ![w] = NoMap]
  /\ UNCHANGED <<object, caches, copy, observed, range, todo, pool, assigned, gauge, tenant, faults, lives, changes>>

UpdateMap(w) ==
  /\ pc[w] = "writeMap" /\ mapping[w].exists /\ w \in mappingCurrent
  /\ WriteMap(mapping[w])
  /\ Goto(w, "status")
  /\ mapping' = [mapping EXCEPT ![w] = NoMap]
  /\ UNCHANGED <<object, caches, copy, observed, range, todo, pool, assigned, gauge, tenant, faults, lives, changes>>

\* Mutant of UpdateStatus: the status is patched whatever the version.
UpdateStatusPatched(w) ==
  LET decision == Classify(copy[w], observed[w]) IN
  /\ pc[w] = "status" /\ tenants[tenant[w]].exists
  /\ Write(tenant[w], [tenants[tenant[w]] EXCEPT !.replicas = decision.replicas], {})
  /\ End(w)
  /\ UNCHANGED <<shared, caches, pool, assigned, gauge, faults, lives, changes>>

\* Mutant of UpdateStatus: the whole object is written whatever the version.
UpdateStatusForced(w) ==
  LET decision == Classify(copy[w], observed[w]) IN
  /\ pc[w] = "status" /\ tenants[tenant[w]].exists
  /\ Write(tenant[w], [copy[w] EXCEPT !.replicas = decision.replicas], {})
  /\ End(w)
  /\ UNCHANGED <<shared, caches, pool, assigned, gauge, faults, lives, changes>>

\* Status().Update, the last call of a pass.
UpdateStatus(w) ==
  LET decision == Classify(copy[w], observed[w]) IN
  /\ pc[w] = "status" /\ w \in copyCurrent
  /\ Write(tenant[w], [copy[w] EXCEPT !.replicas = decision.replicas], {})
  /\ End(w)
  /\ UNCHANGED <<shared, caches, pool, assigned, gauge, faults, lives, changes>>

\* A write that is not based on the latest version: the pass returns the error
\* and is tried again.
Conflict(w) ==
  /\ \/ pc[w] \in {"updateSpec", "status"} /\ w \notin copyCurrent
     \/ pc[w] = "writeMap" /\ mapping[w].exists /\ w \notin mappingCurrent
  /\ End(w)
  /\ UNCHANGED <<object, shared, caches, pool, assigned, gauge, faults, lives, changes>>

\* A call fails, the pass runs into ReconcileTimeout or the process ends.
Abort(w) ==
  /\ pc[w] # "idle"
  /\ Fault
  /\ End(w)
  /\ UNCHANGED <<object, shared, caches, pool, assigned, gauge, lives, changes>>

Step(w) ==
  \/ UpdateSpec(w) \/ Ensure(w) \/ TearDown(w)
  \/ GetMap(w) \/ CreateMap(w) \/ UpdateMap(w) \/ UpdateStatus(w) \/ Conflict(w)

-----------------------------------------------------------------------------
(* Users, the publisher and the garbage collector *)

Life ==
  /\ lives < MaxLives /\ lives' = lives + 1
  /\ UNCHANGED <<shared, caches, locals, pool, assigned, gauge, pc, tenant, faults, changes>>

Change ==
  /\ changes < MaxChanges /\ changes' = changes + 1
  /\ UNCHANGED <<shared, caches, locals, pool, assigned, pc, tenant, faults, lives>>

\* A TradingTenant is created once the resources of an earlier one are gone.
CreateTenant(t) ==
  \E dedicated \in BOOLEAN :
    /\ ~tenants[t].exists /\ pool[t] = {}
    /\ Write(t, [exists |-> TRUE, dedicated |-> dedicated, replicas |-> 0], {})
    /\ Life

DeleteTenant(t) ==
  /\ tenants[t].exists
  /\ Write(t, Absent, {})
  /\ Life

\* A user reverts the isolation.
DeIsolate(t) ==
  /\ tenants[t].dedicated
  /\ Write(t, [tenants[t] EXCEPT !.dedicated = FALSE], {})
  /\ Change /\ UNCHANGED gauge

\* The publisher reports another range.
MoveRange(t) ==
  \E r \in Ranges :
    /\ r # gauge[t]
    /\ gauge' = [gauge EXCEPT ![t] = r]
    /\ Change /\ UNCHANGED object

\* Resources owned by a TradingTenant that is gone are deleted.
CollectGarbage(t) ==
  /\ ~tenants[t].exists /\ pool[t] # {}
  /\ pool' = [pool EXCEPT ![t] = {}]
  /\ assigned' = [assigned EXCEPT ![t] = NoRange]
  /\ UNCHANGED <<object, shared, caches, locals, gauge, pc, tenant, faults, lives, changes>>

Next ==
  \/ \E w \in Workers : Step(w) \/ EnsureOutdated(w) \/ Abort(w) \/ SyncMap(w)
  \/ \E w \in Workers, t \in Tenants : Start(w, t) \/ Sync(w, t)
  \/ \E t \in Tenants : CreateTenant(t) \/ DeleteTenant(t) \/ DeIsolate(t) \/ MoveRange(t) \/ CollectGarbage(t)

Spec == Init /\ [][Next]_vars

\* Calls return, watches deliver, and the work queue starts a pass for every
\* tenant again and again: after RequeueInterval or after a failure.
Fairness ==
  /\ \A w \in Workers : WF_vars(Step(w)) /\ WF_vars(SyncMap(w))
  /\ \A w \in Workers, t \in Tenants : SF_vars(Start(w, t)) /\ WF_vars(Sync(w, t))
  /\ \A t \in Tenants : WF_vars(CollectGarbage(t))

FairSpec == Spec /\ Fairness

-----------------------------------------------------------------------------
(* Properties *)

\* A pass changes no entry of the shared map but its own tenant's, and sets
\* that one to what the pass decided: entries that other passes wrote between
\* the read and the write of mutateTenantPartitionMap are kept.
OnlyOwnEntry ==
  [][\A t \in Tenants : map'.entries[t] # map.entries[t] =>
       \E w \in Workers : /\ pc[w] = "writeMap" /\ tenant[w] = t
                          /\ map'.entries[t] = IF copy[w].dedicated THEN range[w] ELSE NoRange]_vars

\* Status().Update never publishes a state that contradicts the flag in the
\* spec of that moment: Isolated only for a tenant with the flag, Stable only
\* for one without.
StatusAgreesWithSpec ==
  [][\A w \in Workers : UpdateStatus(w) =>
       LET published == Classify(copy[w], observed[w]).state
           dedicated == tenants'[tenant[w]].dedicated
       IN (published = "Isolated" => dedicated) /\ (published = "Stable" => ~dedicated)]_vars

\* isolation.dedicatedNodePool does not revert but by a user's change: no pass
\* writes an older spec back.
IsolationPersists ==
  [][\A t \in Tenants : tenants[t].dedicated /\ ~tenants'[t].dedicated =>
       changes' # changes \/ lives' # lives]_vars

\* The resources and the entry of a tenant are what its spec and the
\* publisher's gauges ask for.
Settled(t) ==
  IF tenants[t].exists /\ tenants[t].dedicated
  THEN pool[t] = Dedicated /\ assigned[t] = gauge[t] /\ map.entries[t] = gauge[t]
  ELSE /\ pool[t] = {} /\ assigned[t] = NoRange
       /\ tenants[t].exists => map.entries[t] = NoRange

\* Once users, gauges and failures leave it alone, every tenant settles, also
\* when several operator processes work against each other from old copies.
Converges == \A t \in Tenants : <>[]Settled(t)

=============================================================================
