----------------------------- MODULE Propagation -----------------------------
(***************************************************************************)
(* How a tenant's partitions travel through the system and back:           *)
(*                                                                         *)
(*   publishers' tables -> gauges -> operator -> tenant-partition-map      *)
(*     -> files mounted in the pods -> publishers' tables                  *)
(*                                  -> the dedicated processor's partitions*)
(*                                                                         *)
(* A loop with delays at every arrow.  A publisher takes only the count of *)
(* an entry and lays the tenants out itself; the processor takes the range *)
(* as it is.  Each arrow's own difficulties are left to the module of the  *)
(* component: conflicting writes and failing calls to TenantOperator, the  *)
(* steps of a table's construction to TenantPartitioner.  The processor is *)
(* that of Processor, with restarts, kills and failures.  All the tenants  *)
(* are known to metrics (TenantLabel in TenantPartitioner).                *)
(***************************************************************************)
EXTENDS Processor, FiniteSetsExt

CONSTANTS
  Tenants,
  Me,          \* the tenant of the processor
  Publishers,  \* ingestion processes, which all mount the map
  Scraped,     \* the one whose gauges Prometheus scrapes
  Isolated,    \* the tenants that are isolated at the start
  Total,       \* partitions of the topic
  DefaultSize, \* DefaultPartitionsPerTenant
  Idle,        \* no pass is running
  MaxChanges   \* bound on tenants that are isolated or no longer isolated

ASSUME PropagationAssumption ==
  /\ Tenants \subseteq Nat /\ Me \in Tenants
  /\ Scraped \in Publishers /\ Isolated \subseteq Tenants
  /\ Total \in Nat \ {0} /\ Partitions = 0 .. (2 * Total - 2)
  /\ DefaultSize \in Nat \ {0}
  /\ MaxChanges \in Nat

Layout == INSTANCE PartitionLayout

VARIABLES
  dedicated,   \* tenants whose TradingTenant asks for a dedicated pool
  pass,        \* the operator's pass: tenant, flag, count, range and step
  map,         \* the tenant-partition-map ConfigMap
  file,        \* each publisher's mounted copy of it
  counts,      \* each publisher's reservation state
  fresh,       \* publishers whose state has been replaced since the last record
  ranges,      \* explicit ranges of each publisher's table
  shares,      \* its pool ranges
  gauge,       \* what Prometheus knows of each tenant's range
  changes

publisherVars == <<file, counts, fresh, ranges, shares, gauge>>
operatorVars == <<dedicated, pass, map, changes>>
vars == <<processorVars, publisherVars, operatorVars>>

NoRange == Layout!NoRange
NoRanges == [t \in Tenants |-> NoRange]

\* The partitions of an entry, none when it has no count.
SetOf(r) == r.start .. (r.start + r.size - 1)

\* The entries of the map.  The operator reads a tenant's count and its start
\* in two queries, and a table laid out in between lets an entry run past the
\* end of the topic.
Entries == [start: 0 .. (Total - 1), size: 0 .. Total]

\* The ranges of a table, which do not.
TableRanges == {NoRange} \cup {r \in Entries : r.size > 0 /\ Layout!End(r) <= Total}

\* Mixing the values of two tables is confined to the map: no table, and no
\* gauge, ever leaves the topic, and an entry at most doubles it.
PropagationTypeOK ==
  /\ ProcessorTypeOK
  /\ dedicated \subseteq Tenants
  /\ pass = Idle \/ pass \in [tenant: Tenants, flag: BOOLEAN, count: 1 .. Total, range: Entries, step: {"ensure", "map"}]
  /\ map \in [Tenants -> Entries]
  /\ file \in [Publishers -> [Tenants -> Entries]]
  /\ counts \in [Publishers -> [Tenants -> 0 .. Total]]
  /\ fresh \subseteq Publishers
  /\ ranges \in [Publishers -> [Tenants -> TableRanges]]
  /\ shares \in [Publishers -> [Tenants -> TableRanges]]
  /\ gauge \in [Tenants -> TableRanges]
  /\ changes \in 0 .. MaxChanges

\* newReservationTable in closed form.  Its result is the layout of the
\* mapping (LayoutAssumption).
LayoutOf(c) ==
  LET capacity == Layout!Capacity(Total)
      start == [t \in Tenants |-> Min({capacity, MapThenSumSet(LAMBDA u : c[u], {u \in Tenants : u < t})})]
  IN [t \in Tenants |->
        IF c[t] = 0 \/ start[t] = capacity THEN NoRange
        ELSE [start |-> start[t], size |-> Min({c[t], capacity - start[t]})]]

ASSUME LayoutAssumption == \A c \in [Tenants -> 0 .. (Total + DefaultSize)] : Layout!IsLayout(LayoutOf(c), c, Total)

\* The tenants of Isolated are isolated and every part agrees on it; the
\* processor of Me is about to start.  No record of another tenant has been
\* published yet.
Init ==
  /\ dedicated = Isolated /\ pass = Idle /\ changes = 0
  /\ map = LayoutOf([t \in Tenants |-> IF t \in Isolated THEN DefaultSize ELSE 0])
  /\ file = [p \in Publishers |-> map]
  /\ counts = [p \in Publishers |-> [t \in Tenants |-> map[t].size]]
  /\ fresh = {}
  /\ ranges = [p \in Publishers |-> map]
  /\ shares = [p \in Publishers |-> NoRanges]
  /\ gauge = map
  /\ manual = SetOf(map[Me]) /\ entry = manual /\ NoProcess

-----------------------------------------------------------------------------
(* The operator *)

\* classify, or a user, sets the flag; a user takes it back.
Change(t) ==
  /\ changes < MaxChanges /\ changes' = changes + 1
  /\ dedicated' = IF t \in dedicated THEN dedicated \ {t} ELSE dedicated \cup {t}
  /\ UNCHANGED <<processorVars, publisherVars, pass, map>>

\* Mutant of Observe: without a series the count is zero.
ObserveMissing(t) ==
  /\ pass = Idle
  /\ pass' = [tenant |-> t, flag |-> t \in dedicated, count |-> gauge[t].size, range |-> NoRange, step |-> "ensure"]
  /\ UNCHANGED <<processorVars, publisherVars, dedicated, map, changes>>

\* Observe, with the query for the partition count.  Without a series the
\* pass fails.
Observe(t) ==
  /\ pass = Idle /\ gauge[t] # NoRange
  /\ pass' = [tenant |-> t, flag |-> t \in dedicated, count |-> gauge[t].size, range |-> NoRange, step |-> "ensure"]
  /\ UNCHANGED <<processorVars, publisherVars, dedicated, map, changes>>

\* ObservePartitionStart and ensureDedicatedPool, or tearDownDedicatedPool,
\* which ends the processor.
Ensure ==
  LET range == IF pass.flag THEN [start |-> gauge[pass.tenant].start, size |-> pass.count] ELSE NoRange
  IN /\ pass # Idle /\ pass.step = "ensure"
     /\ pass' = [pass EXCEPT !.range = range, !.step = "map"]
     /\ manual' = IF pass.tenant = Me THEN SetOf(range) ELSE manual
     /\ IF pass.tenant = Me /\ ~pass.flag /\ main # "down"
        THEN signaled' = TRUE /\ canceled' = TRUE
        ELSE UNCHANGED <<signaled, canceled>>
     /\ UNCHANGED <<entry, main, metrics, errors, exit, reloader, resources, failures, publisherVars, dedicated, map,
                    changes>>

\* Mutant of UpdateMap: the entry of a tenant that has one is left alone.
UpdateMapOnce ==
  /\ pass # Idle /\ pass.step = "map"
  /\ map' = IF pass.flag /\ map[pass.tenant] # NoRange THEN map ELSE [map EXCEPT ![pass.tenant] = pass.range]
  /\ pass' = Idle
  /\ UNCHANGED <<processorVars, publisherVars, dedicated, changes>>

\* ensureTenantPartitionMapEntry or removeTenantPartitionMapEntry.
UpdateMap ==
  /\ pass # Idle /\ pass.step = "map"
  /\ map' = [map EXCEPT ![pass.tenant] = pass.range]
  /\ pass' = Idle
  /\ UNCHANGED <<processorVars, publisherVars, dedicated, changes>>

-----------------------------------------------------------------------------
(* The kubelets *)

SyncPublisher(p) ==
  /\ file[p] # map
  /\ file' = [file EXCEPT ![p] = map]
  /\ UNCHANGED <<processorVars, counts, fresh, ranges, shares, gauge, operatorVars>>

SyncProcessor ==
  /\ entry # SetOf(map[Me])
  /\ entry' = SetOf(map[Me])
  /\ UNCHANGED <<manual, processVars, publisherVars, operatorVars>>

-----------------------------------------------------------------------------
(* The publishers *)

\* Load and reloadOnce: only the counts are used, and the state is replaced
\* whether or not it differs.
Reload(p) ==
  /\ p \notin fresh
  /\ counts' = [counts EXCEPT ![p] = [t \in Tenants |-> file[p][t].size]]
  /\ fresh' = fresh \cup {p}
  /\ UNCHANGED <<processorVars, file, ranges, shares, gauge, operatorVars>>

RangeOf(p, t) == IF ranges[p][t].size > 0 THEN ranges[p][t] ELSE shares[p][t]

\* A tenant without a range draws one from what is left of the pool.
Drawn(rs, old, t) ==
  LET next == Max({0} \cup {Layout!End(r) : r \in {rs[u] : u \in Tenants} \cup {old[u] : u \in Tenants}})
  IN IF rs[t].size > 0 \/ old[t].size > 0 \/ next = Total THEN old
     ELSE [old EXCEPT ![t] = [start |-> next, size |-> Min({DefaultSize, Total - next})]]

\* Partition, called for a record of t: a new table if the state was replaced,
\* a range of the pool for a tenant that has none, and the gauges of what was
\* laid out or drawn.  Other records change nothing and are left out.
Partition(p, t) ==
  /\ p \in fresh \/ RangeOf(p, t).size = 0
  /\ UNCHANGED <<processorVars, file, counts, operatorVars>>
  /\ fresh' = fresh \ {p}
  /\ \E rs \in {IF p \in fresh THEN LayoutOf(counts[p]) ELSE ranges[p]},
        old \in {IF p \in fresh THEN NoRanges ELSE shares[p]} :
       \E new \in {Drawn(rs, old, t)} :
         /\ ranges' = [ranges EXCEPT ![p] = rs]
         /\ shares' = [shares EXCEPT ![p] = new]
         /\ gauge' = IF p # Scraped THEN gauge
                     ELSE [u \in Tenants |-> IF p \in fresh /\ rs[u].size > 0 THEN rs[u]
                                            ELSE IF new[u] # old[u] THEN new[u]
                                            ELSE gauge[u]]

Next ==
  \/ \E t \in Tenants : Change(t) \/ Observe(t)
  \/ Ensure
  \/ UpdateMap
  \/ \E p \in Publishers : SyncPublisher(p) \/ Reload(p) \/ \E t \in Tenants : Partition(p, t)
  \/ SyncProcessor
  \/ Process /\ UNCHANGED <<publisherVars, operatorVars>>

\* Every tenant is reconciled again and again, mounted files follow the map,
\* files are polled, every tenant keeps sending, and a process that has
\* something to do does it.
Fairness ==
  /\ \A t \in Tenants : SF_vars(Observe(t))
  /\ WF_vars(Ensure \/ UpdateMap)
  /\ WF_vars(SyncProcessor) /\ \A p \in Publishers : WF_vars(SyncPublisher(p))
  /\ \A p \in Publishers : WF_vars(Reload(p)) /\ \A t \in Tenants : WF_vars(Partition(p, t))
  /\ WF_vars(Progress /\ UNCHANGED <<publisherVars, operatorVars>>)

Spec == Init /\ [][Next]_vars
FairSpec == Spec /\ Fairness

-----------------------------------------------------------------------------
(* Properties *)

\* Every publisher sends the records of an isolated tenant to the partitions
\* the map shows and its processor consumes; of a tenant that is not isolated
\* nothing is left in the map, and no processor.
Settled ==
  /\ \A t \in dedicated : map[t] # NoRange /\ \A p \in Publishers : RangeOf(p, t) = map[t]
  /\ \A t \in Tenants \ dedicated : map[t] = NoRange
  /\ Me \in dedicated => main = "run" /\ ~canceled /\ consuming = SetOf(map[Me]) /\ assignment = consuming
  /\ Me \notin dedicated => main = "down"

\* Agrees: when tenants stop changing and the processor stops failing, all
\* parts of the system come to agree on every tenant's partitions, and stay
\* in agreement, although the operator derives the map from tables the
\* publishers derive from the map.
Agrees == <>[]Settled
=============================================================================
