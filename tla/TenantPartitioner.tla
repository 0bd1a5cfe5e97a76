-------------------------- MODULE TenantPartitioner --------------------------
(***************************************************************************)
(* tenantPartitioner of the ingestion publisher: the table that reserves   *)
(* partitions for tenants, and its hot reload.                             *)
(*                                                                         *)
(* The Kafka client calls Partition for one record at a time.  A call that *)
(* finds the reservation state replaced, or the topic resized, builds a    *)
(* new table first; every iteration of newReservationTable's loop is a     *)
(* step, so that a reload may come at any moment.  Tenant IDs are numbers  *)
(* in the order in which sort.Strings puts them.  A hash of a tenant ID or *)
(* an instrument is a number; which one is up to the constants.            *)
(***************************************************************************)
EXTENDS Naturals, FiniteSets

CONSTANTS Tenants,
          Instruments,
          TenantHash, InstrumentHash,  \* hashBytes
          Configs,            \* what a reload may load: partitions per tenant
          KnownTenants,       \* tenants that metrics may name
          UnknownTenantLabel, \* the label all others share
          DefaultSize,        \* DefaultPartitionsPerTenant
          InitialPartitions,  \* partitions of the topic at the start
          MaxPartitions,      \* bound on the topic's growth
          MaxReloads,         \* bound on reloads
          NoPartition

ASSUME PartitionerAssumption ==
  /\ Tenants \subseteq Nat
  /\ TenantHash \in [Tenants -> Nat] /\ InstrumentHash \in [Instruments -> Nat]
  /\ Configs \subseteq [Tenants -> Nat]
  /\ UnknownTenantLabel \notin KnownTenants
  /\ DefaultSize \in Nat \ {0}
  /\ InitialPartitions \in Nat \ {0} /\ MaxPartitions \in Nat /\ MaxReloads \in Nat
  /\ NoPartition \notin Nat

VARIABLES
  reserved,   \* the state behind the atomic pointer; 0: no reservation
  current,    \* the table was built from that state
  total,      \* partitions of the topic, as the client reports them
  tableTotal, \* totalPartitions of the table; 0: there is no table yet
  config,     \* the state the table is built from
  pending,    \* explicit tenants the build has not come to
  cursor,     \* where the next explicit range starts; then the pool's start
  explicit,   \* ranges of the explicit tenants
  poolNext,
  pool,       \* ranges of the pool tenants seen so far
  gauge,      \* the partition range reported under each label
  pc,         \* idle, build or assign; panicked: the process is gone
  record,     \* tenant and instrument of the record
  last,       \* where the latest record of each key went
  seen,       \* keys of the records that went through this table
  reloads

table == <<tableTotal, config, pending, cursor, explicit, poolNext, pool>>
history == <<last, seen>>
vars == <<reserved, current, total, table, gauge, pc, record, history, reloads>>

Keys == Tenants \X Instruments

Labels == KnownTenants \cup {UnknownTenantLabel}
TenantLabel(t) == IF t \in KnownTenants THEN t ELSE UnknownTenantLabel

\* A range of size 0 stands for no range.
Range == [start: Nat, size: Nat]
NoRange == [start |-> 0, size |-> 0]
In(p, r) == r.start <= p /\ p < r.start + r.size
Disjoint(r, s) == r.size = 0 \/ s.size = 0 \/ r.start + r.size <= s.start \/ s.start + s.size <= r.start

TypeOK ==
  /\ reserved \in [Tenants -> Nat]
  /\ current \in BOOLEAN
  /\ total \in Nat \ {0}
  /\ tableTotal \in Nat
  /\ config \in [Tenants -> Nat]
  /\ pending \in SUBSET Tenants
  /\ cursor \in 0 .. tableTotal
  /\ explicit \in [Tenants -> Range]
  /\ poolNext \in 0 .. tableTotal
  /\ pool \in [Tenants -> Range]
  /\ gauge \in [Labels -> Range]
  /\ pc \in {"idle", "build", "assign", "panicked"}
  /\ record \in Keys
  /\ last \in [Keys -> Nat \cup {NoPartition}]
  /\ seen \in SUBSET Keys
  /\ reloads \in Nat

Init ==
  /\ reserved \in Configs
  /\ current = FALSE
  /\ total = InitialPartitions
  /\ tableTotal = 0 /\ config = reserved /\ pending = {} /\ cursor = 0
  /\ explicit = [t \in Tenants |-> NoRange]
  /\ poolNext = 0
  /\ pool = [t \in Tenants |-> NoRange]
  /\ gauge = [l \in Labels |-> NoRange]
  /\ pc = "idle"
  /\ record \in Keys
  /\ last = [k \in Keys |-> NoPartition]
  /\ seen = {}
  /\ reloads = 0

-----------------------------------------------------------------------------
(* The reload goroutine and the topic *)

\* reloadOnce with a mapping that loads: a new state, equal or not, replaces
\* the old one.  One that fails to load changes nothing.
Reload ==
  \E new \in Configs :
    /\ reloads < MaxReloads /\ reloads' = reloads + 1
    /\ reserved' = new
    /\ current' = FALSE
    /\ UNCHANGED <<total, table, gauge, pc, record, history>>

\* The topic gets another partition.
Resize ==
  /\ total < MaxPartitions
  /\ total' = total + 1
  /\ UNCHANGED <<reserved, current, table, gauge, pc, record, history, reloads>>

-----------------------------------------------------------------------------
(* Partition *)

\* A call, which builds a new table when the one it has is out of date.
Partition(k) ==
  /\ pc = "idle"
  /\ record' = k
  /\ IF current /\ tableTotal = total
     THEN pc' = "assign" /\ UNCHANGED <<current, table, history>>
     ELSE /\ pc' = "build"
          /\ current' = TRUE
          /\ tableTotal' = total
          /\ config' = reserved
          /\ pending' = {t \in Tenants : reserved[t] > 0}
          /\ cursor' = 0
          /\ explicit' = [t \in Tenants |-> NoRange]
          /\ poolNext' = 0
          /\ pool' = [t \in Tenants |-> NoRange]
          /\ seen' = {}
          /\ UNCHANGED last
  /\ UNCHANGED <<reserved, total, gauge, reloads>>

observePartitionRange(t, range) == gauge' = [gauge EXCEPT ![TenantLabel(t)] = range]

explicitCapacity == IF tableTotal > 1 THEN tableTotal - 1 ELSE tableTotal

\* Mutant of Place: a range is not cut to what is left.
PlaceUncapped(t) ==
  LET size == config[t]
      range == [start |-> cursor, size |-> size]
  IN /\ pc = "build" /\ t \in pending /\ \A u \in pending : t <= u
     /\ cursor < explicitCapacity
     /\ explicit' = [explicit EXCEPT ![t] = range]
     /\ observePartitionRange(t, range)
     /\ cursor' = cursor + size
     /\ pending' = pending \ {t}
     /\ UNCHANGED <<reserved, current, total, tableTotal, config, poolNext, pool, pc, record, history, reloads>>

\* Mutant of Place: the gauge shows what the tenant asks for.
PlaceAsked(t) ==
  LET size == IF cursor + config[t] > explicitCapacity THEN explicitCapacity - cursor ELSE config[t]
      range == [start |-> cursor, size |-> size]
  IN /\ pc = "build" /\ t \in pending /\ \A u \in pending : t <= u
     /\ cursor < explicitCapacity
     /\ explicit' = [explicit EXCEPT ![t] = range]
     /\ observePartitionRange(t, [start |-> cursor, size |-> config[t]])
     /\ cursor' = cursor + size
     /\ pending' = pending \ {t}
     /\ UNCHANGED <<reserved, current, total, tableTotal, config, poolNext, pool, pc, record, history, reloads>>

\* Mutant of Place: the loop takes the tenants in the order of the Go map.
PlaceUnsorted(t) ==
  LET size == IF cursor + config[t] > explicitCapacity THEN explicitCapacity - cursor ELSE config[t]
      range == [start |-> cursor, size |-> size]
  IN /\ pc = "build" /\ t \in pending
     /\ cursor < explicitCapacity
     /\ explicit' = [explicit EXCEPT ![t] = range]
     /\ observePartitionRange(t, range)
     /\ cursor' = cursor + size
     /\ pending' = pending \ {t}
     /\ UNCHANGED <<reserved, current, total, tableTotal, config, poolNext, pool, pc, record, history, reloads>>

\* The loop comes to the next tenant in sorted order: it gets what it asks
\* for or what is left.
Place(t) ==
  LET size == IF cursor + config[t] > explicitCapacity THEN explicitCapacity - cursor ELSE config[t]
      range == [start |-> cursor, size |-> size]
  IN /\ pc = "build" /\ t \in pending /\ \A u \in pending : t <= u
     /\ cursor < explicitCapacity
     /\ explicit' = [explicit EXCEPT ![t] = range]
     /\ observePartitionRange(t, range)
     /\ cursor' = cursor + size
     /\ pending' = pending \ {t}
     /\ UNCHANGED <<reserved, current, total, tableTotal, config, poolNext, pool, pc, record, history, reloads>>

\* The loop ends, and drops the tenants for whom nothing is left.
Built ==
  /\ pc = "build"
  /\ pending = {} \/ cursor >= explicitCapacity
  /\ pending' = {}
  /\ poolNext' = cursor
  /\ pc' = "assign"
  /\ UNCHANGED <<reserved, current, total, tableTotal, config, cursor, explicit, pool, gauge, record,
                 history, reloads>>

poolSize == tableTotal - cursor
remaining == tableTotal - poolNext

\* Mutant of NewRange: a range is not cut to what is left.
NewRangeUncapped(t) == [start |-> poolNext, size |-> DefaultSize]

\* The range of a pool tenant that has none yet.
NewRange(t) ==
  [start |-> poolNext, size |-> IF DefaultSize > remaining THEN remaining ELSE DefaultSize]

\* Mutant of Fallback: one partition of the whole topic.
FallbackAnywhere(t) == [start |-> TenantHash[t] % tableTotal, size |-> 1]

\* Nothing is left: one partition of the pool, by the hash of the tenant ID.
Fallback(t) == [start |-> cursor + (TenantHash[t] % poolSize), size |-> 1]

\* The record goes to partition number p of its tenant's range.
Send(r) ==
  LET p == r.start + (InstrumentHash[record[2]] % r.size)
  IN /\ last' = [last EXCEPT ![record] = p]
     /\ seen' = seen \cup {record}
     /\ pc' = "idle"
     /\ UNCHANGED <<reserved, current, total, tableTotal, config, pending, cursor, explicit, record, reloads>>

AssignExplicit ==
  /\ pc = "assign" /\ explicit[record[1]].size > 0
  /\ Send(explicit[record[1]])
  /\ UNCHANGED <<poolNext, pool, gauge>>

IsPool(t) == explicit[t].size = 0

\* poolRangeFor: a tenant seen before, one seen for the first time, and one
\* for whom nothing is left.
AssignPool ==
  LET t == record[1] IN
  /\ pc = "assign" /\ IsPool(t) /\ pool[t].size > 0
  /\ Send(pool[t])
  /\ UNCHANGED <<poolNext, pool, gauge>>

\* Mutant of AssignNew: the next range starts where this one does.
AssignInPlace ==
  LET t == record[1] IN
  /\ pc = "assign" /\ IsPool(t) /\ pool[t].size = 0 /\ remaining > 0
  /\ Send(NewRange(t))
  /\ pool' = [pool EXCEPT ![t] = NewRange(t)]
  /\ observePartitionRange(t, NewRange(t))
  /\ UNCHANGED poolNext

AssignNew ==
  LET t == record[1] IN
  /\ pc = "assign" /\ IsPool(t) /\ pool[t].size = 0 /\ remaining > 0
  /\ Send(NewRange(t))
  /\ pool' = [pool EXCEPT ![t] = NewRange(t)]
  /\ observePartitionRange(t, NewRange(t))
  /\ poolNext' = poolNext + NewRange(t).size

AssignFallback ==
  LET t == record[1] IN
  /\ pc = "assign" /\ IsPool(t) /\ pool[t].size = 0 /\ remaining = 0 /\ poolSize > 0
  /\ Send(Fallback(t))
  /\ UNCHANGED <<poolNext, pool, gauge>>

\* The remainder of a division by a pool size of zero.
Panic ==
  LET t == record[1] IN
  /\ pc = "assign" /\ IsPool(t) /\ pool[t].size = 0 /\ remaining = 0 /\ poolSize = 0
  /\ pc' = "panicked"
  /\ UNCHANGED <<reserved, current, total, table, gauge, record, history, reloads>>

Step == (\E t \in Tenants : Place(t)) \/ Built \/ AssignExplicit \/ AssignPool \/ AssignNew \/ AssignFallback \/ Panic

Next == Reload \/ Resize \/ (\E k \in Keys : Partition(k)) \/ Step

Spec == Init /\ [][Next]_vars

-----------------------------------------------------------------------------
(* Properties *)

\* Every record goes to a partition the topic had when the table was built:
\* partitionFor never leaves [0, totalPartitions).
SentToTheTopic == \A k \in seen : last[k] \in 0 .. (tableTotal - 1)

\* newReservationTable: a tenant with an explicit range shares no partition
\* with any other tenant, however exhausted the pool, unless the topic has
\* just one partition.
ReservedNotShared ==
  tableTotal > 1 =>
    \A j, k \in seen : j[1] # k[1] /\ ~IsPool(j[1]) => last[j] # last[k]

\* poolRangeFor: two tenants that drew a range from the pool share no
\* partition.
PoolNotShared ==
  \A j, k \in seen : j[1] # k[1] /\ pool[j[1]].size > 0 /\ pool[k[1]].size > 0 => last[j] # last[k]

\* observePartitionRange is called whenever a range is established: between
\* calls the gauges the operator reads show each range of a tenant that is
\* known, whatever was reported of others under the label they share.
GaugeShowsTable ==
  pc = "idle" =>
    \A t \in Tenants \cap KnownTenants :
      /\ explicit[t].size > 0 => gauge[t] = explicit[t]
      /\ pool[t].size > 0 => gauge[t] = pool[t]

\* One table sends every record of a tenant's instrument to one partition,
\* that of a tenant which finds the pool exhausted included.
KeepsPartition == [][\A k \in seen \cap seen' : last'[k] = last[k]]_vars

\* A topic of two partitions or more always leaves a partition to the pool:
\* Partition panics only on a topic of one.
PanicsOnlyAlone == pc = "panicked" => tableTotal = 1

\* Whatever reloads, growth and half-built tables come in between, the records
\* are routed as PartitionTable promises: from a table of one moment, laid out
\* in closed form, with shares of the pool no one else has.
Table == INSTANCE PartitionTable WITH
  counts <- reserved, table <- [counts |-> config, total |-> tableTotal],
  ranges <- explicit, shares <- pool, where <- last, routed <- seen
ImplementsTable == Table!Spec

\* publisher.go's comment on partitionKey: every event for a given tenant's
\* instrument lands on the same partition.
SameKeySamePartition == [][\A k \in Keys : last[k] # NoPartition => last'[k] = last[k]]_vars

=============================================================================
