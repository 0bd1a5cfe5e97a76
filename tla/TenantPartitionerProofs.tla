----------------------- MODULE TenantPartitionerProofs -----------------------
(***************************************************************************)
(* What the reservation table promises, for any tenants, hashes, mappings  *)
(* and growth of the topic.                                                *)
(*                                                                         *)
(* None of the properties is inductive: they speak of the records sent,    *)
(* and a table's ranges decide where records go.  The invariant says where *)
(* ranges may lie (Layout), that every record the table has sent lies      *)
(* where the table would send it now (Sent), and what a table under        *)
(* construction looks like (Building).                                     *)
(***************************************************************************)
EXTENDS TenantPartitioner, TLAPS

\* The range from which partitionFor takes the partitions of a tenant.
RangeOf(t) ==
  IF explicit[t].size > 0 THEN explicit[t] ELSE IF pool[t].size > 0 THEN pool[t] ELSE Fallback(t)

Target(k) == RangeOf(k[1]).start + (InstrumentHash[k[2]] % RangeOf(k[1]).size)

Layout ==
  /\ tableTotal > 0 => cursor <= explicitCapacity
  /\ \A t \in Tenants : explicit[t].size > 0 => explicit[t].start + explicit[t].size <= cursor
  /\ \A t \in Tenants : pool[t].size > 0 =>
       explicit[t].size = 0 /\ cursor <= pool[t].start /\ pool[t].start + pool[t].size <= poolNext
  /\ \A t, u \in Tenants : t # u => Disjoint(explicit[t], explicit[u])
  /\ \A t, u \in Tenants : t # u => Disjoint(pool[t], pool[u])

\* A tenant without a range has sent records only if nothing was left for
\* it, and then nothing will be.
Sent ==
  \A k \in seen :
    /\ last[k] = Target(k)
    /\ explicit[k[1]].size = 0 /\ pool[k[1]].size = 0 => poolNext = tableTotal /\ poolSize > 0

Building ==
  /\ pc # "idle" => tableTotal > 0
  /\ tableTotal = 0 => seen = {}
  /\ pc # "build" => cursor <= poolNext /\ pending = {}
  /\ pc = "build" => seen = {} /\ \A t \in Tenants : pool[t].size = 0
  /\ \A t \in pending : config[t] > 0 /\ explicit[t].size = 0

Gauges ==
  \A t \in Tenants \cap KnownTenants :
    /\ explicit[t].size > 0 => gauge[t] = explicit[t]
    /\ pool[t].size > 0 => gauge[t] = pool[t]

IInv == TypeOK /\ Layout /\ Sent /\ Building /\ Gauges

\* The conjuncts of the invariant, for steps that need one of them.
LEMMA Parts == IInv => TypeOK /\ Layout /\ Sent /\ Building /\ Gauges
  BY DEF IInv

-----------------------------------------------------------------------------
(* Operators *)

\* The remainder that picks a partition within a range of at least one.
LEMMA Remainder ==
  ASSUME NEW a \in Nat, NEW b \in Nat, b > 0
  PROVE  a % b \in Nat /\ a % b < b
  OBVIOUS

\* Fallback yields one partition of the pool when there is a pool.
LEMMA FallbackInPool ==
  ASSUME TypeOK, NEW t \in Tenants, poolSize > 0
  PROVE  /\ Fallback(t) \in Range /\ Fallback(t).size = 1
         /\ cursor <= Fallback(t).start /\ Fallback(t).start < tableTotal
<1>1. cursor \in Nat /\ tableTotal \in Nat /\ poolSize \in Nat /\ TenantHash[t] \in Nat
  BY PartitionerAssumption DEF TypeOK, poolSize
<1>2. TenantHash[t] % poolSize \in Nat /\ TenantHash[t] % poolSize < poolSize
  BY <1>1, Remainder
<1> QED
  BY <1>1, <1>2 DEF Fallback, Range, poolSize

\* Send stays within the range it is given.
LEMMA PickInRange ==
  ASSUME NEW r \in Range, r.size > 0, NEW i \in Instruments
  PROVE  LET p == r.start + (InstrumentHash[i] % r.size) IN p \in Nat /\ In(p, r)
<1>1. r.start \in Nat /\ r.size \in Nat /\ InstrumentHash[i] \in Nat
  BY PartitionerAssumption DEF Range
<1>2. InstrumentHash[i] % r.size \in Nat /\ InstrumentHash[i] % r.size < r.size
  BY <1>1, Remainder
<1> QED
  BY <1>1, <1>2 DEF In

\* The range of a tenant new to the pool is the pool's next and is not empty.
LEMMA NewRangeFits ==
  ASSUME TypeOK, NEW t \in Tenants, remaining > 0
  PROVE  /\ NewRange(t) \in Range /\ NewRange(t).size > 0 /\ NewRange(t).start = poolNext
         /\ poolNext + NewRange(t).size \in poolNext .. tableTotal
         /\ poolNext + NewRange(t).size \in 0 .. tableTotal
<1>1. DefaultSize \in Nat /\ DefaultSize > 0 /\ poolNext \in Nat /\ tableTotal \in Nat
  BY PartitionerAssumption DEF TypeOK
<1> QED
  BY <1>1 DEF NewRange, remaining, Range

\* What a record's keys are made of.
LEMMA KeyParts ==
  ASSUME NEW k \in Keys
  PROVE  k[1] \in Tenants /\ k[2] \in Instruments
  BY DEF Keys

-----------------------------------------------------------------------------
(* The invariant *)

\* No table, nothing sent.
LEMMA InitIInv == Init => IInv
<1> SUFFICES ASSUME Init PROVE IInv
  OBVIOUS
<1> USE PartitionerAssumption
<1>1. NoRange \in Range /\ NoRange.size = 0
  BY DEF NoRange, Range
<1>2. TypeOK
  <2>1. reserved \in [Tenants -> Nat] /\ config = reserved /\ total \in Nat \ {0}
    BY DEF Init
  <2>2. explicit \in [Tenants -> Range] /\ pool \in [Tenants -> Range] /\ gauge \in [Labels -> Range]
    BY <1>1 DEF Init
  <2>3. last \in [Keys -> Nat \cup {NoPartition}] /\ seen \in SUBSET Keys /\ pending \in SUBSET Tenants
    BY DEF Init
  <2>4. tableTotal \in Nat /\ cursor \in 0 .. tableTotal /\ poolNext \in 0 .. tableTotal /\ reloads \in Nat
    BY DEF Init
  <2>5. current \in BOOLEAN /\ pc \in {"idle", "build", "assign", "panicked"} /\ record \in Keys
    BY Zenon DEF Init
  <2> QED
    BY <2>1, <2>2, <2>3, <2>4, <2>5 DEF TypeOK
<1>3. Layout /\ Gauges
  BY <1>1 DEF Init, Layout, Gauges, Disjoint
<1>4. Sent /\ Building
  BY <1>1 DEF Init, Sent, Building
<1> QED
  BY <1>2, <1>3, <1>4 DEF IInv

\* Reload and Resize leave the table alone.
LEMMA EnvironmentIInv ==
  ASSUME IInv, Reload \/ Resize \/ UNCHANGED vars
  PROVE  IInv'
<1> USE PartitionerAssumption
<1>1. UNCHANGED <<tableTotal, config, pending, cursor, explicit, poolNext, pool, gauge, pc, record, last, seen>>
  BY DEF Reload, Resize, vars, table, history
<1>2. TypeOK'
  <2>1. TypeOK
    BY DEF IInv
  <2>2. reserved' \in [Tenants -> Nat] /\ current' \in BOOLEAN
    BY <2>1, Zenon DEF TypeOK, Reload, Resize, vars
  <2>3. total' \in Nat \ {0} /\ reloads' \in Nat
    BY <2>1 DEF TypeOK, Reload, Resize, vars
  <2> QED
    BY <1>1, <2>1, <2>2, <2>3 DEF TypeOK
<1>3. Layout' /\ Building' /\ Gauges'
  BY Parts, <1>1, Zenon DEF Layout, Building, Gauges, explicitCapacity, Disjoint
<1>4. Sent'
  BY Parts, <1>1 DEF Sent, Target, RangeOf, Fallback, poolSize
<1> QED
  BY <1>2, <1>3, <1>4 DEF IInv

\* Partition starts from an empty table or goes on with the one it has.
LEMMA PartitionIInv ==
  ASSUME IInv, NEW k \in Keys, Partition(k)
  PROVE  IInv'
<1>1. CASE current /\ tableTotal = total
  <2>1. pc = "idle" /\ pc' = "assign" /\ record' = k
    BY <1>1 DEF Partition
  <2>2. UNCHANGED <<reserved, current, total, tableTotal, config, pending, cursor, explicit, poolNext, pool, gauge,
                    last, seen, reloads>>
    BY <1>1 DEF Partition, table, history
  <2>3. TypeOK'
    BY Parts, <2>1, <2>2 DEF TypeOK
  <2>4. Layout' /\ Gauges'
    BY Parts, <2>2 DEF Layout, Gauges, explicitCapacity, Disjoint
  <2>5. tableTotal > 0
    BY Parts, <1>1 DEF TypeOK
  <2>6. Building'
    BY Parts, <2>1, <2>2, <2>5, Zenon DEF Building
  <2>7. Sent'
    BY Parts, <2>2 DEF Sent, Target, RangeOf, Fallback, poolSize
  <2> QED
    BY <2>3, <2>4, <2>6, <2>7 DEF IInv
<1>2. CASE ~(current /\ tableTotal = total)
  <2>1. NoRange \in Range /\ NoRange.size = 0
    BY DEF NoRange, Range
  <2>2. /\ pc' = "build" /\ record' = k /\ current' = TRUE /\ tableTotal' = total /\ config' = reserved
        /\ pending' = {t \in Tenants : reserved[t] > 0}
        /\ cursor' = 0 /\ poolNext' = 0 /\ seen' = {} /\ last' = last
        /\ explicit' = [t \in Tenants |-> NoRange] /\ pool' = [t \in Tenants |-> NoRange]
        /\ UNCHANGED <<reserved, total, gauge, reloads>>
    BY <1>2 DEF Partition
  <2>3. total \in Nat /\ total > 0
    BY Parts DEF TypeOK
  <2>4. TypeOK'
    BY Parts, <2>1, <2>2, <2>3 DEF TypeOK
  <2>5. Layout' /\ Gauges'
    BY <2>1, <2>2, <2>3 DEF Layout, Gauges, explicitCapacity, Disjoint
  <2>6. Building' /\ Sent'
    BY <2>1, <2>2, <2>3 DEF Building, Sent
  <2> QED
    BY <2>4, <2>5, <2>6 DEF IInv
<1> QED
  BY <1>1, <1>2

\* Place puts the next explicit range behind those before it.
LEMMA PlaceIInv ==
  ASSUME IInv, NEW t \in Tenants, Place(t)
  PROVE  IInv'
<1> DEFINE size == IF cursor + config[t] > explicitCapacity THEN explicitCapacity - cursor ELSE config[t]
           range == [start |-> cursor, size |-> size]
<1>1. /\ pc = "build" /\ t \in pending /\ cursor < explicitCapacity
      /\ explicit' = [explicit EXCEPT ![t] = range] /\ gauge' = [gauge EXCEPT ![TenantLabel(t)] = range]
      /\ cursor' = cursor + size /\ pending' = pending \ {t}
      /\ UNCHANGED <<reserved, current, total, tableTotal, config, poolNext, pool, pc, record, last, seen, reloads>>
  BY DEF Place, history, observePartitionRange
<1>2. /\ config[t] \in Nat /\ config[t] > 0 /\ cursor \in Nat /\ tableTotal \in Nat /\ tableTotal > 0
      /\ explicit \in [Tenants -> Range] /\ gauge \in [Labels -> Range]
      /\ explicit[t].size = 0 /\ seen = {} /\ \A u \in Tenants : pool[u].size = 0
  BY Parts, <1>1 DEF TypeOK, Building
<1>3. explicitCapacity \in Nat /\ explicitCapacity <= tableTotal
  BY <1>2 DEF explicitCapacity
<1>4. size \in Nat /\ size > 0 /\ cursor + size <= explicitCapacity
  BY <1>1, <1>2, <1>3
<1>5. range \in Range /\ range.start = cursor /\ range.size = size
  BY <1>2, <1>4 DEF Range
<1> HIDE DEF size, range
<1>6. TypeOK'
  <2>1. gauge' \in [Labels -> Range]
    BY <1>1, <1>2, <1>5, Zenon
  <2> QED
    BY Parts, <1>1, <1>2, <1>3, <1>4, <1>5, <2>1 DEF TypeOK
<1>7. explicit'[t] = range /\ (t \in KnownTenants => gauge'[t] = range)
      /\ \A u \in Tenants \ {t} : explicit'[u] = explicit[u] /\ (u \in KnownTenants => gauge'[u] = gauge[u])
  BY <1>1, <1>2, PartitionerAssumption DEF TenantLabel, Labels
<1>8. Building'
  BY Parts, <1>1, <1>2, <1>7 DEF Building
<1>9. Gauges'
  BY Parts, <1>1, <1>2, <1>7 DEF Gauges
<1>10. Sent'
  BY <1>1, <1>2 DEF Sent
<1>11. Layout'
  <2>1. (tableTotal > 0 => cursor <= explicitCapacity)'
    BY <1>1, <1>4 DEF explicitCapacity
  <2>2. ASSUME NEW u \in Tenants, explicit'[u].size > 0
        PROVE  explicit'[u].start + explicit'[u].size <= cursor'
    <3>1. CASE u = t
      BY <3>1, <1>1, <1>2, <1>4, <1>5, <1>7
    <3>2. CASE u # t
      <4>1. explicit[u].start + explicit[u].size <= cursor /\ explicit[u] \in Range
        BY Parts, <2>2, <3>2, <1>2, <1>7 DEF Layout
      <4> QED
        BY <3>2, <4>1, <1>1, <1>2, <1>4, <1>7 DEF Range
    <3> QED
      BY <3>1, <3>2
  <2>3. ASSUME NEW u \in Tenants, u # t
        PROVE  Disjoint(range, explicit[u]) /\ Disjoint(explicit[u], range)
    <3>1. explicit[u] \in Range /\ (explicit[u].size > 0 => explicit[u].start + explicit[u].size <= cursor)
      BY Parts, <1>2 DEF Layout
    <3> QED
      BY <3>1, <1>5 DEF Disjoint, Range
  <2>4. \A u, v \in Tenants : u # v => Disjoint(explicit[u], explicit[v])'
    BY Parts, <2>3, <1>7 DEF Layout, Disjoint
  <2>5. \A u \in Tenants : pool'[u].size = 0
    BY <1>1, <1>2
  <2> QED
    BY <2>1, <2>2, <2>4, <2>5 DEF Layout, Disjoint
<1> QED
  BY <1>6, <1>8, <1>9, <1>10, <1>11 DEF IInv

\* Built sets the pool behind the explicit ranges.
LEMMA BuiltIInv ==
  ASSUME IInv, Built
  PROVE  IInv'
<1>1. /\ pc = "build" /\ pending' = {} /\ poolNext' = cursor /\ pc' = "assign"
      /\ UNCHANGED <<reserved, current, total, tableTotal, config, cursor, explicit, pool, gauge, record, last, seen,
                     reloads>>
  BY DEF Built, history
<1>2. cursor \in Nat /\ seen = {} /\ tableTotal > 0 /\ \A u \in Tenants : pool[u].size = 0
  BY Parts, <1>1 DEF TypeOK, Building
<1>3. TypeOK'
  BY Parts, <1>1 DEF TypeOK
<1>4. Layout'
  BY Parts, <1>1, <1>2 DEF Layout, explicitCapacity, Disjoint
<1>5. Sent' /\ Gauges'
  BY Parts, <1>1, <1>2 DEF Sent, Gauges
<1>6. Building'
  BY <1>1, <1>2 DEF Building
<1> QED
  BY <1>3, <1>4, <1>5, <1>6 DEF IInv

\* A record sent to a range the table has already changes only what was sent.
LEMMA SendIInv ==
  ASSUME IInv, pc = "assign", Send(RangeOf(record[1])), UNCHANGED <<poolNext, pool, gauge>>,
         RangeOf(record[1]) \in Range, RangeOf(record[1]).size > 0,
         IsPool(record[1]) /\ pool[record[1]].size = 0 => poolNext = tableTotal /\ poolSize > 0
  PROVE  IInv'
<1>1. /\ last' = [last EXCEPT ![record] = Target(record)] /\ seen' = seen \cup {record} /\ pc' = "idle"
      /\ UNCHANGED <<reserved, current, total, tableTotal, config, pending, cursor, explicit, record, reloads,
                     poolNext, pool, gauge>>
  BY DEF Send, Target
<1>2. record \in Keys /\ record[1] \in Tenants /\ record[2] \in Instruments
  BY Parts, KeyParts DEF TypeOK
<1>3. Target(record) \in Nat
  BY <1>2, PickInRange DEF Target
<1>4. TypeOK'
  BY Parts, <1>1, <1>2, <1>3, Zenon DEF TypeOK
<1>5. Layout' /\ Gauges'
  BY Parts, <1>1, ZenonT(30) DEF Layout, Gauges, explicitCapacity, Disjoint
<1>6. Building'
  BY Parts, <1>1 DEF Building
<1>7. Sent'
  <2>1. ASSUME NEW k \in seen' PROVE Target(k)' = Target(k)
    BY <1>1 DEF Target, RangeOf, Fallback, poolSize
  <2>2. ASSUME NEW k \in seen' PROVE last'[k] = Target(k)
    BY Parts, <1>1, <1>2, Zenon DEF TypeOK, Sent
  <2>3. ASSUME NEW k \in seen', explicit[k[1]].size = 0, pool[k[1]].size = 0
        PROVE  poolNext = tableTotal /\ poolSize > 0
    BY Parts, <2>3, <1>1 DEF Sent, IsPool
  <2> QED
    BY <1>1, <2>1, <2>2, <2>3, Zenon DEF Sent, poolSize
<1> QED
  BY <1>4, <1>5, <1>6, <1>7 DEF IInv

\* AssignExplicit, AssignPool and AssignFallback send to RangeOf the tenant.
LEMMA AssignKnownIInv ==
  ASSUME IInv, AssignExplicit \/ AssignPool \/ AssignFallback
  PROVE  IInv'
<1>1. record[1] \in Tenants
  BY Parts, KeyParts DEF TypeOK
<1>2. explicit[record[1]] \in Range /\ pool[record[1]] \in Range
  BY Parts, <1>1 DEF TypeOK
<1>3. explicit[record[1]].size \in Nat /\ pool[record[1]].size \in Nat /\ poolNext \in Nat /\ tableTotal \in Nat
  BY Parts, <1>2 DEF TypeOK, Range
<1>4. CASE AssignExplicit
  <2>1. RangeOf(record[1]) = explicit[record[1]]
    BY <1>4 DEF AssignExplicit, RangeOf
  <2> QED
    BY <1>2, <1>3, <1>4, <2>1, SendIInv DEF AssignExplicit, IsPool
<1>5. CASE AssignPool
  <2>1. RangeOf(record[1]) = pool[record[1]]
    BY <1>5 DEF AssignPool, RangeOf, IsPool
  <2> QED
    BY <1>2, <1>3, <1>5, <2>1, SendIInv DEF AssignPool
<1>6. CASE AssignFallback
  <2>1. RangeOf(record[1]) = Fallback(record[1])
    BY <1>6 DEF AssignFallback, RangeOf, IsPool
  <2>2. Fallback(record[1]) \in Range /\ Fallback(record[1]).size = 1
    BY <1>1, <1>6, FallbackInPool DEF AssignFallback, IInv
  <2>3. poolNext = tableTotal
    BY <1>3, <1>6 DEF AssignFallback, remaining
  <2> QED
    BY <1>6, <2>1, <2>2, <2>3, SendIInv DEF AssignFallback
<1> QED
  BY <1>4, <1>5, <1>6

\* AssignNew takes the next range of the pool, behind those before it.  The
\* tenant has sent no record yet: one without a range would have exhausted
\* the pool.
LEMMA AssignNewIInv ==
  ASSUME IInv, AssignNew
  PROVE  IInv'
<1> DEFINE t == record[1]
           range == NewRange(t)
<1>1. record \in Keys /\ t \in Tenants /\ record[2] \in Instruments
  BY Parts, KeyParts, Zenon DEF TypeOK
<1>2. /\ pc = "assign" /\ explicit[t].size = 0 /\ pool[t].size = 0 /\ remaining > 0
      /\ pool' = [pool EXCEPT ![t] = range] /\ gauge' = [gauge EXCEPT ![TenantLabel(t)] = range]
      /\ poolNext' = poolNext + range.size
      /\ last' = [last EXCEPT ![record] = range.start + (InstrumentHash[record[2]] % range.size)]
      /\ seen' = seen \cup {record} /\ pc' = "idle"
      /\ UNCHANGED <<reserved, current, total, tableTotal, config, pending, cursor, explicit, record, reloads>>
  BY Zenon DEF AssignNew, Send, IsPool, observePartitionRange
<1>3. /\ range \in Range /\ range.size > 0 /\ range.start = poolNext
      /\ poolNext + range.size \in poolNext .. tableTotal /\ poolNext + range.size \in 0 .. tableTotal
  BY <1>1, <1>2, NewRangeFits, Zenon DEF IInv
<1>4. range.start + (InstrumentHash[record[2]] % range.size) \in Nat
  BY <1>1, <1>3, PickInRange
<1> HIDE DEF t, range
<1>5. /\ poolNext \in Nat /\ range.size \in Nat /\ cursor \in Nat /\ tableTotal \in Nat
      /\ pool \in [Tenants -> Range] /\ gauge \in [Labels -> Range] /\ explicit \in [Tenants -> Range]
  BY Parts, <1>3 DEF TypeOK, Range
<1>6. TypeOK'
  BY Parts, <1>1, <1>2, <1>3, <1>4, Zenon DEF TypeOK
<1>7. pool'[t] = range /\ (t \in KnownTenants => gauge'[t] = range)
      /\ \A u \in Tenants \ {t} : pool'[u] = pool[u] /\ (u \in KnownTenants => gauge'[u] = gauge[u])
  BY <1>1, <1>2, <1>5, PartitionerAssumption DEF TenantLabel, Labels
<1>8. Gauges'
  BY Parts, <1>1, <1>2, <1>5, <1>7 DEF Gauges
<1>9. Building'
  BY Parts, <1>2, <1>5 DEF Building
<1>10. Layout'
  <2>1. cursor <= poolNext
    BY Parts, <1>2 DEF Building
  <2>2. ASSUME NEW u \in Tenants, pool'[u].size > 0
        PROVE  explicit[u].size = 0 /\ cursor <= pool'[u].start /\ pool'[u].start + pool'[u].size <= poolNext'
    <3>1. CASE u = t
      BY <3>1, <2>1, <1>2, <1>3, <1>5, <1>7
    <3>2. CASE u # t
      <4>1. /\ explicit[u].size = 0 /\ cursor <= pool[u].start
            /\ pool[u].start + pool[u].size <= poolNext /\ pool[u] \in Range
        BY Parts, <2>2, <3>2, <1>5, <1>7 DEF Layout
      <4> QED
        BY <3>2, <4>1, <1>2, <1>5, <1>7 DEF Range
    <3> QED
      BY <3>1, <3>2, Zenon
  <2>3. ASSUME NEW u \in Tenants, u # t
        PROVE  Disjoint(range, pool[u]) /\ Disjoint(pool[u], range)
    <3>1. pool[u] \in Range /\ (pool[u].size > 0 => pool[u].start + pool[u].size <= poolNext)
      BY Parts, <1>5, Zenon DEF Layout
    <3> QED
      BY <3>1, <1>3, <1>5 DEF Disjoint, Range
  <2>4. \A u, v \in Tenants : u # v => Disjoint(pool[u], pool[v])'
    BY Parts, <2>3, <1>7 DEF Layout, Disjoint
  <2>5. /\ (tableTotal > 0 => cursor <= explicitCapacity)'
        /\ \A u \in Tenants : explicit'[u].size > 0 => explicit'[u].start + explicit'[u].size <= cursor'
        /\ \A u, v \in Tenants : u # v => Disjoint(explicit[u], explicit[v])'
    BY Parts, <1>2 DEF Layout, explicitCapacity, Disjoint
  <2> QED
    BY <2>2, <2>4, <2>5, <1>2, Zenon DEF Layout
<1>11. Sent'
  <2>1. poolNext # tableTotal
    BY <1>2, <1>5 DEF remaining
  <2>2. ASSUME NEW k \in seen, k # record
        PROVE  /\ last'[k] = Target(k)'
               /\ explicit'[k[1]].size > 0 \/ pool'[k[1]].size > 0
    <3>1. k \in Keys /\ k[1] \in Tenants /\ last[k] = Target(k)
      BY Parts, KeyParts DEF TypeOK, Sent
    <3>2. explicit[k[1]] \in Range /\ pool[k[1]] \in Range
      BY <3>1, <1>5
    <3>3. explicit[k[1]].size \in Nat /\ pool[k[1]].size \in Nat
      BY <3>2 DEF Range
    <3>4. explicit[k[1]].size > 0 \/ pool[k[1]].size > 0
      BY Parts, <2>1, <3>3 DEF Sent
    <3>5. k[1] # t
      BY <3>4, <1>2, <3>3
    <3>6. explicit'[k[1]] = explicit[k[1]] /\ pool'[k[1]] = pool[k[1]]
      BY <3>1, <3>5, <1>2, <1>7, Zenon
    <3>7. RangeOf(k[1])' = RangeOf(k[1])
      BY <3>4, <3>6 DEF RangeOf
    <3>8. Target(k)' = Target(k)
      BY <3>7, Zenon DEF Target
    <3>9. last'[k] = last[k]
      BY Parts, <1>1, <1>2, <2>2, <3>1, Zenon DEF TypeOK
    <3> QED
      BY <3>1, <3>4, <3>6, <3>8, <3>9
  <2>3. last'[record] = Target(record)' /\ pool'[t].size > 0
    <3>1. last'[record] = range.start + (InstrumentHash[record[2]] % range.size)
      BY Parts, <1>1, <1>2, Zenon DEF TypeOK
    <3>2. RangeOf(record[1])' = range
      BY <1>2, <1>3, <1>5, <1>7 DEF RangeOf, t
    <3> QED
      BY <3>1, <3>2, <1>2, <1>3, <1>7 DEF Target
  <2>4. t = record[1] /\ seen' = seen \cup {record} /\ record' = record
    BY <1>2 DEF t
  <2>5. seen' \subseteq Keys /\ explicit' \in [Tenants -> Range] /\ pool' \in [Tenants -> Range]
    BY <1>6 DEF TypeOK
  <2>6. ASSUME NEW k \in seen', explicit'[k[1]].size = 0, pool'[k[1]].size = 0 PROVE FALSE
    BY <2>2, <2>3, <2>4, <2>6
  <2>7. ASSUME NEW k \in seen' PROVE last'[k] = Target(k)'
    BY <2>2, <2>3, <2>4
  <2> QED
    BY <2>6, <2>7, Zenon DEF Sent
<1> QED
  BY <1>6, <1>8, <1>9, <1>10, <1>11 DEF IInv

\* Panic changes nothing but the program counter.
LEMMA PanicIInv ==
  ASSUME IInv, Panic
  PROVE  IInv'
<1>1. /\ pc = "assign" /\ pc' = "panicked"
      /\ UNCHANGED <<reserved, current, total, tableTotal, config, pending, cursor, explicit, poolNext, pool, gauge,
                     record, last, seen, reloads>>
  BY DEF Panic, table, history
<1>2. TypeOK' /\ Building'
  BY Parts, <1>1, Zenon DEF TypeOK, Building
<1>3. Layout' /\ Gauges'
  BY Parts, <1>1 DEF Layout, Gauges, explicitCapacity, Disjoint
<1>4. Sent'
  BY Parts, <1>1, Zenon DEF Sent, Target, RangeOf, Fallback, poolSize
<1> QED
  BY <1>2, <1>3, <1>4 DEF IInv

\* Every step of the partitioner keeps the invariant.
LEMMA NextIInv == IInv /\ [Next]_vars => IInv'
  BY EnvironmentIInv, PartitionIInv, PlaceIInv, BuiltIInv, AssignKnownIInv, AssignNewIInv, PanicIInv DEF Next, Step

-----------------------------------------------------------------------------
(* What the invariant says of records *)

\* A record that was sent went to a partition of its tenant's range, and the
\* range is not empty.
LEMMA SentInRange ==
  ASSUME IInv, NEW k \in seen
  PROVE  /\ k[1] \in Tenants /\ last[k] \in Nat
         /\ RangeOf(k[1]) \in Range /\ RangeOf(k[1]).size > 0 /\ In(last[k], RangeOf(k[1]))
<1>1. k \in Keys /\ k[1] \in Tenants /\ k[2] \in Instruments
  BY Parts, KeyParts DEF TypeOK
<1>2. explicit[k[1]] \in Range /\ pool[k[1]] \in Range
  BY Parts, <1>1 DEF TypeOK
<1>3. explicit[k[1]].size \in Nat /\ pool[k[1]].size \in Nat
  BY <1>2 DEF Range
<1>4. RangeOf(k[1]) \in Range /\ RangeOf(k[1]).size > 0
  <2>1. CASE explicit[k[1]].size = 0 /\ pool[k[1]].size = 0
    <3>1. poolSize > 0
      BY Parts, <2>1 DEF Sent
    <3> QED
      BY <1>1, <2>1, <3>1, FallbackInPool DEF IInv, RangeOf
  <2>2. CASE ~(explicit[k[1]].size = 0 /\ pool[k[1]].size = 0)
    BY <1>2, <1>3, <2>2 DEF RangeOf
  <2> QED
    BY <2>1, <2>2, Zenon
<1>5. last[k] = RangeOf(k[1]).start + (InstrumentHash[k[2]] % RangeOf(k[1]).size)
  BY Parts, Zenon DEF Sent, Target
<1> QED
  BY <1>1, <1>4, <1>5, PickInRange

\* Explicit ranges lie below cursor, and every other range a record was sent
\* to lies between cursor and the end of the topic.
LEMMA RangeSide ==
  ASSUME IInv, NEW k \in seen
  PROVE  /\ explicit[k[1]].size > 0 => last[k] < cursor
         /\ explicit[k[1]].size = 0 => cursor <= last[k]
         /\ last[k] < tableTotal
<1>1. k[1] \in Tenants /\ last[k] \in Nat /\ RangeOf(k[1]) \in Range /\ In(last[k], RangeOf(k[1]))
  BY SentInRange
<1>2. cursor \in Nat /\ poolNext \in Nat /\ tableTotal \in Nat /\ cursor <= tableTotal /\ poolNext <= tableTotal
  BY Parts DEF TypeOK
<1>3. explicit[k[1]] \in Range /\ pool[k[1]] \in Range
  BY Parts, <1>1, Zenon DEF TypeOK
<1>4. CASE explicit[k[1]].size > 0
  <2>1. RangeOf(k[1]) = explicit[k[1]] /\ explicit[k[1]].start + explicit[k[1]].size <= cursor
    BY Parts, <1>1, <1>4, Zenon DEF Layout, RangeOf
  <2> QED
    BY <1>1, <1>2, <1>3, <1>4, <2>1 DEF In, Range
<1>5. CASE explicit[k[1]].size = 0 /\ pool[k[1]].size > 0
  <2>1. /\ RangeOf(k[1]) = pool[k[1]] /\ cursor <= pool[k[1]].start
        /\ pool[k[1]].start + pool[k[1]].size <= poolNext
    BY Parts, <1>1, <1>5 DEF Layout, RangeOf
  <2> QED
    BY <1>1, <1>2, <1>3, <1>5, <2>1 DEF In, Range
<1>6. CASE explicit[k[1]].size = 0 /\ pool[k[1]].size = 0
  <2>1. poolSize > 0 /\ RangeOf(k[1]) = Fallback(k[1])
    BY Parts, <1>6 DEF Sent, RangeOf
  <2>2. /\ Fallback(k[1]).size = 1 /\ cursor <= Fallback(k[1]).start
        /\ Fallback(k[1]).start < tableTotal
    BY <1>1, <2>1, FallbackInPool DEF IInv
  <2> QED
    BY <1>1, <1>2, <1>6, <2>1, <2>2 DEF In, Range
<1> QED
  BY <1>3, <1>4, <1>5, <1>6 DEF Range

\* Records in disjoint ranges are in different partitions.
LEMMA DisjointApart ==
  ASSUME NEW r \in Range, NEW s \in Range, r.size > 0, s.size > 0, Disjoint(r, s),
         NEW p \in Nat, NEW q \in Nat, In(p, r), In(q, s)
  PROVE  p # q
  BY DEF Range, Disjoint, In

-----------------------------------------------------------------------------
(* The theorems *)

\* The invariant, and with it the bounds of cursor and poolNext.
THEOREM Invariance == Spec => []IInv
<1>1. Init => IInv
  BY InitIInv
<1>2. IInv /\ [Next]_vars => IInv'
  BY NextIInv
<1> QED
  BY <1>1, <1>2, PTL DEF Spec

\* Every record goes to a partition the topic has.
THEOREM InTopic == Spec => []SentToTheTopic
<1>1. IInv => SentToTheTopic
  <2> SUFFICES ASSUME IInv, NEW k \in seen PROVE last[k] \in 0 .. (tableTotal - 1)
    BY DEF SentToTheTopic
  <2>1. last[k] \in Nat /\ tableTotal \in Nat /\ last[k] < tableTotal
    BY Parts, SentInRange, RangeSide DEF TypeOK
  <2> QED
    BY <2>1
<1> QED
  BY <1>1, Invariance, PTL

\* A tenant with an explicit range shares no partition, not even with the
\* tenants an exhausted pool sends elsewhere.
THEOREM Reserved == Spec => []ReservedNotShared
<1>1. IInv => ReservedNotShared
  <2> SUFFICES ASSUME IInv, NEW j \in seen, NEW k \in seen, j[1] # k[1], ~IsPool(j[1])
               PROVE  last[j] # last[k]
    BY DEF ReservedNotShared
  <2>1. /\ j[1] \in Tenants /\ last[j] \in Nat /\ RangeOf(j[1]) \in Range
        /\ RangeOf(j[1]).size > 0 /\ In(last[j], RangeOf(j[1]))
        /\ k[1] \in Tenants /\ last[k] \in Nat /\ RangeOf(k[1]) \in Range
        /\ RangeOf(k[1]).size > 0 /\ In(last[k], RangeOf(k[1]))
    BY SentInRange, Zenon
  <2>2. explicit[j[1]].size > 0 /\ explicit[k[1]].size \in Nat /\ cursor \in Nat
    BY Parts, <2>1 DEF TypeOK, IsPool, Range
  <2>3. CASE explicit[k[1]].size > 0
    <3>1. Disjoint(explicit[j[1]], explicit[k[1]])
      BY Parts, <2>1, Zenon DEF Layout
    <3>2. RangeOf(j[1]) = explicit[j[1]] /\ RangeOf(k[1]) = explicit[k[1]]
      BY <2>2, <2>3, Zenon DEF RangeOf
    <3> QED
      BY <2>1, <3>1, <3>2, DisjointApart, Zenon
  <2>4. CASE explicit[k[1]].size = 0
    BY <2>1, <2>2, <2>4, RangeSide
  <2> QED
    BY <2>2, <2>3, <2>4
<1> QED
  BY <1>1, Invariance, PTL

\* Tenants that drew ranges from the pool share no partition.
THEOREM PoolReserved == Spec => []PoolNotShared
<1>1. IInv => PoolNotShared
  <2> SUFFICES ASSUME IInv, NEW j \in seen, NEW k \in seen, j[1] # k[1],
                      pool[j[1]].size > 0, pool[k[1]].size > 0
               PROVE  last[j] # last[k]
    BY Zenon DEF PoolNotShared
  <2>1. /\ j[1] \in Tenants /\ last[j] \in Nat /\ RangeOf(j[1]) \in Range
        /\ RangeOf(j[1]).size > 0 /\ In(last[j], RangeOf(j[1]))
        /\ k[1] \in Tenants /\ last[k] \in Nat /\ RangeOf(k[1]) \in Range
        /\ RangeOf(k[1]).size > 0 /\ In(last[k], RangeOf(k[1]))
    BY SentInRange, Zenon
  <2>2. explicit[j[1]].size = 0 /\ explicit[k[1]].size = 0 /\ Disjoint(pool[j[1]], pool[k[1]])
    BY Parts, <2>1, Zenon DEF Layout
  <2>3. RangeOf(j[1]) = pool[j[1]] /\ RangeOf(k[1]) = pool[k[1]]
    BY <2>2 DEF RangeOf
  <2> QED
    BY <2>1, <2>2, <2>3, DisjointApart
<1> QED
  BY <1>1, Invariance, PTL

\* The gauges show the ranges of the table.
THEOREM GaugesTrue == Spec => []GaugeShowsTable
<1>1. IInv => GaugeShowsTable
  BY Parts DEF Gauges, GaugeShowsTable
<1> QED
  BY <1>1, Invariance, PTL

\* A table never sends two records of one key to different partitions.
THEOREM KeyKeepsPartition == Spec => KeepsPartition
<1>1. IInv /\ [Next]_vars => [\A k \in seen \cap seen' : last'[k] = last[k]]_vars
  <2> SUFFICES ASSUME IInv, Next, NEW k \in seen, k \in seen'
               PROVE  last'[k] = last[k]
    BY Zenon DEF vars
  <2>1. k \in Keys /\ record \in Keys /\ last \in [Keys -> Nat \cup {NoPartition}] /\ last[k] = Target(k)
    BY Parts, Zenon DEF TypeOK, Sent
  <2>2. ASSUME NEW r, Send(r), k = record, r = RangeOf(record[1]) PROVE last'[k] = last[k]
    BY <2>1, <2>2, Zenon DEF Send, Target
  <2>3. ASSUME NEW r, Send(r), k # record PROVE last'[k] = last[k]
    BY <2>1, <2>3, Zenon DEF Send
  <2>4. CASE AssignExplicit
    BY <2>2, <2>3, <2>4, Zenon DEF AssignExplicit, RangeOf
  <2>5. CASE AssignPool
    BY <2>2, <2>3, <2>5 DEF AssignPool, RangeOf, IsPool
  <2>6. CASE AssignFallback
    BY <2>2, <2>3, <2>6 DEF AssignFallback, RangeOf, IsPool
  <2>7. CASE AssignNew
    <3>1. k = record => poolNext = tableTotal
      BY Parts, <2>7 DEF AssignNew, IsPool, Sent
    <3>2. poolNext # tableTotal
      BY Parts, <2>7 DEF AssignNew, remaining, TypeOK
    <3> QED
      BY <2>3, <2>7, <3>1, <3>2, Zenon DEF AssignNew
  <2>8. CASE Reload \/ Resize \/ Built \/ Panic \/ \E t \in Tenants : Place(t)
    BY <2>8, Zenon DEF Reload, Resize, Built, Panic, Place, history
  <2>9. CASE \E l \in Keys : Partition(l)
    BY <2>9 DEF Partition, history
  <2> QED
    BY <2>4, <2>5, <2>6, <2>7, <2>8, <2>9, Zenon DEF Next, Step
<1> QED
  BY <1>1, Invariance, PTL DEF Spec, KeepsPartition

\* A table of two partitions or more leaves the pool at least one, so only
\* one for a single partition makes Partition divide by zero.
THEOREM PanicNeedsOnePartition == Spec => []PanicsOnlyAlone
<1>1. Init => PanicsOnlyAlone
  BY DEF Init, PanicsOnlyAlone
<1>2. IInv /\ PanicsOnlyAlone /\ [Next]_vars => PanicsOnlyAlone'
  <2> SUFFICES ASSUME IInv, PanicsOnlyAlone, [Next]_vars PROVE PanicsOnlyAlone'
    OBVIOUS
  <2>1. tableTotal \in Nat /\ cursor \in Nat
    BY Parts DEF TypeOK
  <2>2. CASE UNCHANGED vars \/ Reload \/ Resize
    BY <2>2 DEF vars, table, Reload, Resize, PanicsOnlyAlone
  <2>3. CASE \E k \in Keys : Partition(k)
    BY <2>3 DEF Partition, PanicsOnlyAlone
  <2>4. CASE (\E t \in Tenants : Place(t)) \/ Built
    BY <2>4, Zenon DEF Place, Built, PanicsOnlyAlone
  <2>5. CASE AssignExplicit \/ AssignPool \/ AssignNew \/ AssignFallback
    BY <2>5, Zenon DEF AssignExplicit, AssignPool, AssignNew, AssignFallback, Send, PanicsOnlyAlone
  <2>6. CASE Panic
    <3>1. tableTotal > 0 /\ cursor <= explicitCapacity /\ tableTotal' = tableTotal
      BY Parts, <2>1, <2>6, Zenon DEF Panic, Building, Layout, table
    <3>2. tableTotal - cursor = 0
      BY <2>6 DEF Panic, poolSize
    <3>3. tableTotal = 1
      BY <2>1, <3>1, <3>2 DEF explicitCapacity
    <3> QED
      BY <3>1, <3>3 DEF PanicsOnlyAlone
  <2> QED
    BY <2>2, <2>3, <2>4, <2>5, <2>6 DEF Next, Step
<1> QED
  BY <1>1, <1>2, Invariance, PTL DEF Spec

\* In particular the cursors never leave the table.
THEOREM TableTyped == Spec => []TypeOK
<1>1. IInv => TypeOK
  BY DEF IInv
<1> QED
  BY <1>1, Invariance, PTL

-----------------------------------------------------------------------------
(***************************************************************************)
(* TenantPartitioner implements PartitionTable.                            *)
(*                                                                         *)
(* IInv says that ranges are apart.  That they are the ranges the mapping  *)
(* asks for needs more (Shape): each starts where those of the tenants     *)
(* before it end and has the right size, the tenants the loop has still to *)
(* come to, or has dropped, are behind all the others, tenants are dropped *)
(* only when the explicit capacity is used up, and the ranges drawn from   *)
(* the pool leave no gap.                                                  *)
(***************************************************************************)

End(r) == r.start + r.size

\* The range of t is where and as large as the mapping says.
InPlace(t) ==
  /\ explicit[t].size = IF explicit[t].start + config[t] > explicitCapacity
                        THEN explicitCapacity - explicit[t].start ELSE config[t]
  /\ explicit[t].start < explicitCapacity
  /\ \A u \in Tenants : u < t /\ explicit[u].size > 0 => End(explicit[u]) <= explicit[t].start
  /\ explicit[t].start = 0
       \/ \E u \in Tenants : u < t /\ explicit[u].size > 0 /\ End(explicit[u]) = explicit[t].start

Placed ==
  /\ \A t \in Tenants : explicit[t].size > 0 => config[t] > 0 /\ InPlace(t)
  /\ \A t \in Tenants : explicit[t].size = 0 => explicit[t] = NoRange
  /\ cursor = 0 \/ \E t \in Tenants : explicit[t].size > 0 /\ End(explicit[t]) = cursor

Behind ==
  /\ \A t, u \in Tenants : config[t] > 0 /\ explicit[t].size = 0 /\ explicit[u].size > 0 => u < t
  /\ \A t \in Tenants : config[t] > 0 /\ explicit[t].size = 0 =>
       IF pc = "build" THEN t \in pending ELSE tableTotal > 0 => cursor = explicitCapacity

NoGap == pc # "build" =>
           \A p \in Nat : cursor <= p /\ p < poolNext => \E t \in Tenants : In(p, pool[t])

Shape == Placed /\ Behind /\ NoGap

\* The conjuncts of Shape.
LEMMA ShapeParts == Shape => Placed /\ Behind /\ NoGap
  BY DEF Shape

-----------------------------------------------------------------------------
(* The invariant *)

\* No table, no range.
LEMMA InitShape == Init => Shape
<1> SUFFICES ASSUME Init PROVE Shape
  OBVIOUS
<1>1. NoRange.size = 0 /\ \A t \in Tenants : explicit[t] = NoRange
  BY DEF Init, NoRange
<1>2. tableTotal = 0 /\ cursor = 0 /\ poolNext = 0
  BY Zenon DEF Init
<1>3. Placed
  BY <1>1, <1>2 DEF Placed
<1>4. Behind
  BY <1>1, <1>2 DEF Behind, Init
<1>5. NoGap
  BY <1>2 DEF NoGap
<1> QED
  BY <1>3, <1>4, <1>5 DEF Shape

\* Steps that leave the table alone.
LEMMA SameTableShape ==
  ASSUME Shape, UNCHANGED <<tableTotal, config, pending, cursor, explicit, poolNext, pool>>,
         pc' = "build" <=> pc = "build"
  PROVE  Shape'
<1>1. Placed'
  BY ShapeParts, Zenon DEF Placed, InPlace, End, explicitCapacity
<1>2. Behind'
  BY ShapeParts DEF Behind, explicitCapacity
<1>3. NoGap'
  BY ShapeParts DEF NoGap
<1> QED
  BY <1>1, <1>2, <1>3, Zenon DEF Shape

\* A new table has no range, and all tenants of the mapping to come to.
LEMMA PartitionShape ==
  ASSUME IInv, Shape, NEW k \in Keys, Partition(k)
  PROVE  Shape'
<1>1. CASE current /\ tableTotal = total
  BY <1>1, SameTableShape DEF Partition, table
<1>2. CASE ~(current /\ tableTotal = total)
  <2>1. /\ pc' = "build" /\ config' = reserved /\ cursor' = 0
        /\ pending' = {t \in Tenants : reserved[t] > 0}
        /\ explicit' = [t \in Tenants |-> NoRange]
    BY <1>2 DEF Partition
  <2>2. \A t \in Tenants : explicit'[t] = NoRange /\ explicit'[t].size = 0
    BY <2>1 DEF NoRange
  <2>3. Placed'
    BY <2>1, <2>2 DEF Placed
  <2>4. Behind'
    BY <2>1, <2>2 DEF Behind
  <2>5. NoGap'
    BY <2>1 DEF NoGap
  <2> QED
    BY <2>3, <2>4, <2>5 DEF Shape
<1> QED
  BY <1>1, <1>2, Zenon

\* Place: the next tenant starts where the last one ends, and is behind all
\* that have a range.
LEMMA PlaceShape ==
  ASSUME IInv, Shape, NEW t \in Tenants, Place(t)
  PROVE  Shape'
<1> DEFINE size == IF cursor + config[t] > explicitCapacity THEN explicitCapacity - cursor ELSE config[t]
           range == [start |-> cursor, size |-> size]
<1>1. /\ pc = "build" /\ t \in pending /\ (\A u \in pending : t <= u) /\ cursor < explicitCapacity
      /\ explicit' = [explicit EXCEPT ![t] = range]
      /\ cursor' = cursor + size /\ pending' = pending \ {t}
      /\ UNCHANGED <<tableTotal, config, pc>>
  BY Zenon DEF Place
<1>2. /\ config[t] \in Nat /\ config[t] > 0 /\ cursor \in Nat /\ tableTotal \in Nat
      /\ explicit \in [Tenants -> Range] /\ explicit[t].size = 0 /\ config \in [Tenants -> Nat]
      /\ pending \subseteq Tenants
  BY Parts, <1>1 DEF TypeOK, Building
<1>3. explicitCapacity \in Nat /\ explicitCapacity' = explicitCapacity
  BY <1>1, <1>2 DEF explicitCapacity
<1>4. size \in Nat /\ size > 0 /\ cursor + size <= explicitCapacity
  BY <1>1, <1>2, <1>3
<1>5. range.start = cursor /\ range.size = size
  OBVIOUS
<1>6. size = IF cursor + config[t] > explicitCapacity THEN explicitCapacity - cursor ELSE config[t]
  OBVIOUS
<1> HIDE DEF size, range
<1>7. explicit'[t] = range /\ \A u \in Tenants \ {t} : explicit'[u] = explicit[u]
  BY <1>1, <1>2, Zenon
<1>8. \A u \in Tenants : explicit[u].size > 0 => u < t /\ u # t /\ End(explicit[u]) <= cursor
  <2>1. \A u \in Tenants : explicit[u].size > 0 => u < t /\ u # t
    BY ShapeParts, <1>2 DEF Behind
  <2> QED
    BY Parts, <2>1 DEF Layout, End
<1>9. Tenants \subseteq Nat
  BY PartitionerAssumption, Zenon
<1>10. Placed'
  <2>1. ASSUME NEW u \in Tenants, explicit'[u].size > 0 PROVE config'[u] > 0 /\ InPlace(u)'
    <3>1. CASE u = t
      <4>1. /\ explicit'[u].size = IF explicit'[u].start + config'[u] > explicitCapacity'
                                   THEN explicitCapacity' - explicit'[u].start ELSE config'[u]
            /\ explicit'[u].start < explicitCapacity'
        BY <3>1, <1>1, <1>3, <1>5, <1>6, <1>7, Zenon
      <4>2. \A v \in Tenants : v < u /\ explicit'[v].size > 0 => End(explicit'[v]) <= explicit'[u].start
        BY <3>1, <1>5, <1>7, <1>8, <1>9
      <4>3. explicit'[u].start = 0
              \/ \E v \in Tenants : v < u /\ explicit'[v].size > 0 /\ End(explicit'[v]) = explicit'[u].start
        <5>1. cursor = 0 \/ \E v \in Tenants : explicit[v].size > 0 /\ End(explicit[v]) = cursor
          BY ShapeParts, Zenon DEF Placed
        <5> QED
          BY <3>1, <5>1, <1>5, <1>7, <1>8, Zenon
      <4> QED
        BY <3>1, <4>1, <4>2, <4>3, <1>1, <1>2, Zenon DEF InPlace, End
    <3>2. CASE u # t
      <4>1. explicit'[u] = explicit[u] /\ config[u] > 0 /\ InPlace(u) /\ u < t
        BY ShapeParts, <2>1, <3>2, <1>7, <1>8, ZenonT(30) DEF Placed
      <4>2. \A v \in Tenants : v < u => v # t /\ explicit'[v] = explicit[v]
        BY <4>1, <1>7, <1>9
      <4> QED
        BY <4>1, <4>2, <1>1, <1>3 DEF InPlace, End
    <3> QED
      BY <3>1, <3>2, Zenon
  <2>2. ASSUME NEW u \in Tenants, explicit'[u].size = 0 PROVE explicit'[u] = NoRange
    <3>1. u # t
      BY <2>2, <1>4, <1>5, <1>7
    <3> QED
      BY ShapeParts, <2>2, <3>1, <1>7, Zenon DEF Placed
  <2>3. explicit'[t].size > 0 /\ End(explicit'[t]) = cursor'
    BY <1>1, <1>4, <1>5, <1>7 DEF End
  <2> QED
    BY <2>1, <2>2, <2>3 DEF Placed, End
<1>11. Behind'
  <2>1. ASSUME NEW u \in Tenants, config'[u] > 0, explicit'[u].size = 0
        PROVE  u \in pending /\ u # t /\ t < u /\ explicit[u].size = 0
    <3>1. u # t
      BY <2>1, <1>4, <1>5, <1>7
    <3>2. explicit[u].size = 0 /\ config[u] > 0
      BY <2>1, <3>1, <1>1, <1>7, Zenon
    <3>3. u \in pending
      BY ShapeParts, <3>2, <1>1 DEF Behind
    <3> QED
      BY <3>1, <3>2, <3>3, <1>1, <1>9
  <2>2. ASSUME NEW u \in Tenants, NEW v \in Tenants, config'[u] > 0, explicit'[u].size = 0, explicit'[v].size > 0
        PROVE  v < u
    <3>1. t < u
      BY <2>1, <2>2, Zenon
    <3>2. v = t \/ v < t
      BY <2>2, <1>7, <1>8, Zenon
    <3> QED
      BY <3>1, <3>2, <1>9
  <2> QED
    BY <2>1, <2>2, <1>1, Zenon DEF Behind
<1>12. NoGap'
  BY <1>1 DEF NoGap
<1> QED
  BY <1>10, <1>11, <1>12, Zenon DEF Shape

\* Built: tenants are dropped only when the explicit capacity is used up.
LEMMA BuiltShape ==
  ASSUME IInv, Shape, Built
  PROVE  Shape'
<1>1. /\ pc = "build" /\ pc' = "assign" /\ poolNext' = cursor
      /\ pending = {} \/ cursor >= explicitCapacity
      /\ UNCHANGED <<tableTotal, config, cursor, explicit, pool>>
  BY Zenon DEF Built
<1>2. /\ tableTotal \in Nat /\ cursor \in Nat /\ poolNext \in Nat
      /\ tableTotal > 0 => cursor <= explicitCapacity
  BY Parts DEF TypeOK, Layout
<1>3. explicitCapacity \in Nat
  BY <1>2 DEF explicitCapacity
<1>4. Placed'
  BY ShapeParts, <1>1 DEF Placed, InPlace, End, explicitCapacity
<1>5. ASSUME NEW t \in Tenants, config[t] > 0, explicit[t].size = 0, tableTotal > 0
      PROVE  cursor = explicitCapacity
  <2>1. t \in pending
    BY ShapeParts, <1>1, <1>5, Zenon DEF Behind
  <2> QED
    BY <2>1, <1>1, <1>2, <1>3, <1>5
<1>6. Behind'
  BY ShapeParts, <1>1, <1>5 DEF Behind, explicitCapacity
<1>7. NoGap'
  BY <1>1, <1>2 DEF NoGap
<1> QED
  BY <1>4, <1>6, <1>7 DEF Shape

\* AssignNew: the new range starts where the pool's ranges end.
LEMMA AssignNewShape ==
  ASSUME IInv, Shape, AssignNew
  PROVE  Shape'
<1> DEFINE t == record[1]
           range == NewRange(t)
<1>1. t \in Tenants
  BY Parts, KeyParts DEF TypeOK
<1>2. /\ pc = "assign" /\ pc' = "idle" /\ pool[t].size = 0 /\ remaining > 0
      /\ pool' = [pool EXCEPT ![t] = range] /\ poolNext' = poolNext + range.size
      /\ UNCHANGED <<tableTotal, config, pending, cursor, explicit>>
  BY Zenon DEF AssignNew, Send
<1>3. range \in Range /\ range.start = poolNext
  BY <1>1, <1>2, NewRangeFits DEF IInv
<1> HIDE DEF t, range
<1>4. poolNext \in Nat /\ pool \in [Tenants -> Range]
  BY Parts DEF TypeOK
<1>5. pool'[t] = range /\ \A u \in Tenants \ {t} : pool'[u] = pool[u]
  BY <1>1, <1>2, <1>4, Zenon
<1>6. Placed'
  BY ShapeParts, <1>2, Zenon DEF Placed, InPlace, End, explicitCapacity
<1>7. Behind'
  BY ShapeParts, <1>2 DEF Behind, explicitCapacity
<1>8. ASSUME NEW p \in Nat, cursor <= p, p < poolNext' PROVE \E u \in Tenants : In(p, pool'[u])
  <2>1. CASE p < poolNext
    <3>1. PICK u \in Tenants : In(p, pool[u])
      BY ShapeParts, <1>2, <1>8, <2>1 DEF NoGap
    <3>2. u # t
      BY <3>1, <1>2, <1>4 DEF In, Range
    <3> QED
      BY <3>1, <3>2, <1>5
  <2>2. CASE p >= poolNext
    BY <2>2, <1>1, <1>2, <1>3, <1>4, <1>5, <1>8 DEF In, Range
  <2> QED
    BY <2>1, <2>2, <1>4
<1>9. NoGap'
  BY <1>2, <1>8 DEF NoGap
<1> QED
  BY <1>6, <1>7, <1>9 DEF Shape

\* Every step keeps the shape of the table.
LEMMA NextShape == IInv /\ Shape /\ [Next]_vars => Shape'
<1> SUFFICES ASSUME IInv, Shape, [Next]_vars PROVE Shape'
  BY Zenon
<1>1. CASE UNCHANGED vars \/ Reload \/ Resize \/ Panic
  BY <1>1, SameTableShape DEF vars, table, Reload, Resize, Panic
<1>2. CASE AssignExplicit \/ AssignPool \/ AssignFallback
  BY <1>2, SameTableShape, Zenon DEF AssignExplicit, AssignPool, AssignFallback, Send
<1> QED
  BY <1>1, <1>2, PartitionShape, PlaceShape, BuiltShape, AssignNewShape DEF Next, Step

-----------------------------------------------------------------------------
(* What the shape says *)

\* A partition of a range below c is one below any bound of c.
LEMMA InBelow ==
  ASSUME NEW r \in Range, NEW p \in Nat, In(p, r), NEW c \in Nat, End(r) <= c, NEW n \in Nat, c <= n
  PROVE  p \in 0 .. (n - 1) /\ Table!In(p, r)
  BY DEF In, Table!In, Table!End, End, Range

\* No partition from c on is in a range below c.
LEMMA NotInBelow ==
  ASSUME NEW r \in Range, NEW c \in Nat, r.size > 0 => r.start + r.size <= c, NEW q \in Nat, c <= q
  PROVE  ~Table!In(q, r)
  BY DEF Table!In, Table!End, Range

\* No partition of the rest is before the pool.
LEMMA RestIsPool ==
  ASSUME IInv, Shape, NEW p \in Nat
  PROVE  p \in Table!Rest <=> p < tableTotal /\ cursor <= p
<1>1. cursor \in Nat /\ tableTotal \in Nat /\ explicit \in [Tenants -> Range]
  BY Parts DEF TypeOK
<1>2. p \in Table!Rest <=> p < tableTotal /\ \A t \in Tenants : explicit[t].size > 0 => p >= End(explicit[t])
  BY <1>1 DEF Table!Rest, Table!End, End
<1>3. ASSUME cursor <= p, NEW t \in Tenants, explicit[t].size > 0 PROVE p >= End(explicit[t])
  <2>1. End(explicit[t]) <= cursor /\ explicit[t] \in Range
    BY Parts, <1>1, <1>3 DEF Layout, End
  <2> QED
    BY <2>1, <1>1, <1>3 DEF End, Range
<1>4. ASSUME \A t \in Tenants : explicit[t].size > 0 => p >= End(explicit[t]) PROVE cursor <= p
  <2>1. cursor = 0 \/ \E t \in Tenants : explicit[t].size > 0 /\ End(explicit[t]) = cursor
    BY ShapeParts, Zenon DEF Placed
  <2> QED
    BY <2>1, <1>1, <1>4
<1> QED
  BY <1>2, <1>3, <1>4

\* A table that is not under construction is the layout of its mapping.
LEMMA TableIsLayout ==
  ASSUME IInv, Shape, pc = "assign"
  PROVE  Table!IsLayout(explicit, config, tableTotal)
<1>1. /\ tableTotal \in Nat /\ tableTotal > 0 /\ cursor \in Nat /\ config \in [Tenants -> Nat]
      /\ explicit \in [Tenants -> Range] /\ cursor <= explicitCapacity
  BY Parts DEF TypeOK, Building, Layout
<1>2. /\ Table!Capacity(tableTotal) = explicitCapacity
      /\ explicitCapacity \in Nat /\ explicitCapacity > 0
      /\ Table!NoRange = NoRange
  BY <1>1 DEF Table!Capacity, explicitCapacity, Table!NoRange, NoRange
<1>3. ASSUME NEW t \in Tenants, config[t] > 0, explicit[t].size > 0
      PROVE  LET s == explicit[t].start IN
             /\ s \in 0 .. explicitCapacity
             /\ Table!StartsAt(t, s, explicit)
             /\ s # explicitCapacity
             /\ explicit[t] = [start |-> s,
                              size |-> IF s + config[t] > explicitCapacity THEN explicitCapacity - s ELSE config[t]]
  <2>1. InPlace(t) /\ explicit[t] \in Range
    BY ShapeParts, <1>1, <1>3, Zenon DEF Placed
  <2>2. explicit[t].start \in 0 .. explicitCapacity /\ explicit[t].start # explicitCapacity
    BY <2>1, <1>2 DEF InPlace, Range
  <2>3. Table!StartsAt(t, explicit[t].start, explicit)
    BY <2>1, Zenon DEF InPlace, Table!StartsAt, Table!End, End
  <2>4. explicit[t] = [start |-> explicit[t].start, size |-> explicit[t].size]
    BY <2>1, Zenon DEF Range
  <2> QED
    BY <2>1, <2>2, <2>3, <2>4 DEF InPlace
<1>4. ASSUME NEW t \in Tenants, config[t] > 0, explicit[t].size = 0
      PROVE  Table!StartsAt(t, explicitCapacity, explicit) /\ explicit[t] = NoRange
  <2>1. cursor = explicitCapacity /\ \A u \in Tenants : explicit[u].size > 0 => u < t
    BY ShapeParts, <1>1, <1>4, Zenon DEF Behind
  <2>2. \A u \in Tenants : explicit[u].size > 0 => End(explicit[u]) <= cursor
    BY Parts DEF Layout, End
  <2>3. \E u \in Tenants : explicit[u].size > 0 /\ End(explicit[u]) = cursor
    BY ShapeParts, <2>1, <1>1, <1>2 DEF Placed
  <2>4. explicit[t] = NoRange
    BY ShapeParts, <1>4, Zenon DEF Placed
  <2> QED
    BY <2>1, <2>2, <2>3, <2>4, Zenon DEF Table!StartsAt, Table!End, End
<1>5. ASSUME NEW t \in Tenants, config[t] = 0 PROVE explicit[t] = NoRange
  <2>1. explicit[t] \in Range /\ ~(explicit[t].size > 0)
    BY ShapeParts, <1>1, <1>5 DEF Placed
  <2> QED
    BY ShapeParts, <2>1 DEF Placed, Range
<1>6. \A t \in Tenants : config[t] \in Nat /\ explicit[t].size \in Nat
  BY <1>1, Zenon DEF Range
<1> QED
  BY <1>1, <1>2, <1>3, <1>4, <1>5, <1>6 DEF Table!IsLayout

-----------------------------------------------------------------------------
(* Step simulation *)

\* A record sent to a range the tenant has, or to the partition an exhausted
\* pool gives it, goes where the records of its key went before.
LEMMA KnownIsRoute ==
  ASSUME IInv, Shape, pc = "assign", UNCHANGED pool, Send(RangeOf(record[1])),
         RangeOf(record[1]) \in Range, RangeOf(record[1]).size > 0,
         \/ explicit[record[1]].size > 0
         \/ explicit[record[1]].size = 0 /\ pool[record[1]].size > 0
         \/ /\ explicit[record[1]].size = 0 /\ pool[record[1]].size = 0
            /\ poolNext = tableTotal /\ poolSize > 0
  PROVE  Table!Next
<1> DEFINE t == record[1]
           i == record[2]
           p == Target(record)
<1>1. record \in Keys /\ t \in Tenants /\ i \in Instruments /\ record = <<t, i>>
  BY Parts DEF TypeOK, Keys
<1>2. p \in Nat /\ In(p, RangeOf(t))
  BY <1>1, PickInRange, Zenon DEF Target
<1>3. /\ last' = [last EXCEPT ![record] = p] /\ seen' = seen \cup {record}
      /\ UNCHANGED <<reserved, total, tableTotal, config, explicit>>
  BY Zenon DEF Send, Target
<1>4. record \in seen => p = last[record]
  BY Parts DEF Sent
<1>5. Table!IsLayout(explicit, config, tableTotal)
  BY TableIsLayout, Zenon
<1>6. /\ tableTotal \in Nat /\ cursor \in Nat /\ poolNext \in Nat /\ cursor <= tableTotal /\ poolNext <= tableTotal
      /\ explicit[t] \in Range /\ pool[t] \in Range
  BY Parts, <1>1 DEF TypeOK
<1> HIDE DEF t, i, p
<1>7. /\ p \in 0 .. (tableTotal - 1)
      /\ \/ Table!In(p, explicit[t])
         \/ explicit[t].size = 0 /\ Table!In(p, pool[t])
         \/ explicit[t].size = 0 /\ pool[t].size = 0 /\ Table!NothingLeft /\ p \in Table!Rest
  <2>1. CASE explicit[t].size > 0
    <3>1. In(p, explicit[t]) /\ End(explicit[t]) <= cursor
      BY Parts, <2>1, <1>1, <1>2, ZenonT(30) DEF RangeOf, Layout, End
    <3> QED
      BY <3>1, <1>2, <1>6, InBelow, Zenon
  <2>2. CASE explicit[t].size = 0 /\ pool[t].size > 0
    <3>1. RangeOf(t) = pool[t]
      BY <2>2 DEF RangeOf
    <3>2. End(pool[t]) <= poolNext
      BY Parts, <2>2, <1>1, Zenon DEF Layout, End
    <3> QED
      BY <2>2, <3>1, <3>2, <1>2, <1>6, InBelow, Zenon
  <2>3. CASE explicit[t].size = 0 /\ pool[t].size = 0
    <3>1. poolNext = tableTotal /\ poolSize > 0 /\ RangeOf(t) = Fallback(t)
      BY <2>3 DEF t, RangeOf
    <3>2. Fallback(t).size = 1 /\ cursor <= Fallback(t).start /\ Fallback(t).start < tableTotal /\ Fallback(t) \in Range
      BY <1>1, <3>1, FallbackInPool, Zenon DEF IInv
    <3>3. cursor <= p /\ p < tableTotal
      BY <1>2, <1>6, <3>1, <3>2 DEF In, Range
    <3>4. p \in Table!Rest
      BY <1>2, <3>3, RestIsPool, Zenon
    <3>5. ASSUME NEW q \in Table!Rest PROVE \E u \in Tenants : Table!In(q, pool[u])
      <4>1. q \in Nat
        BY <1>6 DEF Table!Rest
      <4>2. cursor <= q /\ q < poolNext
        BY <4>1, <3>1, RestIsPool, Zenon
      <4>3. PICK u \in Tenants : In(q, pool[u])
        BY ShapeParts, <4>1, <4>2 DEF NoGap
      <4> QED
        BY <4>3 DEF In, Table!In, Table!End
    <3>6. Table!NothingLeft
      BY <3>5, Zenon DEF Table!NothingLeft
    <3>7. p \in 0 .. (tableTotal - 1)
      BY <1>2, <1>6, <3>3
    <3> QED
      BY <2>3, <3>4, <3>6, <3>7, Zenon
  <2> QED
    BY <2>1, <2>2, <2>3, ZenonT(30) DEF t
<1>8. Table!Route(t, i, p)
  BY <1>1, <1>3, <1>4, <1>5, <1>7, Zenon DEF Table!Route
<1> QED
  BY <1>1, <1>7, <1>8, Zenon DEF Table!Next

\* A range the pool gives a tenant is a share of the rest no one else has.
LEMMA NewIsRoute ==
  ASSUME IInv, Shape, AssignNew
  PROVE  Table!Next
<1> DEFINE t == record[1]
           i == record[2]
           range == NewRange(t)
           p == range.start + (InstrumentHash[i] % range.size)
<1>1. record \in Keys /\ t \in Tenants /\ i \in Instruments /\ record = <<t, i>>
  BY Parts DEF TypeOK, Keys
<1>2. /\ pc = "assign" /\ explicit[t].size = 0 /\ pool[t].size = 0 /\ remaining > 0
      /\ pool' = [pool EXCEPT ![t] = range]
      /\ last' = [last EXCEPT ![record] = p] /\ seen' = seen \cup {record}
      /\ UNCHANGED <<reserved, total, tableTotal, config, explicit>>
  BY Zenon DEF AssignNew, Send, IsPool
<1>3. /\ range \in Range /\ range.size > 0 /\ range.start = poolNext
      /\ poolNext + range.size \in poolNext .. tableTotal
  BY <1>1, <1>2, NewRangeFits, Zenon DEF IInv
<1>4. p \in Nat /\ In(p, range)
  BY <1>1, <1>3, PickInRange, Zenon
<1> HIDE DEF t, i, range, p
<1>5. /\ tableTotal \in Nat /\ cursor \in Nat /\ poolNext \in Nat /\ pool \in [Tenants -> Range]
      /\ cursor <= poolNext
  BY Parts, <1>2 DEF TypeOK, Building
<1>6. record \notin seen
  <2>1. poolNext # tableTotal
    BY <1>2, <1>5 DEF remaining
  <2> QED
    BY Parts, <2>1, <1>2, Zenon DEF Sent, t
<1>7. pool'[t] = range
  BY <1>1, <1>2, <1>5
<1>8. ASSUME NEW q \in range.start .. (End(range) - 1)
      PROVE  q \in Table!Rest /\ \A u \in Tenants \ {t} : ~Table!In(q, pool[u])
  <2>1. q \in Nat /\ poolNext <= q /\ q < tableTotal
    BY <1>3, <1>5 DEF End, Range
  <2>2. q \in Table!Rest
    BY <2>1, <1>5, RestIsPool
  <2>3. ASSUME NEW u \in Tenants PROVE ~Table!In(q, pool[u])
    <3>1. pool[u] \in Range /\ (pool[u].size > 0 => pool[u].start + pool[u].size <= poolNext)
      BY Parts, <1>5 DEF Layout
    <3> QED
      BY <3>1, <2>1, <1>5, NotInBelow, Zenon
  <2> QED
    BY <2>2, <2>3
<1>9. Table!Draw(t)
  BY <1>2, <1>3, <1>7, <1>8, Zenon DEF Table!Draw, Table!End, End
<1>10. Table!In(p, pool'[t]) /\ p \in 0 .. (tableTotal - 1)
  BY <1>3, <1>4, <1>5, <1>7 DEF In, Table!In, Table!End, Range
<1>11. Table!IsLayout(explicit, config, tableTotal)
  BY <1>2, TableIsLayout, Zenon
<1>12. Table!Route(t, i, p)
  BY <1>1, <1>2, <1>6, <1>9, <1>10, <1>11, Zenon DEF Table!Route
<1> QED
  BY <1>1, <1>10, <1>12, Zenon DEF Table!Next

\* Every step of the partitioner is a step of PartitionTable or a stutter.
LEMMA StepSimulation == IInv /\ Shape /\ [Next]_vars => [Table!Next]_Table!vars
<1> SUFFICES ASSUME IInv, Shape, [Next]_vars PROVE [Table!Next]_Table!vars
  BY Zenon
<1> USE PartitionerAssumption
<1>1. CASE UNCHANGED vars \/ Built \/ Panic
  BY <1>1, Zenon DEF vars, table, history, Built, Panic, Table!vars
<1>2. CASE Reload \/ Resize
  <2>1. /\ reserved' \in [Tenants -> Nat] /\ total' \in Nat \ {0}
        /\ UNCHANGED <<config, tableTotal, explicit, pool, last, seen>>
    BY Parts, <1>2 DEF Reload, Resize, table, history, TypeOK
  <2> QED
    BY <2>1, Zenon DEF Table!Next, Table!Change
<1>3. ASSUME NEW k \in Keys, Partition(k) PROVE [Table!Next]_Table!vars
  <2>1. CASE current /\ tableTotal = total
    BY <1>3, <2>1, Zenon DEF Partition, table, history, Table!vars
  <2>2. CASE ~(current /\ tableTotal = total)
    <3>1. /\ tableTotal' = total /\ config' = reserved /\ seen' = {}
          /\ explicit' = [t \in Tenants |-> NoRange] /\ pool' = [t \in Tenants |-> NoRange]
          /\ UNCHANGED <<reserved, total, last>>
      BY <1>3, <2>2, Zenon DEF Partition
    <3> QED
      BY <3>1, Zenon DEF Table!Next, Table!Take, Table!NoRange, NoRange
  <2> QED
    BY <2>1, <2>2, Zenon
<1>4. ASSUME NEW t \in Tenants, Place(t) PROVE [Table!Next]_Table!vars
  <2>1. /\ pc = "build" /\ UNCHANGED <<reserved, total, tableTotal, config, pool, last, seen>>
    BY <1>4, Zenon DEF Place, history
  <2>2. seen = {} /\ \A u \in Tenants : pool[u].size = 0
    BY Parts, <2>1, Zenon DEF Building
  <2>3. explicit' \in [Tenants -> Range]
    <3>1. TypeOK'
      BY <1>4, PlaceIInv, Zenon DEF IInv
    <3> QED
      BY <3>1 DEF TypeOK
  <2> QED
    BY <2>1, <2>2, <2>3, Zenon DEF Table!Next, Table!Arrange, Table!Range, Range
<1>5. /\ record[1] \in Tenants /\ explicit[record[1]] \in Range /\ pool[record[1]] \in Range
      /\ poolNext \in Nat /\ tableTotal \in Nat
  <2>1. record \in Keys /\ explicit \in [Tenants -> Range] /\ pool \in [Tenants -> Range]
        /\ poolNext \in Nat /\ tableTotal \in Nat
    BY Parts DEF TypeOK
  <2> QED
    BY <2>1, ZenonT(30) DEF Keys
<1>6. CASE AssignExplicit
  BY <1>5, <1>6, KnownIsRoute, Zenon DEF AssignExplicit, RangeOf
<1>7. CASE AssignPool
  BY <1>5, <1>7, KnownIsRoute DEF AssignPool, RangeOf, IsPool
<1>8. CASE AssignFallback
  <2>1. Fallback(record[1]) \in Range /\ Fallback(record[1]).size = 1
    BY <1>5, <1>8, FallbackInPool, Zenon DEF AssignFallback, IInv
  <2>2. poolNext = tableTotal
    BY <1>5, <1>8 DEF AssignFallback, remaining
  <2> QED
    BY <1>8, <2>1, <2>2, KnownIsRoute DEF AssignFallback, RangeOf, IsPool
<1>9. CASE AssignNew
  BY <1>9, NewIsRoute, Zenon
<1> QED
  BY <1>1, <1>2, <1>3, <1>4, <1>6, <1>7, <1>8, <1>9 DEF Next, Step

\* The empty table is the abstract one.
LEMMA InitSimulation == Init => Table!Init
<1> SUFFICES ASSUME Init PROVE Table!Init
  OBVIOUS
<1> QED
  BY PartitionerAssumption DEF Init, Table!Init, Table!NoRange, NoRange, Table!Keys, Keys

\* What the partitioner does, with its loop, cursors, caches and reloads in
\* the middle of a construction, is what PartitionTable promises.
THEOREM Implements == Spec => ImplementsTable
<1>1. Spec => []Shape
  <2>1. Init => Shape
    BY InitShape
  <2>2. IInv /\ Shape /\ [Next]_vars => Shape'
    BY NextShape
  <2> QED
    BY <2>1, <2>2, Invariance, PTL DEF Spec
<1>2. Init => Table!Init
  BY InitSimulation
<1>3. IInv /\ Shape /\ [Next]_vars => [Table!Next]_Table!vars
  BY StepSimulation
<1> QED
  BY <1>1, <1>2, <1>3, Invariance, PTL DEF Spec, ImplementsTable, Table!Spec
=============================================================================
