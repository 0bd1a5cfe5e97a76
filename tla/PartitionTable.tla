---------------------------- MODULE PartitionTable ----------------------------
(***************************************************************************)
(* What the reservation of partitions promises, without the loops, caches  *)
(* and cursors that compute it.  A mapping gives tenants a number of       *)
(* partitions.  A table is taken from the mapping and the size of the      *)
(* topic at one moment; until the next table is taken                      *)
(*   - a tenant of the mapping has the partitions that follow those of the *)
(*     tenants before it, as many as it asks for or as are left when one   *)
(*     partition is kept for everyone else (IsLayout);                     *)
(*   - any other tenant has a share of the rest which no one else draws    *)
(*     from, or, once nothing is left to share out, uses one partition of  *)
(*     the rest;                                                           *)
(*   - all records of a key go to one partition.                           *)
(* TenantPartitioner implements this specification.                        *)
(***************************************************************************)
EXTENDS PartitionLayout

CONSTANTS Instruments, NoPartition

VARIABLES
  counts,  \* the mapping in force; 0: the tenant is not in it
  total,   \* partitions of the topic
  table,   \* the mapping and the size the table was taken from
  ranges,  \* partitions of the tenants in the mapping
  shares,  \* partitions of the tenants that are not
  where,   \* the partition of the latest record of each key
  routed   \* keys of the records routed by this table

vars == <<counts, total, table, ranges, shares, where, routed>>

Keys == Tenants \X Instruments

\* The partitions no tenant of the mapping has.
Rest == {p \in 0 .. (table.total - 1) : \A t \in Tenants : ranges[t].size > 0 => p >= End(ranges[t])}

Init ==
  /\ counts \in [Tenants -> Nat]
  /\ total \in Nat \ {0}
  /\ table = [counts |-> counts, total |-> 0]
  /\ ranges = [t \in Tenants |-> NoRange]
  /\ shares = [t \in Tenants |-> NoRange]
  /\ where = [k \in Keys |-> NoPartition]
  /\ routed = {}

\* The mapping or the topic changes; the table does not.
Change ==
  /\ counts' \in [Tenants -> Nat]
  /\ total' \in Nat \ {0}
  /\ UNCHANGED <<table, ranges, shares, where, routed>>

\* A new table of what is in force now.
Take ==
  /\ table' = [counts |-> counts, total |-> total]
  /\ ranges' = [t \in Tenants |-> NoRange]
  /\ shares' = [t \in Tenants |-> NoRange]
  /\ routed' = {}
  /\ UNCHANGED <<counts, total, where>>

\* Ranges are laid out before the table routes its first record.
Arrange ==
  /\ routed = {}
  /\ \A t \in Tenants : shares[t].size = 0
  /\ ranges' \in [Tenants -> Range]
  /\ UNCHANGED <<counts, total, table, shares, where, routed>>

\* A share of the rest that no one else has.
Draw(t) ==
  LET r == shares'[t] IN
  /\ shares[t].size = 0 /\ r.size > 0
  /\ shares' = [shares EXCEPT ![t] = r]
  /\ \A p \in r.start .. (End(r) - 1) : p \in Rest /\ \A u \in Tenants \ {t} : ~In(p, shares[u])

NothingLeft == \A p \in Rest : \E u \in Tenants : In(p, shares[u])

\* A record of tenant t goes to partition p.
Route(t, i, p) ==
  /\ IsLayout(ranges, table.counts, table.total)
  /\ <<t, i>> \in routed => p = where[<<t, i>>]
  /\ \/ In(p, ranges[t]) /\ UNCHANGED shares
     \/ /\ ranges[t].size = 0
        /\ \/ In(p, shares[t]) /\ UNCHANGED shares
           \/ Draw(t) /\ In(p, shares'[t])
           \/ shares[t].size = 0 /\ NothingLeft /\ p \in Rest /\ UNCHANGED shares
  /\ where' = [where EXCEPT ![<<t, i>>] = p]
  /\ routed' = routed \cup {<<t, i>>}
  /\ UNCHANGED <<counts, total, table, ranges>>

Next ==
  \/ Change
  \/ Take
  \/ Arrange
  \/ \E t \in Tenants, i \in Instruments, p \in 0 .. (table.total - 1) : Route(t, i, p)

Spec == Init /\ [][Next]_vars
=============================================================================
