--------------------------- MODULE PartitionLayout ---------------------------
(***************************************************************************)
(* Which partitions a mapping of partition counts reserves for which       *)
(* tenant, as a relation.  newReservationTable computes it with a loop and *)
(* a cursor; the operator and the processors only see its results.         *)
(* Tenants are numbers, in the order sort.Strings puts their IDs in.       *)
(***************************************************************************)
EXTENDS Naturals

CONSTANTS Tenants

\* A range of size 0 stands for no range.
Range == [start: Nat, size: Nat]
NoRange == [start |-> 0, size |-> 0]
End(r) == r.start + r.size
In(p, r) == r.start <= p /\ p < End(r)

Capacity(n) == IF n > 1 THEN n - 1 ELSE n

\* Where the tenants that come before t in the order of their IDs end.
StartsAt(t, s, rs) ==
  /\ \A u \in Tenants : u < t /\ rs[u].size > 0 => End(rs[u]) <= s
  /\ s = 0 \/ \E u \in Tenants : u < t /\ rs[u].size > 0 /\ End(rs[u]) = s

\* The ranges rs are what the mapping c gives on a topic of n partitions.
IsLayout(rs, c, n) ==
  \A t \in Tenants :
    IF c[t] = 0 THEN rs[t] = NoRange
    ELSE \E s \in 0 .. Capacity(n) :
           /\ StartsAt(t, s, rs)
           /\ rs[t] = IF s = Capacity(n) THEN NoRange
                      ELSE [start |-> s,
                            size |-> IF s + c[t] > Capacity(n) THEN Capacity(n) - s ELSE c[t]]
=============================================================================
