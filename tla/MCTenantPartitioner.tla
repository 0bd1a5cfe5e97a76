------------------------- MODULE MCTenantPartitioner -------------------------
(***************************************************************************)
(* Instances of TenantPartitioner.  Hashes differ modulo two and modulo    *)
(* three, so that both instruments and the tenants of an exhausted pool    *)
(* spread over their ranges.                                               *)
(***************************************************************************)
EXTENDS TenantPartitioner

ThreeTenants == 1 .. 3
TwoTenants == 1 .. 2
TenantHashes == [t \in Tenants |-> t]
InstrumentHashes == [i \in Instruments |-> IF i = CHOOSE j \in Instruments : TRUE THEN 1 ELSE 0]

\* No reservation, one for the whole topic, two, and more than the topic holds.
SomeConfigs ==
  { [t \in Tenants |-> 0],
    [t \in Tenants |-> IF t = 2 THEN 4 ELSE 0],
    [t \in Tenants |-> IF t < 3 THEN 1 ELSE 0],
    [t \in Tenants |-> 2] }
NoReservation == { [t \in Tenants |-> 0] }
=============================================================================
