--------------------------- MODULE MCTenantOperator ---------------------------
(* Instances of TenantOperator for TLC. *)
EXTENDS TenantOperator, TLC

CONSTANTS t1, t2, w1, w2

\* The publisher reports one range, at replica headroom.
Fixed == {[start |-> 1, count |-> 2]}

\* The publisher may report another range; their starts and counts differ.
Moving == {[start |-> 1, count |-> 1], [start |-> 2, count |-> 2]}

\* All combinations of the two signals, and the one in which both are normal.
AllReadings == [lagHigh: BOOLEAN, latencyHigh: BOOLEAN]
Normal == [lagHigh: {FALSE}, latencyHigh: {FALSE}]

\* What an isolated tenant has, and the least it can have: its ConfigMap.
AllWorkloads == <<"ingestion", "processor", "service">>
NoWorkload == <<>>

\* Operator processes are interchangeable, and so are tenants.
FullSymmetry == Permutations(Workers) \cup Permutations(Tenants)
=============================================================================
