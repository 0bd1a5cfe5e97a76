------------------------------ MODULE MCConsumer ------------------------------
(* Instances of Consumer for TLC. *)
EXTENDS ConsumerLedger, TLC

CONSTANTS c1, c2, e1, e2, k1, p1

\* Two events of one key.
OneKey == (e1 :> k1) @@ (e2 :> k1)

\* One partition; the first event was produced twice.
OnePartition == p1 :> <<e1, e2, e1>>

\* One partition with a record that does not decode.
BadRecord == p1 :> <<e1, Undecodable, e2>>

\* Consumers of the same kind are interchangeable.
Symmetry == Permutations(Group) \cup Permutations(Manual)
=============================================================================
