---------------------------- MODULE ConsumerLedger ----------------------------
(***************************************************************************)
(* Consumer implements Ledger: the two tables are Ledger's variables, and  *)
(* the promise is given up for a key one of whose records went to the      *)
(* dead-letter topic, and for a key whose records are on several           *)
(* partitions, which are consumed in no common order.                      *)
(***************************************************************************)
EXTENDS Consumer

OfKey(p, o, k) == Record(p, o) # Undecodable /\ KeyOf[Record(p, o)] = k

OnOnePartition(k) ==
  \A p, q \in Partitions : \A i \in DOMAIN Log[p], j \in DOMAIN Log[q] :
    OfKey(p, i, k) /\ OfKey(q, j, k) => p = q

DeadLettered(k) == \E p \in Partitions : \E o \in DOMAIN Log[p] : <<p, o>> \in dlq /\ OfKey(p, o, k)

GivenUp == {k \in Keys : DeadLettered(k) \/ ~OnOnePartition(k)}

Tables == INSTANCE Ledger WITH rows <- transactions, book <- [k \in Keys |-> Folded(k)], given <- GivenUp

\* Consumers, Reconcile and the two repositories together keep the promise of
\* Ledger.  As long as a key's events are on one partition and none of them
\* went to the dead-letter topic, its state is the fold of its rows, one after
\* the other and none left out, however many consumers work on the partition
\* at once and whatever is redelivered, retried or executed late.
ImplementsLedger == Tables!Spec
=============================================================================
