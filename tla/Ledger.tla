-------------------------------- MODULE Ledger --------------------------------
(***************************************************************************)
(* What the processors promise to whoever reads the two tables of the      *)
(* ledger, without consumers, retries, redeliveries or late statements:    *)
(* every transaction gets one id, and the state of a key is the fold of    *)
(* its transactions in the order of their ids, none of them left out.      *)
(* The promise is given up, key by key, once a transaction of the key has  *)
(* gone to the dead-letter topic.                                          *)
(***************************************************************************)
EXTENDS Naturals

CONSTANTS Events, Keys, KeyOf

VARIABLES
  rows,   \* the id of each recorded transaction, 0 when it is not recorded
  book,   \* the ids folded into the state of each key
  given   \* the keys of which a transaction was given up

vars == <<rows, book, given>>

Ids(k) == {rows[e] : e \in {f \in Events : KeyOf[f] = k /\ rows[f] # 0}}

\* The id is later than all that the state of k covers.
After(k, id) == \A b \in book[k] : id > b
Missing(k) == {id \in Ids(k) : After(k, id)}

Init ==
  /\ rows = [e \in Events |-> 0]
  /\ book = [k \in Keys |-> {}]
  /\ given \subseteq Keys

\* A transaction is recorded once, under an id of its own and after all that
\* the state already covers.
Record(e) ==
  /\ rows[e] = 0
  /\ rows'[e] \in Nat \ {rows[f] : f \in Events}
  /\ rows' = [rows EXCEPT ![e] = rows'[e]]
  /\ KeyOf[e] \notin given => After(KeyOf[e], rows'[e])
  /\ UNCHANGED <<book, given>>

\* The oldest transaction the state lacks is folded into it.
Fold(k) ==
  /\ k \notin given
  /\ \E id \in Missing(k) :
       /\ \A other \in Missing(k) : id <= other
       /\ book' = [book EXCEPT ![k] = @ \cup {id}]
  /\ UNCHANGED <<rows, given>>

GiveUp(k) ==
  /\ given' = given \cup {k}
  /\ UNCHANGED <<rows, book>>

\* What is left of the promise: the state covers more than it did.
Rewrite(k) ==
  /\ k \in given
  /\ \E ids \in SUBSET Ids(k) :
       /\ \E id \in ids : After(k, id)
       /\ book' = [book EXCEPT ![k] = ids]
  /\ UNCHANGED <<rows, given>>

Next ==
  \/ \E e \in Events : Record(e)
  \/ \E k \in Keys : Fold(k) \/ GiveUp(k) \/ Rewrite(k)

Spec == Init /\ [][Next]_vars
=============================================================================
