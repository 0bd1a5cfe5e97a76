------------------------- MODULE ConsumerLedgerProofs -------------------------
(***************************************************************************)
(* Proof that Consumer implements Ledger, for any consumers, partitions,   *)
(* log, keys and bounds.                                                   *)
(*                                                                         *)
(* The argument is about order.  A consumer calls Reconcile for a record   *)
(* only when every earlier record of the partition is handled, so as long  *)
(* as the events of a key are on one partition and none was dead-lettered, *)
(* an event is started only when those before it are covered.  Hence at    *)
(* most one event of the key is started and not covered (OnlyOne), however *)
(* many consumers have it in hand and however many statements are pending, *)
(* and every pending statement is about that event or comes too late.      *)
(***************************************************************************)
EXTENDS ConsumerLedger, ConsumerProofs

\* Something is, or may still be, recorded of e.
Started(e) == \E x \in Issued : x[1] = e

\* Every event of the key that comes before an occurrence of e is covered.
Reached(e) ==
  \E p \in Partitions : \E n \in DOMAIN Log[p] :
    /\ Record(p, n) = e
    /\ \A o \in 1..(n - 1) : OfKey(p, o, KeyOf[e]) => Covered(Record(p, o))

InOrder == \A e \in Events : Started(e) /\ KeyOf[e] \notin GivenUp => Reached(e)

\* A row that is still to be written is past the watermark.
InsertsAfter ==
  \A x \in Inserts : ~HasRow(x[1]) /\ KeyOf[x[1]] \notin GivenUp => x[2] > states[KeyOf[x[1]]].last

\* A pending upsert is stale or adds one transaction to the state there is.
UpsertsExtend ==
  \A x \in Upserts : x[1] \notin GivenUp =>
    \/ x[2].last <= states[x[1]].last
    \/ x[2].applied = Append(states[x[1]].applied, x[2].last)

LedgerInv == ConInv /\ IdsGood /\ InOrder /\ InsertsAfter /\ UpsertsExtend

\* The conjuncts of the invariant, for steps that need one of them.
LEMMA LedgerParts == LedgerInv => ConInv /\ IdsGood /\ InOrder /\ InsertsAfter /\ UpsertsExtend
  BY DEF LedgerInv

\* What an event of a step may be: one that is its turn, unless the promise is
\* given up for its key.
InTurn(e) == KeyOf[e] \notin GivenUp => Reached(e)

-----------------------------------------------------------------------------
(* The order of the events of a key *)

\* The offsets of a log.
LEMMA LogDomain ==
  ASSUME NEW p \in Partitions
  PROVE  /\ EndOfLog(p) \in Nat \ {0}
         /\ DOMAIN Log[p] = 1..(EndOfLog(p) - 1)
<1>1. Log[p] \in Seq(Events \cup {Undecodable})
  BY ConsumerAssumption
<1> QED
  BY <1>1 DEF EndOfLog

\* An event of the topic is a record that decodes.
LEMMA EventOfKey ==
  ASSUME NEW e \in Events, NEW p, NEW n, Record(p, n) = e
  PROVE  OfKey(p, n, KeyOf[e]) /\ KeyOf[e] \in Keys
  BY ConsumerAssumption, ReconcilerAssumption DEF OfKey

\* Of two events of a key that are started, one is covered.
LEMMA OnlyOne ==
  ASSUME InOrder, NEW e \in Events, NEW f \in Events, KeyOf[f] = KeyOf[e], KeyOf[e] \notin GivenUp,
         Started(e), Started(f), ~Covered(e), ~Covered(f)
  PROVE  e = f
<1>1. PICK p \in Partitions : \E n \in DOMAIN Log[p] :
        /\ Record(p, n) = e
        /\ \A o \in 1..(n - 1) : OfKey(p, o, KeyOf[e]) => Covered(Record(p, o))
  BY DEF InOrder, Reached
<1>2. PICK n \in DOMAIN Log[p] :
        /\ Record(p, n) = e
        /\ \A o \in 1..(n - 1) : OfKey(p, o, KeyOf[e]) => Covered(Record(p, o))
  BY <1>1
<1>3. PICK q \in Partitions : \E m \in DOMAIN Log[q] :
        /\ Record(q, m) = f
        /\ \A o \in 1..(m - 1) : OfKey(q, o, KeyOf[e]) => Covered(Record(q, o))
  BY DEF InOrder, Reached
<1>4. PICK m \in DOMAIN Log[q] :
        /\ Record(q, m) = f
        /\ \A o \in 1..(m - 1) : OfKey(q, o, KeyOf[e]) => Covered(Record(q, o))
  BY <1>3
<1>5. OfKey(p, n, KeyOf[e]) /\ OfKey(q, m, KeyOf[e]) /\ KeyOf[e] \in Keys
  BY <1>2, <1>4, EventOfKey
<1>6. p = q
  BY <1>5 DEF GivenUp, OnOnePartition
<1>7. n \in Nat \ {0} /\ m \in Nat \ {0}
  BY LogDomain
<1>8. ~(n < m)
  <2> SUFFICES ASSUME n < m PROVE FALSE
    OBVIOUS
  <2>1. n \in 1..(m - 1)
    BY <1>7
  <2> QED
    BY <1>2, <1>4, <1>5, <1>6, <2>1
<1>9. ~(m < n)
  <2> SUFFICES ASSUME m < n PROVE FALSE
    OBVIOUS
  <2>1. m \in 1..(n - 1)
    BY <1>7
  <2> QED
    BY <1>2, <1>4, <1>5, <1>6, <2>1, Zenon
<1>10. n = m
  BY <1>7, <1>8, <1>9
<1> QED
  BY <1>2, <1>4, <1>6, <1>10, Zenon

\* An event keeps its turn.
LEMMA ReachedKept ==
  ASSUME TypeOK, [RecNext]_recVars, NEW e \in Events, Reached(e)
  PROVE  Reached(e)'
<1>1. PICK p \in Partitions : \E n \in DOMAIN Log[p] :
        /\ Record(p, n) = e
        /\ \A o \in 1..(n - 1) : OfKey(p, o, KeyOf[e]) => Covered(Record(p, o))
  BY DEF Reached
<1>2. PICK n \in DOMAIN Log[p] :
        /\ Record(p, n) = e
        /\ \A o \in 1..(n - 1) : OfKey(p, o, KeyOf[e]) => Covered(Record(p, o))
  BY <1>1
<1>3. ASSUME NEW o \in 1..(n - 1), OfKey(p, o, KeyOf[e]) PROVE Covered(Record(p, o))'
  <2>1. o \in Offsets /\ o < EndOfLog(p)
    BY LogDomain DEF Offsets
  <2>2. Record(p, o) \in Events
    BY <1>3, <2>1, RecordType DEF OfKey
  <2>3. Covered(Record(p, o))
    BY <1>2, <1>3
  <2> QED
    BY <2>2, <2>3, CoveredKept DEF Record
<1> QED
  BY <1>2, <1>3 DEF Reached, OfKey, Record

\* The record a consumer turns to is in turn.
LEMMA NextInTurn ==
  ASSUME ConInv, NEW c \in Callers, NEW p \in Partitions, next[c][p] < end[c][p],
         Record(p, next[c][p]) \in Events
  PROVE  InTurn(Record(p, next[c][p]))
<1> DEFINE n == next[c][p]
           e == Record(p, n)
<1> SUFFICES ASSUME KeyOf[e] \notin GivenUp PROVE Reached(e)
  BY DEF InTurn
<1>1. n \in Offsets /\ n < EndOfLog(p)
  BY InLog
<1>2. n \in DOMAIN Log[p]
  BY <1>1, LogDomain DEF Offsets
<1>3. UpTo(p, Done, n)
  BY ConParts DEF Consuming, Progress, Fits
<1>4. KeyOf[e] \in Keys
  BY ReconcilerAssumption
<1>5. ASSUME NEW o \in 1..(n - 1), OfKey(p, o, KeyOf[e]) PROVE Covered(Record(p, o))
  <2>1. <<p, o>> \in Done
    BY <1>3 DEF UpTo
  <2>2. Handled(p, o)
    BY <2>1, Zenon DEF Done
  <2>3. o \in DOMAIN Log[p]
    BY <1>1, LogDomain DEF Offsets
  <2>4. <<p, o>> \notin dlq
    BY <1>4, <1>5, <2>3, Zenon DEF GivenUp, DeadLettered
  <2> QED
    BY <2>2, <2>4 DEF Handled
<1> QED
  BY <1>2, <1>5 DEF Reached

-----------------------------------------------------------------------------
(* What a step of the consumers does to the tables *)

\* A step of the ledger's side: what it starts is in turn.
Reconciles == dlq' = dlq /\ (Effect \/ \E e \in Events : Draws(e) /\ InTurn(e))

\* A record goes to the dead-letter topic.
Publishes ==
  /\ UNCHANGED recVars
  /\ \E c \in Callers : run[c] = "dlq" /\ dlq' = dlq \cup {CurrentRecord(c)}

\* A step outside Reconcile.
LEMMA NoEffect ==
  ASSUME UNCHANGED recVars
  PROVE  Effect
  BY DEF recVars, store, call, Effect, Quiet, NoneAdded, Inserts, Upserts, OwnInserts, OwnUpserts

\* A call of Reconcile for an event in turn.
LEMMA CallReconciles ==
  ASSUME TypeOK, NEW c \in Callers, NEW e \in Events, Call(c, e), InTurn(e), UNCHANGED dlq
  PROVE  Reconciles
<1>1. Draws(e) \/ Quiet
  BY CallEffect
<1> QED
  BY <1>1 DEF Reconciles, Effect

\* Steps of the record loop.
LEMMA RunKinds ==
  ASSUME ConInv, NEW c \in Callers, Start(c) \/ RunStep(c)
  PROVE  Reconciles \/ Publishes
<1>1. TypeOK /\ RecInv
  BY ConParts DEF RecInv
<1>2. CASE Start(c) \/ Poll(c) \/ Fetched(c) \/ BatchDone(c) \/ CallSucceeded(c) \/ GiveUp(c)
  <2>1. UNCHANGED <<recVars, dlq>>
    BY <1>2, Zenon DEF Start, Poll, Fetched, BatchDone, CallSucceeded, GiveUp
  <2> QED
    BY <2>1, NoEffect DEF Reconciles
<1>3. ASSUME NEW p \in Partitions, Take(c, p) PROVE Reconciles
  <2>1. next[c][p] < end[c][p] /\ UNCHANGED dlq
    BY <1>3 DEF Take
  <2>2. CASE Record(p, next[c][p]) = Undecodable
    <3>1. UNCHANGED recVars
      BY <1>3, <2>2 DEF Take
    <3> QED
      BY <2>1, <3>1, NoEffect, Zenon DEF Reconciles
  <2>3. CASE Record(p, next[c][p]) # Undecodable
    <3>1. Call(c, Record(p, next[c][p]))
      BY <1>3, <2>3, Zenon DEF Take
    <3>2. Record(p, next[c][p]) \in Events
      BY <2>1, <2>3, TakenRecord, Zenon
    <3>3. InTurn(Record(p, next[c][p]))
      BY <2>1, <3>2, NextInTurn
    <3> QED
      BY <1>1, <2>1, <3>1, <3>2, <3>3, CallReconciles, Zenon
  <2> QED
    BY <2>2, <2>3, Zenon
<1>4. CASE InCall(c)
  <2>1. UNCHANGED dlq /\ (Reconcile(c) \/ Fails(c))
    BY <1>4 DEF InCall, conVars
  <2>2. Effect
    BY <1>1, <2>1, ReconcileEffect, LeaveEffect, Zenon DEF Effect
  <2> QED
    BY <2>1, <2>2 DEF Reconciles
<1>5. CASE Retry(c)
  <2>1. run[c] = "reconcile" /\ Call(c, event[c]) /\ UNCHANGED dlq
    BY <1>5, Zenon DEF Retry
  <2>2. next[c][current[c]] < end[c][current[c]] /\ event[c] = Record(current[c], next[c][current[c]])
    BY ConParts, <2>1, Zenon DEF Consuming, Working
  <2>3. current[c] \in Partitions /\ event[c] \in Events
    BY ConParts, <1>1, Zenon DEF ConsumerTypeOK, TypeOK
  <2>4. InTurn(event[c])
    BY <2>2, <2>3, NextInTurn
  <2> QED
    BY <1>1, <2>1, <2>3, <2>4, CallReconciles, Zenon
<1>6. CASE PublishToDLQ(c)
  BY <1>6 DEF PublishToDLQ, Publishes
<1> QED
  BY <1>2, <1>3, <1>4, <1>5, <1>6, Zenon DEF RunStep

\* All steps.
LEMMA StepKinds ==
  ASSUME ConInv, [Next]_vars
  PROVE  Reconciles \/ Publishes
<1>1. TypeOK /\ RecInv
  BY ConParts DEF RecInv
<1>2. ASSUME UNCHANGED <<recVars, dlq>> PROVE Reconciles
  BY <1>2, NoEffect DEF Reconciles
<1>3. CASE UNCHANGED vars
  BY <1>2, <1>3 DEF vars, conVars
<1>4. ASSUME NEW c \in Callers, Crash(c) PROVE Reconciles
  <2>1. Dies(c) /\ UNCHANGED dlq
    BY <1>4 DEF Crash
  <2>2. Effect
    BY <1>1, <2>1, LeaveEffect DEF Effect
  <2> QED
    BY <2>1, <2>2 DEF Reconciles
<1>5. ASSUME NEW c \in Callers, Cancel(c) \/ PollReturns(c) PROVE Reconciles
  <2>1. UNCHANGED <<recVars, dlq>>
    BY <1>5, Zenon DEF Cancel, PollReturns
  <2> QED
    BY <1>2, <2>1
<1>6. ASSUME NEW c \in Callers, PublishToDLQFails(c) PROVE Reconciles \/ Publishes
  <2>1. run[c] = "dlq" /\ UNCHANGED recVars /\ (dlq' = dlq \/ dlq' = dlq \cup {CurrentRecord(c)})
    BY <1>6, Zenon DEF PublishToDLQFails
  <2> QED
    BY <1>2, <2>1 DEF Publishes
<1>7. ASSUME NEW p \in Partitions, NEW c \in Group, Join(p, c) \/ Rebalance(p, c) PROVE Reconciles
  <2>1. UNCHANGED <<recVars, dlq>>
    BY <1>7, Zenon DEF Join, Rebalance, Assign
  <2> QED
    BY <1>2, <2>1
<1>8. ASSUME NEW p \in Partitions, AutoCommit(p) PROVE Reconciles
  <2>1. UNCHANGED <<recVars, dlq>>
    BY <1>8, Zenon DEF AutoCommit
  <2> QED
    BY <1>2, <2>1
<1>9. CASE (LateInsert \/ LateUpsert) /\ UNCHANGED conVars
  <2>1. Effect /\ UNCHANGED dlq
    BY <1>1, <1>9, LateEffect, Zenon DEF conVars
  <2> QED
    BY <2>1 DEF Reconciles
<1> QED
  BY <1>3, <1>4, <1>5, <1>6, <1>7, <1>8, <1>9, RunKinds, Zenon DEF Next, Environment

-----------------------------------------------------------------------------
(* The invariant *)

\* What the types and the fold say of the rows and of the state of a key.
LEMMA RowFacts ==
  ASSUME ConInv
  PROVE  /\ transactions \in [Events -> Nat] /\ sequence \in Nat /\ states \in [Keys -> ReconciledStates]
         /\ \A k \in Keys : states[k].last \in Nat /\ states[k].applied \in Seq(Nat)
         /\ \A e \in Events : KeyOf[e] \in Keys
         /\ \A x \in Inserts : x[1] \in Events /\ x[2] \in Nat \ {0} /\ x = <<x[1], x[2]>>
         /\ \A x \in Upserts : x[1] \in Keys /\ x[2] \in ReconciledStates /\ x[2].last \in Nat
<1>1. RecInv /\ TypeOK
  BY ConParts DEF RecInv
<1>2. Inserts \subseteq Events \X (Nat \ {0}) /\ Upserts \subseteq Keys \X ReconciledStates
  BY <1>1, StatementTypes
<1>3. transactions \in [Events -> Nat] /\ sequence \in Nat /\ states \in [Keys -> ReconciledStates]
  BY <1>1 DEF TypeOK
<1>4. \A k \in Keys : states[k].last \in Nat /\ states[k].applied \in Seq(Nat)
  BY <1>3 DEF ReconciledStates
<1>5. \A x \in Upserts : x[1] \in Keys /\ x[2] \in ReconciledStates /\ x[2].last \in Nat
  BY <1>2 DEF ReconciledStates
<1>6. \A x \in Inserts : x[1] \in Events /\ x[2] \in Nat \ {0} /\ x = <<x[1], x[2]>>
  BY <1>2
<1> QED
  BY <1>3, <1>4, <1>5, <1>6, ReconcilerAssumption, Zenon

\* An event with a row past the watermark of its key.
Open(e) == HasRow(e) /\ transactions[e] > states[KeyOf[e]].last

\* Rows and pending INSERTs are starts, and an open event is not covered.
LEMMA Starts ==
  ASSUME ConInv
  PROVE  /\ \A e \in Events : HasRow(e) => Started(e)
         /\ \A x \in Inserts : Started(x[1])
         /\ \A e \in Events : Open(e) => Started(e) /\ ~Covered(e)
<1>1. RecInv
  BY DEF ConInv
<1>2. \A e \in Events : HasRow(e) => Started(e)
  BY <1>1, IssuedTypes, Zenon DEF Started
<1>3. \A x \in Inserts : Started(x[1])
  BY DEF Started, Issued
<1>4. \A e \in Events : Open(e) => ~Covered(e)
  BY RowFacts DEF Open, Covered
<1> QED
  BY <1>2, <1>3, <1>4 DEF Open

\* The watermark of a pending upsert that is not stale is an open row.
LEMMA UpsertOpen ==
  ASSUME ConInv, NEW x \in Upserts, x[2].last > states[x[1]].last
  PROVE  \E e \in Events : KeyOf[e] = x[1] /\ Open(e) /\ transactions[e] = x[2].last
<1>1. x[1] \in Keys /\ x[2] \in ReconciledStates /\ x[2].last \in Nat /\ states[x[1]].last \in Nat
  BY RowFacts
<1>2. GoodState(transactions, x[1], x[2])
  BY StatementTypes DEF ConInv
<1>3. x[2].last # 0
  BY <1>1
<1>4. PICK e \in Events : KeyOf[e] = x[1] /\ transactions[e] # 0 /\ transactions[e] = x[2].last
  BY <1>1, <1>2, <1>3, LastIsRow
<1> QED
  BY <1>4 DEF Open, HasRow

\* A watermark is an id that was issued.
LEMMA BelowSequence ==
  ASSUME ConInv, IdsGood, NEW k \in Keys
  PROVE  states[k].last < sequence
<1>1. RecInv /\ states[k] \in ReconciledStates /\ states[k].last \in Nat /\ sequence \in Nat \ {0}
  BY RecParts, ConParts, RowFacts, Zenon DEF TypeOK
<1>2. CASE states[k].last = 0
  BY <1>1, <1>2
<1>3. CASE states[k].last # 0
  <2>1. GoodState(transactions, k, states[k])
    BY RecParts, <1>1, Zenon DEF StatesGood
  <2>2. PICK e \in Events : KeyOf[e] = k /\ transactions[e] # 0 /\ transactions[e] = states[k].last
    BY <1>1, <1>3, <2>1, LastIsRow
  <2>3. <<e, transactions[e]>> \in Issued
    BY <1>1, <2>2, IssuedTypes DEF HasRow
  <2> QED
    BY <2>2, <2>3 DEF IdsGood
<1> QED
  BY <1>2, <1>3

\* Promises are only given up.
LEMMA GivenUpGrows ==
  ASSUME dlq \subseteq dlq'
  PROVE  GivenUp \subseteq GivenUp'
<1>1. \A k : DeadLettered(k) => DeadLettered(k)'
  BY DEF DeadLettered, OfKey, Record
<1>2. \A k : OnOnePartition(k)' <=> OnOnePartition(k)
  BY DEF OnOnePartition, OfKey, Record
<1> QED
  BY <1>1, <1>2, Zenon DEF GivenUp

\* Events start in turn.
LEMMA InOrderStep ==
  ASSUME LedgerInv, [RecNext]_recVars, GivenUp \subseteq GivenUp', Effect \/ \E e \in Events : Draws(e) /\ InTurn(e)
  PROVE  InOrder'
<1> SUFFICES ASSUME NEW e \in Events, Started(e)', KeyOf[e] \notin GivenUp PROVE Reached(e)'
  BY DEF InOrder
<1>1. TypeOK /\ RecInv
  BY ConParts, LedgerParts DEF RecInv
<1>2. Started(e) \/ InTurn(e)
  <2>1. CASE Effect
    BY <1>1, <2>1, IssuedStep, Zenon DEF Started
  <2>2. ASSUME NEW f \in Events, Draws(f), InTurn(f) PROVE Started(e) \/ InTurn(e)
    <3>1. Issued' \subseteq Issued \cup {<<f, sequence>>}
      BY <1>1, <2>2, IssuedStep, Zenon
    <3> QED
      BY <2>2, <3>1 DEF Started
  <2> QED
    BY <2>1, <2>2
<1>3. Reached(e)
  BY LedgerParts, <1>2, Zenon DEF InOrder, InTurn
<1> QED
  BY <1>1, <1>3, ReachedKept, Zenon

\* An upsert that succeeds closes the only open event of a key that is not
\* given up: no INSERT for the key is pending, and no other upsert is ahead.
LEMMA UpsertAlone ==
  ASSUME LedgerInv, NEW k \in Keys \ GivenUp, NEW state \in ReconciledStates, Upserting(k, state)
  PROVE  /\ state.last > states[k].last
         /\ \E e \in Events :
              /\ KeyOf[e] = k /\ Open(e) /\ transactions[e] = state.last
              /\ \A f \in Events : KeyOf[f] = k /\ Started(f) /\ ~Covered(f) => f = e
<1>1. ConInv /\ InOrder
  BY DEF LedgerInv
<1>2. <<k, state>> \in Upserts /\ states[k].last < state.last
  BY DEF Upserting, UpsertRow, Advances
<1>3. states[k].last \in Nat /\ state.last \in Nat
  BY <1>1, RowFacts, Zenon DEF ReconciledStates
<1>4. state.last > states[k].last
  BY <1>2, <1>3, Zenon
<1>5. PICK e \in Events : KeyOf[e] = k /\ Open(e) /\ transactions[e] = state.last
  BY <1>1, <1>2, <1>4, UpsertOpen, Zenon
<1>6. Started(e) /\ ~Covered(e)
  BY <1>1, <1>5, Starts, Zenon
<1>7. \A f \in Events : KeyOf[f] = k /\ Started(f) /\ ~Covered(f) => f = e
  BY <1>1, <1>5, <1>6, OnlyOne, Zenon
<1> QED
  BY <1>4, <1>5, <1>7

\* Rows still to be written stay past the watermark.
LEMMA InsertsStep ==
  ASSUME LedgerInv, RowsKept, GivenUp \subseteq GivenUp', Effect \/ \E e \in Events : Draws(e)
  PROVE  InsertsAfter'
<1> SUFFICES ASSUME NEW x \in Inserts', ~HasRow(x[1])', KeyOf[x[1]] \notin GivenUp
             PROVE  x[2] > states'[KeyOf[x[1]]].last
  BY DEF InsertsAfter
<1>0. ConInv /\ InsertsAfter /\ IdsGood
  BY Zenon DEF LedgerInv
<1>1. ASSUME x \in Inserts PROVE /\ x[1] \in Events /\ KeyOf[x[1]] \in Keys /\ ~HasRow(x[1])
                                 /\ x[2] > states[KeyOf[x[1]]].last
  <2>1. x[1] \in Events /\ KeyOf[x[1]] \in Keys
    BY <1>0, <1>1, RowFacts, Zenon
  <2>2. ~HasRow(x[1])
    BY <2>1, Zenon DEF RowsKept, HasRow
  <2> QED
    BY <1>0, <1>1, <2>1, <2>2, Zenon DEF InsertsAfter
<1>2. ASSUME UNCHANGED states, Inserts' \subseteq Inserts PROVE x[2] > states'[KeyOf[x[1]]].last
  BY <1>1, <1>2, Zenon
<1>3. ASSUME NEW e \in Events, Draws(e) PROVE x[2] > states'[KeyOf[x[1]]].last
  <2>1. (x \in Inserts \/ x = <<e, sequence>>) /\ UNCHANGED states
    BY <1>3 DEF Draws
  <2>2. KeyOf[e] \in Keys /\ states[KeyOf[e]].last \in Nat /\ sequence \in Nat
    BY <1>0, RowFacts, Zenon
  <2>3. states[KeyOf[e]].last < sequence
    BY <1>0, <2>2, BelowSequence, Zenon
  <2> QED
    BY <1>1, <2>1, <2>2, <2>3
<1>4. ASSUME NEW k \in Keys, NEW state \in ReconciledStates, Upserting(k, state)
      PROVE  x[2] > states'[KeyOf[x[1]]].last
  <2>1. x \in Inserts /\ states' = [states EXCEPT ![k] = state]
    BY <1>4, Zenon DEF Upserting, NoneAdded, UpsertRow
  <2>2. KeyOf[x[1]] # k
    <3> SUFFICES ASSUME KeyOf[x[1]] = k PROVE FALSE
      OBVIOUS
    <3>1. x[1] \in Events /\ ~HasRow(x[1]) /\ Started(x[1]) /\ ~Covered(x[1])
      BY <1>0, <1>1, <2>1, Starts, Zenon DEF Covered
    <3>2. PICK e \in Events :
            /\ KeyOf[e] = k /\ Open(e) /\ transactions[e] = state.last
            /\ \A f \in Events : KeyOf[f] = k /\ Started(f) /\ ~Covered(f) => f = e
      BY <1>4, UpsertAlone
    <3> QED
      BY <3>1, <3>2, Zenon DEF Open
  <2>3. states'[KeyOf[x[1]]] = states[KeyOf[x[1]]]
    BY <1>0, <2>1, <2>2, RowFacts, Zenon
  <2> QED
    BY <1>1, <2>1, <2>3, Zenon
<1>5. ASSUME NEW e \in Events, (\E id \in Nat : Inserting(e, id)) \/ Applying(e)
      PROVE  UNCHANGED states /\ Inserts' \subseteq Inserts
  BY <1>5, Zenon DEF Inserting, Applying, NoneAdded
<1>6. Quiet => UNCHANGED states /\ Inserts' \subseteq Inserts
  BY Zenon DEF Quiet, NoneAdded
<1> QED
  BY <1>2, <1>3, <1>4, <1>5, <1>6, Zenon DEF Effect

\* Pending upserts go on adding one transaction or being stale.
LEMMA UpsertsStep ==
  ASSUME LedgerInv, GivenUp \subseteq GivenUp', Effect \/ \E e \in Events : Draws(e)
  PROVE  UpsertsExtend'
<1> DEFINE Good(x) == \/ x[2].last <= states'[x[1]].last
                      \/ x[2].applied = Append(states'[x[1]].applied, x[2].last)
<1> SUFFICES ASSUME NEW x \in Upserts', x[1] \notin GivenUp PROVE Good(x)
  BY DEF UpsertsExtend
<1>0. ConInv /\ UpsertsExtend
  BY Zenon DEF LedgerInv
<1>1. ASSUME UNCHANGED states, Upserts' \subseteq Upserts PROVE Good(x)
  BY <1>0, <1>1, Zenon DEF UpsertsExtend
<1>2. ASSUME NEW e \in Events, Applying(e) PROVE Good(x)
  <2>1. UNCHANGED states
    BY <1>2, Zenon DEF Applying
  <2>2. CASE x \in Upserts
    BY <1>0, <2>1, <2>2, Zenon DEF UpsertsExtend
  <2>3. CASE x = <<KeyOf[e], ApplyTransaction(states[KeyOf[e]], transactions[e])>>
    BY <2>1, <2>3, Zenon DEF ApplyTransaction
  <2> QED
    BY <1>2, <2>2, <2>3, Zenon DEF Applying
<1>3. ASSUME NEW k \in Keys, NEW state \in ReconciledStates, Upserting(k, state) PROVE Good(x)
  <2>1. x \in Upserts /\ states' = [states EXCEPT ![k] = state]
    BY <1>3, Zenon DEF Upserting, NoneAdded, UpsertRow
  <2>2. /\ x[1] \in Keys /\ x[2].last \in Nat /\ states[x[1]].last \in Nat
        /\ states \in [Keys -> ReconciledStates] /\ state.last \in Nat
    BY <1>0, <2>1, RowFacts, Zenon DEF ReconciledStates
  <2>3. CASE x[1] # k
    <3>1. states'[x[1]] = states[x[1]]
      BY <2>1, <2>2, <2>3, Zenon
    <3> QED
      BY <1>0, <2>1, <3>1, Zenon DEF UpsertsExtend
  <2>4. CASE x[1] = k
    <3>1. states'[x[1]] = state
      BY <2>1, <2>2, <2>4, Zenon
    <3>2. PICK e \in Events :
            /\ KeyOf[e] = k /\ Open(e) /\ transactions[e] = state.last
            /\ \A f \in Events : KeyOf[f] = k /\ Started(f) /\ ~Covered(f) => f = e
      BY <1>3, <2>4, UpsertAlone
    <3>3. state.last > states[k].last
      BY <1>3, <2>4, UpsertAlone, Zenon
    <3>4. CASE x[2].last > states[k].last
      <4>1. PICK f \in Events : KeyOf[f] = k /\ Open(f) /\ transactions[f] = x[2].last
        BY <1>0, <2>1, <2>4, <3>4, UpsertOpen, Zenon
      <4>2. f = e
        BY <1>0, <3>2, <4>1, Starts, Zenon
      <4> QED
        BY <2>2, <3>1, <3>2, <4>1, <4>2
    <3>5. CASE ~(x[2].last > states[k].last)
      BY <2>2, <2>4, <3>1, <3>3, <3>5
    <3> QED
      BY <3>4, <3>5, Zenon
  <2> QED
    BY <2>3, <2>4, Zenon
<1>4. ASSUME NEW e \in Events, (\E id \in Nat : Inserting(e, id)) \/ Draws(e)
      PROVE  UNCHANGED states /\ Upserts' \subseteq Upserts
  BY <1>4, Zenon DEF Inserting, Draws, NoneAdded
<1>5. Quiet => UNCHANGED states /\ Upserts' \subseteq Upserts
  BY Zenon DEF Quiet, NoneAdded
<1> QED
  BY <1>1, <1>2, <1>3, <1>4, <1>5, Zenon DEF Effect

\* At first nothing is started and nothing is pending.
LEMMA InitLedgerInv == Init => LedgerInv
<1> SUFFICES ASSUME Init PROVE LedgerInv
  OBVIOUS
<1>1. Issued = {} /\ Inserts = {} /\ Upserts = {} /\ IdsGood
  BY IdsInit, Zenon DEF Init
<1>2. InOrder /\ InsertsAfter /\ UpsertsExtend
  BY <1>1 DEF InOrder, Started, InsertsAfter, UpsertsExtend
<1> QED
  BY <1>1, <1>2, InitConInv, Zenon DEF LedgerInv

\* What every step may use.
LEMMA LedgerStep ==
  ASSUME LedgerInv, [Next]_vars
  PROVE  /\ [RecNext]_recVars /\ RowsKept /\ ConInv' /\ GivenUp \subseteq GivenUp'
         /\ Effect \/ \E e \in Events : Draws(e) /\ InTurn(e)
<1>1. ConInv /\ TypeOK
  BY ConParts, LedgerParts DEF RecInv
<1>2. [RecNext]_recVars /\ ConInv'
  BY <1>1, RecSteps, NextConInv
<1>3. RowsKept
  BY <1>1, <1>2, StepAdvances
<1>4. Reconciles \/ Publishes
  BY <1>1, StepKinds
<1>5. dlq \subseteq dlq'
  BY <1>4, Zenon DEF Reconciles, Publishes
<1>6. Effect \/ \E e \in Events : Draws(e) /\ InTurn(e)
  BY <1>4, NoEffect, Zenon DEF Reconciles, Publishes
<1> QED
  BY <1>2, <1>3, <1>5, <1>6, GivenUpGrows, Zenon

\* Every step preserves the order.
LEMMA NextLedgerInv == LedgerInv /\ [Next]_vars => LedgerInv'
<1> SUFFICES ASSUME LedgerInv, [Next]_vars PROVE LedgerInv'
  OBVIOUS
<1>1. /\ [RecNext]_recVars /\ RowsKept /\ ConInv' /\ GivenUp \subseteq GivenUp'
      /\ Effect \/ \E e \in Events : Draws(e) /\ InTurn(e)
  BY LedgerStep
<1>2. Effect \/ \E e \in Events : Draws(e)
  BY <1>1
<1>3. IdsGood'
  BY LedgerParts, <1>2, IdsStep, Zenon DEF ConInv
<1>4. InOrder'
  BY <1>1, InOrderStep
<1>5. InsertsAfter'
  BY <1>1, <1>2, InsertsStep, Zenon
<1>6. UpsertsExtend'
  BY <1>1, <1>2, UpsertsStep, Zenon
<1> QED
  BY <1>1, <1>3, <1>4, <1>5, <1>6, Zenon DEF LedgerInv

-----------------------------------------------------------------------------
(* The refinement *)

\* Past all that is folded is past the watermark.
LEMMA AfterWatermark ==
  ASSUME ConInv, NEW k \in Keys, NEW id \in Nat \ {0}
  PROVE  Tables!After(k, id) <=> id > states[k].last
<1> DEFINE n == Len(states[k].applied)
<1>1. states[k].applied \in Seq(Nat) /\ states[k].last \in Nat /\ n \in Nat
  BY RowFacts
<1>2. WellFolded(states[k])
  BY RecParts, ConParts, Zenon DEF StatesGood, GoodState
<1>3. \A i \in 1..n : states[k].applied[i] \in Nat /\ states[k].applied[i] <= states[k].last
  <2> TAKE i \in 1..n
  <2>1. states[k].applied[i] \in Nat /\ states[k].applied[n] \in Nat /\ states[k].last = states[k].applied[n]
    BY <1>1, <1>2 DEF WellFolded
  <2>2. i < n => states[k].applied[i] < states[k].applied[n]
    BY <1>1, <1>2 DEF WellFolded
  <2> QED
    BY <1>1, <2>1, <2>2
<1>4. states[k].last = 0 \/ (n \in 1..n /\ states[k].last = states[k].applied[n])
  BY <1>1, <1>2 DEF WellFolded
<1>5. Tables!After(k, id) <=> \A i \in 1..n : id > states[k].applied[i]
  BY DEF Tables!After, Folded
<1>6. ASSUME \A i \in 1..n : id > states[k].applied[i] PROVE id > states[k].last
  BY <1>4, <1>6
<1>7. ASSUME id > states[k].last, NEW i \in 1..n PROVE id > states[k].applied[i]
  BY <1>1, <1>3, <1>7
<1> QED
  BY <1>5, <1>6, <1>7, Zenon

\* A pending INSERT that writes its row records the transaction.
LEMMA InsertingRecords ==
  ASSUME LedgerInv, NEW e \in Events, NEW id \in Nat, Inserting(e, id), dlq' = dlq
  PROVE  Tables!Record(e)
<1>1. /\ <<e, id>> \in Inserts /\ ~HasRow(e) /\ transactions' = [transactions EXCEPT ![e] = id]
      /\ UNCHANGED states
  BY DEF Inserting, InsertRow
<1>2. ConInv /\ RecInv /\ IdsGood /\ InsertsAfter
  BY LedgerParts, Zenon DEF ConInv
<1>3. transactions \in [Events -> Nat] /\ id \in Nat \ {0} /\ KeyOf[e] \in Keys
  BY <1>1, <1>2, RowFacts, Zenon
<1>4. transactions'[e] = id /\ transactions[e] = 0
  BY <1>1, <1>3, Zenon DEF HasRow
<1>5. id \notin {transactions[f] : f \in Events}
  <2> SUFFICES ASSUME NEW f \in Events, transactions[f] = id PROVE FALSE
    OBVIOUS
  <2>1. HasRow(f)
    BY <1>3, Zenon DEF HasRow
  <2>2. <<f, id>> \in Issued /\ <<e, id>> \in Issued
    BY <1>1, <1>2, <2>1, IssuedTypes, Zenon DEF Issued
  <2>3. e = f
    BY <1>2, <2>2, Zenon DEF IdsGood
  <2> QED
    BY <1>1, <2>1, <2>3, Zenon
<1>6. KeyOf[e] \notin GivenUp => Tables!After(KeyOf[e], id)
  <2> SUFFICES ASSUME KeyOf[e] \notin GivenUp PROVE id > states[KeyOf[e]].last
    BY <1>2, <1>3, AfterWatermark, Zenon
  <2> QED
    BY <1>1, <1>2, Zenon DEF InsertsAfter
<1>7. UNCHANGED <<[k \in Keys |-> Folded(k)], GivenUp>>
  BY <1>1, Zenon DEF Folded, GivenUp, DeadLettered, OnOnePartition, OfKey, Record
<1> QED
  BY <1>1, <1>3, <1>4, <1>5, <1>6, <1>7, Zenon DEF Tables!Record

\* The ids of the rows of a key.
LEMMA RowIds ==
  ASSUME NEW k, NEW id
  PROVE  id \in Tables!Ids(k) <=> \E e \in Events : KeyOf[e] = k /\ HasRow(e) /\ transactions[e] = id
  BY Zenon DEF Tables!Ids, HasRow

\* What a successful upsert does to the state of its key.
LEMMA UpsertingState ==
  ASSUME ConInv, NEW k \in Keys, NEW state \in ReconciledStates, Upserting(k, state), dlq' = dlq
  PROVE  /\ state.last \in Nat \ {0} /\ state.applied \in Seq(Nat) /\ Tables!After(k, state.last)
         /\ GoodState(transactions, k, state) /\ <<k, state>> \in Upserts
         /\ [j \in Keys |-> Folded(j)]' =
              [[j \in Keys |-> Folded(j)] EXCEPT ![k] = {state.applied[i] : i \in 1..Len(state.applied)}]
         /\ UNCHANGED <<transactions, GivenUp>>
<1>1. /\ <<k, state>> \in Upserts /\ states[k].last < state.last /\ states' = [states EXCEPT ![k] = state]
      /\ UNCHANGED transactions
  BY DEF Upserting, UpsertRow, Advances
<1>2. states \in [Keys -> ReconciledStates] /\ states[k].last \in Nat
  BY RowFacts
<1>3. state.last \in Nat /\ state.applied \in Seq(Nat)
  BY DEF ReconciledStates
<1>4. state.last \in Nat \ {0} /\ state.last > states[k].last
  BY <1>1, <1>2, <1>3
<1>5. GoodState(transactions, k, state)
  BY <1>1, StatementTypes, Zenon DEF ConInv
<1>6. \A j \in Keys : states'[j] = IF j = k THEN state ELSE states[j]
  BY <1>1, <1>2, Zenon
<1>7. [j \in Keys |-> Folded(j)]' =
        [[j \in Keys |-> Folded(j)] EXCEPT ![k] = {state.applied[i] : i \in 1..Len(state.applied)}]
  BY <1>6, Zenon DEF Folded
<1>8. UNCHANGED GivenUp
  BY DEF GivenUp, DeadLettered, OnOnePartition, OfKey, Record
<1> QED
  BY <1>1, <1>3, <1>4, <1>5, <1>7, <1>8, AfterWatermark

\* The ids of a state with one transaction appended.
LEMMA AppendRange ==
  ASSUME NEW s \in Seq(Nat), NEW id \in Nat
  PROVE  {Append(s, id)[i] : i \in 1..Len(Append(s, id))} = {s[i] : i \in 1..Len(s)} \cup {id}
<1>1. Len(Append(s, id)) = Len(s) + 1 /\ Len(s) \in Nat
  OBVIOUS
<1>2. \A i \in 1..Len(s) : Append(s, id)[i] = s[i]
  OBVIOUS
<1>3. Append(s, id)[Len(s) + 1] = id
  OBVIOUS
<1>4. 1..(Len(s) + 1) = (1..Len(s)) \cup {Len(s) + 1}
  BY <1>1
<1> QED
  BY <1>1, <1>2, <1>3, <1>4

\* While the promise is kept, a successful upsert folds the only missing row.
LEMMA UpsertingFolds ==
  ASSUME LedgerInv, NEW k \in Keys \ GivenUp, NEW state \in ReconciledStates, Upserting(k, state), dlq' = dlq
  PROVE  Tables!Fold(k)
<1>1. ConInv /\ UpsertsExtend
  BY DEF LedgerInv
<1>2. /\ state.last \in Nat \ {0} /\ state.applied \in Seq(Nat) /\ Tables!After(k, state.last)
      /\ <<k, state>> \in Upserts
      /\ [j \in Keys |-> Folded(j)]' =
           [[j \in Keys |-> Folded(j)] EXCEPT ![k] = {state.applied[i] : i \in 1..Len(state.applied)}]
      /\ UNCHANGED <<transactions, GivenUp>>
  BY <1>1, UpsertingState, Zenon
<1>3. states[k].applied \in Seq(Nat) /\ states[k].last \in Nat
  BY <1>1, RowFacts, Zenon
<1>4. state.last > states[k].last
  BY UpsertAlone, Zenon
<1>5. state.applied = Append(states[k].applied, state.last)
  <2>1. state.last <= states[k].last \/ state.applied = Append(states[k].applied, state.last)
    BY <1>1, <1>2, Zenon DEF UpsertsExtend
  <2>2. ~(state.last <= states[k].last)
    BY <1>2, <1>3, <1>4
  <2> QED
    BY <2>1, <2>2
<1>6. {state.applied[i] : i \in 1..Len(state.applied)} = Folded(k) \cup {state.last}
  <2>1. {Append(states[k].applied, state.last)[i] : i \in 1..Len(Append(states[k].applied, state.last))}
          = {states[k].applied[i] : i \in 1..Len(states[k].applied)} \cup {state.last}
    BY <1>2, <1>3, AppendRange, Zenon
  <2> QED
    BY <1>5, <2>1, Zenon DEF Folded
<1>7. PICK e \in Events :
        /\ KeyOf[e] = k /\ Open(e) /\ transactions[e] = state.last
        /\ \A f \in Events : KeyOf[f] = k /\ Started(f) /\ ~Covered(f) => f = e
  BY UpsertAlone, ZenonT(30)
<1>8. state.last \in Tables!Missing(k)
  <2>1. HasRow(e)
    BY <1>7, Zenon DEF Open
  <2>2. state.last \in Tables!Ids(k)
    BY <1>7, <2>1, RowIds, Zenon
  <2> QED
    BY <1>2, <2>2, Zenon DEF Tables!Missing
<1>9. ASSUME NEW id \in Tables!Missing(k) PROVE id = state.last
  <2>1. Tables!After(k, id) /\ \E f \in Events : KeyOf[f] = k /\ HasRow(f) /\ transactions[f] = id
    BY <1>9, RowIds, Zenon DEF Tables!Missing
  <2>2. PICK f \in Events : KeyOf[f] = k /\ HasRow(f) /\ transactions[f] = id
    BY <2>1, Zenon
  <2>3. id \in Nat \ {0}
    BY <1>1, <2>2, RowFacts, Zenon DEF HasRow
  <2>4. Open(f)
    BY <1>1, <2>1, <2>2, <2>3, AfterWatermark, ZenonT(30) DEF Open
  <2> QED
    BY <1>1, <1>7, <2>2, <2>4, Starts
<1>10. \A id \in Tables!Missing(k) : state.last <= id
  BY <1>2, <1>9
<1> QED
  BY <1>2, <1>6, <1>8, <1>10, Zenon DEF Tables!Fold

\* Once the promise is given up, an upsert still moves the watermark to a row.
LEMMA UpsertingRewrites ==
  ASSUME LedgerInv, NEW k \in Keys, k \in GivenUp, NEW state \in ReconciledStates, Upserting(k, state), dlq' = dlq
  PROVE  Tables!Rewrite(k)
<1> DEFINE ids == {state.applied[i] : i \in 1..Len(state.applied)}
<1>1. ConInv
  BY DEF LedgerInv
<1>2. /\ state.last \in Nat \ {0} /\ state.applied \in Seq(Nat) /\ Tables!After(k, state.last)
      /\ GoodState(transactions, k, state)
      /\ [j \in Keys |-> Folded(j)]' = [[j \in Keys |-> Folded(j)] EXCEPT ![k] = ids]
      /\ UNCHANGED <<transactions, GivenUp>>
  BY <1>1, UpsertingState, Zenon
<1>3. ids \subseteq Tables!Ids(k)
  BY <1>2, RowIds DEF GoodState, FoldsRows, HasRow
<1>4. Len(state.applied) \in 1..Len(state.applied) /\ state.last = state.applied[Len(state.applied)]
  BY <1>2 DEF GoodState, WellFolded
<1>5. state.last \in ids
  BY <1>4, Zenon
<1> QED
  BY <1>2, <1>3, <1>5, Zenon DEF Tables!Rewrite

\* A dead letter gives up the promise for the key of the record, if it has one.
LEMMA PublishGivesUp ==
  ASSUME ConInv, Publishes
  PROVE  Tables!Next \/ UNCHANGED Tables!vars
<1>1. PICK c \in Callers : run[c] = "dlq" /\ dlq' = dlq \cup {CurrentRecord(c)}
  BY Zenon DEF Publishes
<1> DEFINE p == current[c]
           n == next[c][p]
<1>2. p \in Partitions /\ n < end[c][p]
  BY ConParts, <1>1, Zenon DEF ConsumerTypeOK, Consuming, Working
<1>3. n \in Offsets /\ n < EndOfLog(p)
  BY <1>2, InLog, Zenon
<1>4. n \in DOMAIN Log[p] /\ Record(p, n) \in Events \cup {Undecodable}
  BY <1>2, <1>3, LogDomain, RecordType DEF Offsets
<1>5. \A k : DeadLettered(k)' <=> DeadLettered(k) \/ OfKey(p, n, k)
  BY <1>1, <1>2, <1>4, Zenon DEF DeadLettered, OfKey, Record, CurrentRecord
<1>6. \A k : OnOnePartition(k)' <=> OnOnePartition(k)
  BY Zenon DEF OnOnePartition, OfKey, Record
<1>7. UNCHANGED <<transactions, [k \in Keys |-> Folded(k)]>>
  BY DEF Publishes, recVars, store, Folded
<1>8. CASE Record(p, n) = Undecodable
  <2>1. UNCHANGED GivenUp
    BY <1>5, <1>6, <1>8, Zenon DEF GivenUp, OfKey
  <2> QED
    BY <1>7, <2>1, Zenon DEF Tables!vars
<1>9. CASE Record(p, n) # Undecodable
  <2>1. KeyOf[Record(p, n)] \in Keys
    BY <1>4, <1>9, ReconcilerAssumption, Zenon
  <2>2. \A k : OfKey(p, n, k) <=> k = KeyOf[Record(p, n)]
    BY <1>9, Zenon DEF OfKey
  <2>3. GivenUp' = GivenUp \cup {KeyOf[Record(p, n)]}
    BY <1>5, <1>6, <2>1, <2>2, Zenon DEF GivenUp
  <2> QED
    BY <1>7, <2>1, <2>3, Zenon DEF Tables!Next, Tables!GiveUp
<1> QED
  BY <1>8, <1>9, Zenon

\* Every step of the consumers is a step of Ledger, or none.
LEMMA LedgerSteps ==
  ASSUME LedgerInv, [Next]_vars
  PROVE  [Tables!Next]_Tables!vars
<1>1. ConInv
  BY DEF LedgerInv
<1>2. CASE Publishes
  BY <1>1, <1>2, PublishGivesUp, Zenon
<1>3. CASE Reconciles
  <2>1. dlq' = dlq
    BY <1>3, Zenon DEF Reconciles
  <2>2. ASSUME UNCHANGED <<transactions, states>> PROVE UNCHANGED Tables!vars
    BY <2>1, <2>2, Zenon DEF Tables!vars, Folded, GivenUp, DeadLettered, OnOnePartition, OfKey,
       Record
  <2>3. ASSUME NEW e \in Events, Draws(e) \/ Applying(e) PROVE UNCHANGED <<transactions, states>>
    BY <2>3, Zenon DEF Draws, Applying
  <2>4. Quiet => UNCHANGED <<transactions, states>>
    BY Zenon DEF Quiet
  <2>5. ASSUME NEW e \in Events, NEW id \in Nat, Inserting(e, id) PROVE Tables!Next
    BY <2>1, <2>5, InsertingRecords, Zenon DEF Tables!Next
  <2>6. ASSUME NEW k \in Keys, NEW state \in ReconciledStates, Upserting(k, state) PROVE Tables!Next
    BY <2>1, <2>6, UpsertingFolds, UpsertingRewrites, Zenon DEF Tables!Next
  <2> QED
    BY <1>3, <2>2, <2>3, <2>4, <2>5, <2>6, Zenon DEF Reconciles, Effect
<1> QED
  BY <1>1, <1>2, <1>3, StepKinds, Zenon

\* The tables start as an empty ledger.
LEMMA LedgerInit == Init => Tables!Init
<1> SUFFICES ASSUME Init PROVE Tables!Init
  OBVIOUS
<1>1. transactions = [e \in Events |-> 0] /\ states = [k \in Keys |-> NoState]
  BY DEF Init, RecInit
<1>2. \A k \in Keys : Folded(k) = {}
  BY <1>1 DEF Folded, NoState
<1>3. GivenUp \subseteq Keys
  BY DEF GivenUp
<1> QED
  BY <1>1, <1>2, <1>3, Zenon DEF Tables!Init

\* Consumers, Reconcile and the two repositories implement Ledger: whatever
\* crashes, rebalances, retries, redeliveries and late statements happen, as
\* long as the events of a key are on one partition and none of them was
\* dead-lettered, its state is the fold of its rows, none left out.
THEOREM LedgerImplemented == Spec => ImplementsLedger
<1>1. Spec => []LedgerInv
  BY InitLedgerInv, NextLedgerInv, PTL DEF Spec
<1>2. LedgerInv /\ [Next]_vars => [Tables!Next]_Tables!vars
  BY LedgerSteps
<1> QED
  BY <1>1, <1>2, LedgerInit, PTL DEF Spec, ImplementsLedger, Tables!Spec
=============================================================================
