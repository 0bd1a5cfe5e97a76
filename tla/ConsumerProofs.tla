----------------------------- MODULE ConsumerProofs -----------------------------
(***************************************************************************)
(* Proofs about Consumer, for any consumers, partitions, log and bounds:   *)
(* it uses Reconcile as Reconciler allows, so that what ReconcilerProofs   *)
(* shows holds of the running system; no committed offset passes a record  *)
(* that was not handled; and committed offsets never move back.            *)
(*                                                                         *)
(* The invariant follows the records of a partition through a consumer: up *)
(* to marked all are handled, up to fetch all are handled or in the batch  *)
(* that is being worked on, and between polls there is no such batch.      *)
(***************************************************************************)
EXTENDS Consumer, ReconcilerProofs

\* The records that are handled.
Done == {r \in Partitions \X Offsets : r[2] < EndOfLog(r[1]) /\ Handled(r[1], r[2])}

UpTo(p, D, x) == \A o \in 1..(x - 1) : <<p, o>> \in D

\* Positions in partition p that fit the set D of handled records: up to m and
\* up to n all are handled, up to f all are handled or in the batch n..(e - 1)
\* of the log.
Fits(p, D, m, f, n, e) ==
  /\ UpTo(p, D, m)
  /\ UpTo(p, D, n)
  /\ m <= f
  /\ \A o \in 1..(f - 1) : <<p, o>> \in D \/ (n <= o /\ o < e)
  /\ n <= e
  /\ n < e => e <= EndOfLog(p)

\* A consumer's positions fit what is handled, and between two polls it has no
\* batch.
Progress(c) ==
  \A p \in Partitions :
    /\ Fits(p, Done, marked[c][p], fetch[c][p], next[c][p], end[c][p])
    /\ run[c] \in {"down", "poll", "polling"} => next[c][p] = end[c][p]

\* The record a consumer is at is the next of its batch, and the event of the
\* call of Reconcile is that record's.
Working(c) ==
  /\ run[c] \in {"reconcile", "dlq"} => next[c][current[c]] < end[c][current[c]]
  /\ run[c] = "reconcile" => /\ event[c] = Record(current[c], next[c][current[c]])
                             /\ event[c] # Undecodable

Consuming == \A c \in Callers : Progress(c) /\ Working(c)

Commits ==
  \A p \in Partitions :
    /\ UpTo(p, Done, committed[p])
    /\ owner[p] # NoOwner => committed[p] <= marked[owner[p]][p]

ConInv == ConsumerTypeOK /\ RecInv /\ Consuming /\ Commits

\* The conjuncts of the invariant, for steps that need one of them.
LEMMA ConParts == ConInv => ConsumerTypeOK /\ RecInv /\ Consuming /\ Commits
  BY DEF ConInv

-----------------------------------------------------------------------------
(* The records *)

\* What every step may use of the constants: the log is left to RecordType and
\* EndType.
LEMMA ConstantTypes ==
  /\ Partitions # {} /\ Manual \subseteq Callers /\ NoOwner \notin Callers
  /\ MaxRetries \in Nat /\ MaxPollRecords \in Nat \ {0} /\ MaxDisruptions \in Nat
  BY ConsumerAssumption

\* The end of a log is an offset.
LEMMA EndType == \A p \in Partitions : EndOfLog(p) \in Nat \ {0}
  BY ConsumerAssumption DEF EndOfLog

USE ConstantTypes DEF Offsets

\* Offsets are ordered.
LEMMA Order ==
  /\ \A x \in Nat : x <= x /\ x >= x
  /\ \A x, y, z \in Nat : (x <= y /\ y <= z => x <= z) /\ (x < y /\ y <= z => x < z)
  OBVIOUS

\* Two counts of records add up to an offset.
LEMMA SumType == \A x \in Offsets, y \in Nat : x + y \in Offsets
  OBVIOUS

\* A counter goes up by one.
LEMMA CountUp ==
  ASSUME NEW S, NEW f \in [S -> Nat], NEW c \in S
  PROVE  [f EXCEPT ![c] = f[c] + 1] \in [S -> Nat]
  OBVIOUS

\* A position goes up by one.
LEMMA MoveUp ==
  ASSUME NEW S, NEW T, NEW f \in [S -> [T -> Offsets]], NEW c \in S, NEW q \in T
  PROVE  [f EXCEPT ![c][q] = f[c][q] + 1] \in [S -> [T -> Offsets]]
  OBVIOUS

\* A batch has a number of records of each partition.
LEMMA BatchSize ==
  ASSUME NEW n \in [Partitions -> 0..MaxPollRecords], NEW p \in Partitions
  PROVE  n[p] \in Nat
  OBVIOUS

\* Processes start at the start of every log.
LEMMA AtStartType == AtStart \in [Partitions -> Offsets] /\ \A p \in Partitions : AtStart[p] = 1
  BY DEF AtStart

\* What the types say of one consumer and one partition.
LEMMA PositionTypes ==
  ASSUME ConsumerTypeOK, NEW c \in Callers, NEW p \in Partitions
  PROVE  /\ fetch[c][p] \in Offsets /\ marked[c][p] \in Offsets /\ next[c][p] \in Offsets /\ end[c][p] \in Offsets
         /\ committed[p] \in Offsets /\ current[c] \in Partitions /\ next[c][current[c]] \in Offsets
         /\ end[c][current[c]] \in Offsets
  BY DEF ConsumerTypeOK

\* An owner is a consumer.
LEMMA OwnerType ==
  ASSUME ConsumerTypeOK, NEW p \in Partitions, owner[p] # NoOwner
  PROVE  owner[p] \in Callers
  BY DEF ConsumerTypeOK, Group

\* Disruptions are counted.
LEMMA DisruptionType ==
  ASSUME disruptions \in Nat, Disruption \/ UNCHANGED disruptions
  PROVE  disruptions' \in Nat
  BY DEF Disruption

\* The record a loop is at is a record of the topic.
LEMMA CurrentType ==
  ASSUME ConsumerTypeOK, NEW c \in Callers
  PROVE  CurrentRecord(c) \in Partitions \X Offsets
  BY DEF ConsumerTypeOK, CurrentRecord

\* A record of the log decodes or does not.
LEMMA RecordType ==
  ASSUME NEW p \in Partitions, NEW o \in Offsets, o < EndOfLog(p)
  PROVE  Record(p, o) \in Events \cup {Undecodable}
<1>1. Log[p] \in Seq(Events \cup {Undecodable}) /\ o \in 1..Len(Log[p])
  BY ConsumerAssumption DEF EndOfLog
<1> QED
  BY <1>1 DEF Record

\* What is covered stays covered.
LEMMA CoveredKept ==
  ASSUME TypeOK, [RecNext]_recVars, NEW e \in Events, Covered(e)
  PROVE  Covered(e)'
<1>1. RowsKept /\ WatermarksAdvance /\ TypeOK'
  BY StepAdvances, TypeStep
<1>2. KeyOf[e] \in Keys
  BY ReconcilerAssumption
<1>3. transactions'[e] = transactions[e] /\ HasRow(e)
  BY <1>1 DEF RowsKept, Covered
<1>4. states[KeyOf[e]].last \in Nat /\ states'[KeyOf[e]].last \in Nat /\ transactions[e] \in Nat
  BY <1>1, <1>2, Zenon DEF TypeOK, ReconciledStates
<1>5. states'[KeyOf[e]].last >= transactions'[e]
  <2>1. states[KeyOf[e]].last >= transactions[e]
    BY DEF Covered
  <2>2. states'[KeyOf[e]] = states[KeyOf[e]] \/ states'[KeyOf[e]].last > states[KeyOf[e]].last
    BY <1>1, <1>2 DEF WatermarksAdvance
  <2> QED
    BY <1>3, <1>4, <2>1, <2>2
<1> QED
  BY <1>3, <1>5 DEF Covered, HasRow

\* A handled record stays handled.
LEMMA DoneKept ==
  ASSUME TypeOK, [RecNext]_recVars, dlq \subseteq dlq'
  PROVE  Done \subseteq Done'
<1>1. ASSUME NEW r \in Done PROVE r \in Done'
  <2>1. r \in Partitions \X Offsets /\ r[2] < EndOfLog(r[1]) /\ Handled(r[1], r[2])
    BY DEF Done
  <2>2. CASE <<r[1], r[2]>> \in dlq
    BY <2>1, <2>2 DEF Done, Handled
  <2>3. CASE Record(r[1], r[2]) # Undecodable /\ Covered(Record(r[1], r[2]))
    <3>1. Record(r[1], r[2]) \in Events
      BY <2>1, <2>3, RecordType
    <3>2. Covered(Record(r[1], r[2]))'
      BY <2>3, <3>1, CoveredKept DEF Record
    <3> QED
      BY <2>1, <2>3, <3>1, <3>2 DEF Done, Handled, Record
  <2> QED
    BY <2>1, <2>2, <2>3 DEF Handled
<1> QED
  BY <1>1

\* A record of a batch is a record of the log.
LEMMA InLog ==
  ASSUME ConInv, NEW c \in Callers, NEW p \in Partitions, next[c][p] < end[c][p]
  PROVE  next[c][p] \in Offsets /\ next[c][p] < EndOfLog(p)
<1>1. next[c][p] \in Offsets /\ end[c][p] \in Offsets /\ EndOfLog(p) \in Nat
  BY EndType, PositionTypes DEF ConInv
<1>2. end[c][p] <= EndOfLog(p)
  BY ConParts DEF Consuming, Progress, Fits
<1> QED
  BY <1>1, <1>2

\* The record of a call that returned nil is handled.
LEMMA DoneIsHandled ==
  ASSUME ConInv, NEW c \in Callers, run[c] = "reconcile", step[c] = "done"
  PROVE  <<current[c], next[c][current[c]]>> \in Done
<1>1. current[c] \in Partitions
  BY PositionTypes DEF ConInv
<1>2. Working(c) /\ CallGood(c)
  BY RecParts, ConParts DEF Consuming, CallsGood
<1>3. next[c][current[c]] \in Offsets /\ next[c][current[c]] < EndOfLog(current[c])
  BY <1>1, <1>2, InLog, Zenon DEF Working
<1>4. Handled(current[c], next[c][current[c]])
  BY <1>2 DEF Working, CallGood, Handled, Covered
<1> QED
  BY <1>1, <1>3, <1>4 DEF Done

-----------------------------------------------------------------------------
(* The steps of Reconciler *)

\* What Take reads is a record of the log.
LEMMA TakenRecord ==
  ASSUME ConInv, NEW c \in Callers, NEW p \in Partitions, next[c][p] < end[c][p]
  PROVE  Record(p, next[c][p]) \in Events \cup {Undecodable}
  BY InLog, RecordType

\* Every step of the consumers is a step of Reconciler, or none.
LEMMA RecSteps ==
  ASSUME ConInv, [Next]_vars
  PROVE  [RecNext]_recVars
<1>1. ASSUME NEW c \in Callers, NEW p \in Partitions, Take(c, p) PROVE [RecNext]_recVars
  <2>1. Record(p, next[c][p]) \in Events \cup {Undecodable}
    BY <1>1, TakenRecord DEF Take
  <2> QED
    BY <1>1, <2>1 DEF Take, RecNext
<1>2. ASSUME NEW c \in Callers, Retry(c) PROVE [RecNext]_recVars
  BY RecParts, ConParts, <1>2 DEF Retry, RecNext, TypeOK
<1>3. ASSUME NEW c \in Callers, InCall(c) \/ Crash(c) PROVE [RecNext]_recVars
  BY <1>3, Zenon DEF InCall, Crash, RecNext
<1>4. ASSUME NEW c \in Callers,
             \/ Start(c) \/ Poll(c) \/ Fetched(c) \/ BatchDone(c) \/ CallSucceeded(c) \/ GiveUp(c)
             \/ PublishToDLQ(c) \/ Cancel(c) \/ PollReturns(c) \/ PublishToDLQFails(c)
      PROVE  UNCHANGED recVars
  BY <1>4 DEF Start, Poll, Fetched, BatchDone, CallSucceeded, GiveUp, PublishToDLQ, Cancel, PollReturns,
              PublishToDLQFails
<1>5. ASSUME NEW p \in Partitions, NEW c \in Group, Join(p, c) \/ Rebalance(p, c) PROVE UNCHANGED recVars
  BY <1>5 DEF Join, Rebalance, Assign
<1>6. ASSUME NEW p \in Partitions, AutoCommit(p) PROVE UNCHANGED recVars
  BY <1>6 DEF AutoCommit
<1>7. CASE LateInsert \/ LateUpsert
  BY <1>7 DEF RecNext
<1>8. CASE UNCHANGED vars
  BY <1>8 DEF vars
<1> QED
  BY <1>1, <1>2, <1>3, <1>4, <1>5, <1>6, <1>7, <1>8, Zenon DEF Next, Environment, RunStep

-----------------------------------------------------------------------------
(* The invariant *)

\* What a step adds to the invariant: Reconciler's part is kept, and what was
\* handled is.
LEMMA RecPart ==
  ASSUME ConInv, [Next]_vars, dlq \subseteq dlq'
  PROVE  RecInv' /\ TypeOK' /\ Done \subseteq Done'
<1>1. [RecNext]_recVars
  BY RecSteps
<1>2. TypeOK
  BY ConParts DEF RecInv
<1> QED
  BY ConParts, <1>1, <1>2, RecInvStep, DoneKept DEF RecInv

\* A record that gets handled changes none of the others.
LEMMA FitsGrow ==
  ASSUME NEW p, NEW D, NEW E, D \subseteq E, NEW m, NEW f, NEW n, NEW e, Fits(p, D, m, f, n, e)
  PROVE  Fits(p, E, m, f, n, e)
  BY DEF Fits, UpTo

\* A poll marks what was fetched, when none of it is still to be handled.
LEMMA FitsPoll ==
  ASSUME NEW p, NEW D, NEW m \in Offsets, NEW f \in Offsets, NEW n \in Offsets, Fits(p, D, m, f, n, n)
  PROVE  Fits(p, D, f, f, n, n) /\ m <= f
  BY DEF Fits, UpTo

\* A fetch of k records makes them the batch.
LEMMA FitsFetch ==
  ASSUME NEW p, NEW D, NEW m \in Offsets, NEW f \in Offsets, NEW n \in Offsets, Fits(p, D, m, f, n, n),
         NEW k \in Nat, k > 0 => f + k <= EndOfLog(p)
  PROVE  Fits(p, D, m, f + k, f, f + k)
  BY DEF Fits, UpTo

\* The first record of the batch is handled and leaves it.
LEMMA FitsHandled ==
  ASSUME NEW p, NEW D, NEW m \in Offsets, NEW f \in Offsets, NEW n \in Offsets, NEW e \in Offsets,
         Fits(p, D, m, f, n, e), n < e, <<p, n>> \in D
  PROVE  Fits(p, D, m, f, n + 1, e)
<1>1. ASSUME NEW o \in 1..(f - 1) PROVE <<p, o>> \in D \/ (n + 1 <= o /\ o < e)
  <2>1. <<p, o>> \in D \/ (n <= o /\ o < e)
    BY DEF Fits
  <2> QED
    BY <2>1
<1>2. ASSUME NEW o \in 1..(n + 1 - 1) PROVE <<p, o>> \in D
  <2>1. o = n \/ o \in 1..(n - 1)
    OBVIOUS
  <2> QED
    BY <2>1 DEF Fits, UpTo
<1>3. UpTo(p, D, n + 1)
  BY <1>2 DEF UpTo
<1> QED
  BY <1>1, <1>3 DEF Fits

\* A new owner starts from x, in whatever batch it is.
LEMMA FitsAssign ==
  ASSUME NEW p, NEW D, NEW m, NEW f, NEW n, NEW e, Fits(p, D, m, f, n, e), NEW x \in Offsets, UpTo(p, D, x)
  PROVE  Fits(p, D, x, x, n, e)
  BY DEF Fits, UpTo

\* Nothing is fetched at the start of the log.
LEMMA FitsStart ==
  ASSUME NEW p, NEW D
  PROVE  Fits(p, D, 1, 1, 1, 1) /\ UpTo(p, D, 1)
  BY DEF Fits, UpTo

\* A consumer that does nothing.
LEMMA Idle ==
  ASSUME Done \subseteq Done', NEW c \in Callers, Progress(c) /\ Working(c), run'[c] = run[c], fetch'[c] = fetch[c],
         marked'[c] = marked[c], next'[c] = next[c], end'[c] = end[c], current'[c] = current[c], event'[c] = event[c]
  PROVE  Progress(c)' /\ Working(c)'
<1>1. Progress(c)'
  BY FitsGrow, Zenon DEF Progress
<1>2. Working(c)'
  BY DEF Working, Record
<1> QED
  BY <1>1, <1>2, Zenon

\* A step that leaves the group alone and marks no less than is committed.
LEMMA SameGroup ==
  ASSUME Done \subseteq Done', Commits, UNCHANGED <<owner, committed>>,
         \A p \in Partitions : owner[p] # NoOwner => committed[p] <= marked'[owner[p]][p]
  PROVE  Commits'
  BY Zenon DEF Commits, UpTo

\* The acting consumer keeps its positions.
LEMMA SamePositions ==
  ASSUME Done \subseteq Done', NEW c \in Callers, Progress(c), fetch'[c] = fetch[c], marked'[c] = marked[c],
         next'[c] = next[c], end'[c] = end[c],
         run'[c] \in {"down", "poll", "polling"} => \A p \in Partitions : next[c][p] = end[c][p]
  PROVE  Progress(c)'
  BY FitsGrow DEF Progress

\* No step of a call changes its event.
LEMMA InCallEvent ==
  ASSUME NEW c \in Callers, InCall(c)
  PROVE  event' = event
<1>1. CASE Fails(c) \/ InsertSucceeds(c) \/ InsertDuplicate(c)
  BY <1>1, Zenon DEF Fails, InsertSucceeds, InsertDuplicate
<1>2. CASE GetByEventID(c) \/ AlreadyReconciled(c) \/ GetStateAndApply(c)
  BY <1>2, Zenon DEF GetByEventID, AlreadyReconciled, GetStateAndApply
<1>3. CASE UpsertSucceeds(c) \/ UpsertStale(c)
  BY <1>3 DEF UpsertSucceeds, UpsertStale
<1> QED
  BY <1>1, <1>2, <1>3, Zenon DEF InCall, Reconcile

\* The steps of Run that keep all positions.
Stays(c) ==
  \/ Start(c) \/ BatchDone(c) \/ InCall(c) \/ Retry(c) \/ GiveUp(c) \/ Cancel(c)
  \/ \E p \in Partitions : Take(c, p)

\* They preserve the invariant.
LEMMA StayConsuming ==
  ASSUME ConInv, Done \subseteq Done', NEW c \in Callers, Stays(c)
  PROVE  Consuming' /\ Commits'
<1> USE DEF conVars, position, group, RunGoto
<1>0. ConsumerTypeOK /\ Consuming /\ Commits
  BY Zenon DEF ConInv
<1>1. UNCHANGED <<fetch, marked, next, end, owner, committed>>
  BY Zenon DEF Stays, Start, BatchDone, InCall, Retry, GiveUp, Cancel, Take
<1>2. \A d \in Callers \ {c} : run'[d] = run[d] /\ current'[d] = current[d] /\ event'[d] = event[d]
  <2>1. \A d \in Callers \ {c} : run'[d] = run[d]
    <3>1. run \in [Callers -> Runs]
      BY <1>0, Zenon DEF ConsumerTypeOK
    <3>2. CASE Start(c) \/ BatchDone(c) \/ InCall(c) \/ Retry(c) \/ GiveUp(c) \/ Cancel(c)
      BY <3>1, <3>2, Zenon DEF Start, BatchDone, InCall, Retry, GiveUp, Cancel
    <3>3. ASSUME NEW p \in Partitions, Take(c, p) PROVE \A d \in Callers \ {c} : run'[d] = run[d]
      BY <3>1, <3>3, Zenon DEF Take
    <3> QED
      BY <3>2, <3>3 DEF Stays
  <2>2. \A d \in Callers \ {c} : current'[d] = current[d]
    BY <1>0, Zenon DEF Stays, Start, BatchDone, InCall, Retry, GiveUp, Cancel, Take, ConsumerTypeOK
  <2>3. \A d \in Callers \ {c} : event'[d] = event[d]
    <3>1. CASE InCall(c)
      BY <3>1, InCallEvent, Zenon
    <3>2. CASE \E e \in Events \cup {event[c], Undecodable} : Call(c, e)
      BY <1>0, <3>2 DEF Call, ConsumerTypeOK, TypeOK
    <3>3. CASE UNCHANGED recVars
      BY <3>3, Zenon DEF recVars, call
    <3>4. ASSUME NEW p \in Partitions, Take(c, p)
          PROVE  UNCHANGED recVars \/ \E e \in Events \cup {event[c], Undecodable} : Call(c, e)
      BY <3>4, TakenRecord, Zenon DEF Take
    <3> QED
      BY <3>1, <3>2, <3>3, <3>4, Zenon DEF Stays, Start, BatchDone, Retry, GiveUp, Cancel
  <2> QED
    BY <2>1, <2>2, <2>3, Zenon
<1>3. Commits'
  BY <1>0, <1>1, SameGroup, Zenon DEF Commits
<1>4. ASSUME NEW d \in Callers \ {c} PROVE Progress(d)' /\ Working(d)'
  BY <1>0, <1>1, <1>2, Idle DEF Consuming
<1>5. Progress(c) /\ Working(c)
  BY <1>0, Zenon DEF Consuming
<1>6. Progress(c)'
  <2>1. run'[c] \in {"down", "poll", "polling"} => \A p \in Partitions : next[c][p] = end[c][p]
    <3>1. CASE Start(c) \/ BatchDone(c)
      BY <1>5, <3>1, Zenon DEF Start, BatchDone, Progress
    <3>2. CASE InCall(c) \/ Retry(c) \/ Cancel(c)
      BY <1>5, <3>2, Zenon DEF InCall, Retry, Cancel, Progress
    <3>3. run \in [Callers -> Runs]
      BY <1>0 DEF ConsumerTypeOK
    <3>4. CASE GiveUp(c)
      BY <3>3, <3>4, Zenon DEF GiveUp
    <3>5. ASSUME NEW p \in Partitions, Take(c, p) PROVE run'[c] \in {"dlq", "reconcile"}
      BY <3>3, <3>5 DEF Take
    <3> QED
      BY <3>1, <3>2, <3>4, <3>5, Zenon DEF Stays
  <2> QED
    BY <1>1, <1>5, <2>1, SamePositions, Zenon
<1>7. Working(c)'
  <2>1. CASE Start(c) \/ BatchDone(c)
    BY <1>0, <2>1, Zenon DEF Start, BatchDone, Working, ConsumerTypeOK
  <2>2. CASE GiveUp(c) \/ Cancel(c)
    BY <1>0, <1>5, <2>2, Zenon DEF GiveUp, Cancel, Working, ConsumerTypeOK, recVars, call
  <2>3. CASE InCall(c)
    BY <1>5, <2>3, InCallEvent, Idle, Zenon DEF InCall
  <2>4. CASE Retry(c)
    <3>1. event'[c] = event[c]
      BY <1>0, <2>4 DEF Retry, Call, ConsumerTypeOK, TypeOK
    <3> QED
      BY <1>5, <2>4, <3>1, Zenon DEF Retry, Working, Record
  <2>5. ASSUME NEW p \in Partitions, Take(c, p) PROVE Working(c)'
    <3>1. current'[c] = p /\ next'[c][p] < end'[c][p]
      BY <1>0, <2>5, Zenon DEF Take, ConsumerTypeOK
    <3>2. CASE Record(p, next[c][p]) = Undecodable
      BY <1>0, <2>5, <3>1, <3>2, Zenon DEF Take, Working, ConsumerTypeOK
    <3>3. CASE Record(p, next[c][p]) # Undecodable
      <4>2. Call(c, Record(p, next[c][p])) /\ event \in [Callers -> Events]
        BY <1>0, <2>5, <3>3, Zenon DEF Take, ConsumerTypeOK, TypeOK
      <4>1. event'[c] = Record(p, next[c][p])
        BY <4>2, Zenon DEF Call
      <4> QED
        BY <1>1, <3>1, <3>3, <4>1, Zenon DEF Working, Record
    <3> QED
      BY <3>2, <3>3, Zenon
  <2> QED
    BY <2>1, <2>2, <2>3, <2>4, <2>5, Zenon DEF Stays
<1> QED
  BY <1>3, <1>4, <1>6, <1>7 DEF Consuming

\* PollRecords is called between two batches, when all that was fetched is
\* handled.
LEMMA PollConsuming ==
  ASSUME ConInv, Done \subseteq Done', NEW c \in Callers, Poll(c)
  PROVE  Consuming' /\ Commits'
<1>0. /\ ConsumerTypeOK /\ Consuming /\ Commits /\ run[c] = "poll"
      /\ UNCHANGED <<event, current, fetch, next, end, owner, committed>>
  BY Zenon DEF ConInv, Poll, recVars, call, group
<1>1. /\ run' = [run EXCEPT ![c] = "polling"] /\ marked' = [marked EXCEPT ![c] = fetch[c]]
      /\ run \in [Callers -> Runs] /\ marked \in [Callers -> [Partitions -> Offsets]]
  BY <1>0, Zenon DEF ConsumerTypeOK, Poll, RunGoto
<1>2. ASSUME NEW d \in Callers \ {c} PROVE Progress(d)' /\ Working(d)'
  BY <1>0, <1>1, <1>2, Idle, Zenon DEF Consuming
<1>3. ASSUME NEW p \in Partitions
      PROVE  /\ Fits(p, Done', fetch[c][p], fetch[c][p], next[c][p], end[c][p])
             /\ next[c][p] = end[c][p] /\ marked[c][p] <= fetch[c][p]
  <2>1. fetch[c][p] \in Offsets /\ marked[c][p] \in Offsets /\ next[c][p] \in Offsets
    BY <1>0, PositionTypes, Zenon
  <2>2. Fits(p, Done, marked[c][p], fetch[c][p], next[c][p], next[c][p]) /\ next[c][p] = end[c][p]
    BY <1>0, Zenon DEF Consuming, Progress
  <2> QED
    BY <2>1, <2>2, FitsPoll, FitsGrow, Zenon
<1>4. Progress(c)'
  BY <1>0, <1>1, <1>3, Zenon DEF Progress
<1>5. Working(c)'
  BY <1>1, Zenon DEF Working
<1>6. ASSUME NEW p \in Partitions, owner[p] # NoOwner PROVE committed[p] <= marked'[owner[p]][p]
  <2>1. /\ owner[p] \in Callers /\ committed[p] \in Nat /\ committed[p] <= marked[owner[p]][p]
        /\ marked[c][p] \in Nat /\ fetch[c][p] \in Nat
    BY <1>0, <1>6, PositionTypes, OwnerType, Zenon DEF Commits
  <2>2. CASE owner[p] = c
    <3>1. marked'[owner[p]][p] = fetch[c][p]
      BY <1>1, <2>2, Zenon
    <3>2. committed[p] <= fetch[c][p]
      BY <1>3, <2>1, <2>2, Order, Zenon
    <3> QED
      BY <3>1, <3>2, Zenon
  <2>3. CASE owner[p] # c
    BY <1>1, <2>1, <2>3
  <2> QED
    BY <2>2, <2>3, Zenon
<1> QED
  BY <1>0, <1>2, <1>4, <1>5, <1>6, SameGroup, Zenon DEF Consuming

\* What a fetch does to the positions: n[p] records of p are the batch.
LEMMA FetchedBatch ==
  ASSUME NEW c \in Callers, Fetched(c)
  PROVE  \E n \in [Partitions -> 0..MaxPollRecords] :
           /\ \A p \in Partitions : n[p] > 0 => fetch[c][p] + n[p] <= EndOfLog(p)
           /\ next' = [next EXCEPT ![c] = fetch[c]]
           /\ end' = [end EXCEPT ![c] = [p \in Partitions |-> fetch[c][p] + n[p]]]
           /\ fetch' = [fetch EXCEPT ![c] = [p \in Partitions |-> fetch[c][p] + n[p]]]
  BY Zenon DEF Fetched

\* PollRecords returns the records after the ones fetched before.
LEMMA FetchedConsuming ==
  ASSUME ConInv, Done \subseteq Done', NEW c \in Callers, Fetched(c)
  PROVE  Consuming' /\ Commits'
<1>0. /\ ConsumerTypeOK /\ Consuming /\ Commits /\ run[c] = "polling"
      /\ UNCHANGED <<event, current, marked, owner, committed>>
  BY Zenon DEF ConInv, Fetched, recVars, call, group
<1>1. PICK n \in [Partitions -> 0..MaxPollRecords] :
        /\ \A p \in Partitions : n[p] > 0 => fetch[c][p] + n[p] <= EndOfLog(p)
        /\ next' = [next EXCEPT ![c] = fetch[c]]
        /\ end' = [end EXCEPT ![c] = [p \in Partitions |-> fetch[c][p] + n[p]]]
        /\ fetch' = [fetch EXCEPT ![c] = [p \in Partitions |-> fetch[c][p] + n[p]]]
  BY FetchedBatch, Zenon
<1>2. /\ run' = [run EXCEPT ![c] = "batch"] /\ run \in [Callers -> Runs]
      /\ fetch \in [Callers -> [Partitions -> Offsets]] /\ marked \in [Callers -> [Partitions -> Offsets]]
      /\ next \in [Callers -> [Partitions -> Offsets]] /\ end \in [Callers -> [Partitions -> Offsets]]
  BY <1>0, Zenon DEF ConsumerTypeOK, Fetched, RunGoto
<1>3. ASSUME NEW d \in Callers \ {c} PROVE Progress(d)' /\ Working(d)'
  BY <1>0, <1>1, <1>2, <1>3, Idle, Zenon DEF Consuming
<1>4. ASSUME NEW p \in Partitions
      PROVE  Fits(p, Done', marked'[c][p], fetch'[c][p], next'[c][p], end'[c][p])
  <2>1. Fits(p, Done, marked[c][p], fetch[c][p], next[c][p], next[c][p])
    BY <1>0, Zenon DEF Consuming, Progress
  <2>2. /\ fetch[c][p] \in Offsets /\ marked[c][p] \in Offsets /\ next[c][p] \in Offsets /\ n[p] \in Nat
        /\ n[p] > 0 => fetch[c][p] + n[p] <= EndOfLog(p)
    BY <1>0, <1>1, PositionTypes, BatchSize, Zenon
  <2>3. Fits(p, Done', marked[c][p], fetch[c][p] + n[p], fetch[c][p], fetch[c][p] + n[p])
    BY <2>1, <2>2, FitsFetch, FitsGrow, Zenon
  <2>4. next'[c][p] = fetch[c][p] /\ end'[c][p] = fetch[c][p] + n[p] /\ fetch'[c][p] = fetch[c][p] + n[p]
    BY <1>1, <1>2
  <2> QED
    BY <1>0, <2>3, <2>4, Zenon
<1>5. run'[c] = "batch"
  BY <1>2, Zenon
<1>6. Progress(c)' /\ Working(c)'
  BY <1>4, <1>5, Zenon DEF Progress, Working
<1> QED
  BY <1>0, <1>3, <1>6, SameGroup, Zenon DEF Consuming, Commits

\* A record of the batch is handled.
LEMMA HandledConsuming ==
  ASSUME ConInv, Done \subseteq Done', NEW c \in Callers, RecordHandled(c), UNCHANGED recVars,
         run[c] \in {"reconcile", "dlq"}, CurrentRecord(c) \in Done'
  PROVE  Consuming' /\ Commits'
<1>0. /\ ConsumerTypeOK /\ Consuming /\ Commits
      /\ UNCHANGED <<event, current, fetch, marked, end, owner, committed>>
  BY Zenon DEF ConInv, recVars, call, RecordHandled, group
<1> DEFINE q == current[c]
<1>1. /\ run' = [run EXCEPT ![c] = "batch"] /\ run \in [Callers -> Runs] /\ q \in Partitions
      /\ next' = [next EXCEPT ![c][q] = next[c][q] + 1] /\ next \in [Callers -> [Partitions -> Offsets]]
  BY <1>0, Zenon DEF ConsumerTypeOK, RecordHandled, RunGoto
<1>2. ASSUME NEW d \in Callers \ {c} PROVE Progress(d)' /\ Working(d)'
  BY <1>0, <1>1, <1>2, Idle, Zenon DEF Consuming
<1>3. <<q, next[c][q]>> \in Done' /\ next[c][q] < end[c][q]
  BY <1>0, Zenon DEF CurrentRecord, Consuming, Working
<1> HIDE DEF q
<1>4. ASSUME NEW p \in Partitions
      PROVE  Fits(p, Done', marked[c][p], fetch[c][p], next'[c][p], end[c][p])
  <2>1. Fits(p, Done', marked[c][p], fetch[c][p], next[c][p], end[c][p])
    BY <1>0, FitsGrow, Zenon DEF Consuming, Progress
  <2>2. marked[c][p] \in Offsets /\ fetch[c][p] \in Offsets /\ next[c][p] \in Offsets /\ end[c][p] \in Offsets
    BY <1>0, PositionTypes, Zenon
  <2>3. next'[c][p] = IF p = q THEN next[c][p] + 1 ELSE next[c][p]
    BY <1>1, Zenon
  <2>4. CASE p = q
    <3>1. Fits(p, Done', marked[c][p], fetch[c][p], next[c][p] + 1, end[c][p])
      BY <1>3, <2>1, <2>2, <2>4, FitsHandled, Zenon
    <3> QED
      BY <2>3, <2>4, <3>1, Zenon
  <2> QED
    BY <2>1, <2>3, <2>4, Zenon
<1>5. Progress(c)' /\ Working(c)'
  BY <1>0, <1>1, <1>4, Zenon DEF Progress, Working
<1> QED
  BY <1>0, <1>2, <1>5, SameGroup, Zenon DEF Consuming, Commits

\* A process that has ended has no position and no partition.
LEMMA DownConsuming ==
  ASSUME ConInv, Done \subseteq Done', NEW c \in Callers, Down(c), UNCHANGED event
  PROVE  Consuming' /\ Commits'
<1>0. ConsumerTypeOK /\ Consuming /\ Commits /\ UNCHANGED <<current, committed>>
  BY Zenon DEF ConInv, Down
<1>1. /\ run' = [run EXCEPT ![c] = "down"] /\ fetch' = [fetch EXCEPT ![c] = AtStart]
      /\ marked' = [marked EXCEPT ![c] = AtStart] /\ next' = [next EXCEPT ![c] = AtStart]
      /\ end' = [end EXCEPT ![c] = AtStart]
      /\ owner' = [p \in Partitions |-> IF owner[p] = c THEN NoOwner ELSE owner[p]]
      /\ run \in [Callers -> Runs]
      /\ fetch \in [Callers -> [Partitions -> Offsets]] /\ marked \in [Callers -> [Partitions -> Offsets]]
      /\ next \in [Callers -> [Partitions -> Offsets]] /\ end \in [Callers -> [Partitions -> Offsets]]
  BY <1>0, Zenon DEF Down, ConsumerTypeOK, RunGoto
<1>2. ASSUME NEW d \in Callers \ {c} PROVE Progress(d)' /\ Working(d)'
  BY <1>0, <1>1, <1>2, Idle, Zenon DEF Consuming
<1>3. Progress(c)' /\ Working(c)'
  <2>1. /\ run'[c] = "down" /\ fetch'[c] = AtStart /\ marked'[c] = AtStart /\ next'[c] = AtStart
        /\ end'[c] = AtStart
    BY <1>1, Zenon
  <2> QED
    BY <2>1, AtStartType, FitsStart, Zenon DEF Progress, Working
<1>4. ASSUME NEW p \in Partitions
      PROVE  UpTo(p, Done', committed'[p]) /\ (owner'[p] # NoOwner => committed'[p] <= marked'[owner'[p]][p])
  <2>1. UpTo(p, Done', committed'[p])
    BY <1>0, Zenon DEF Commits, UpTo
  <2>2. ASSUME owner'[p] # NoOwner PROVE committed'[p] <= marked'[owner'[p]][p]
    <3>1. owner'[p] = owner[p] /\ owner[p] # c /\ owner[p] # NoOwner /\ owner[p] \in Callers
      BY <1>0, <1>1, <2>2, Zenon DEF ConsumerTypeOK, Group
    <3> QED
      BY <1>0, <1>1, <3>1, Zenon DEF Commits
  <2> QED
    BY <2>1, <2>2, Zenon
<1> QED
  BY <1>2, <1>3, <1>4, Zenon DEF Consuming, Commits

\* A partition's new owner continues from what is committed, even in the
\* middle of a batch.
LEMMA AssignConsuming ==
  ASSUME ConInv, Done \subseteq Done', NEW p \in Partitions, NEW c \in Group, Assign(p, c)
  PROVE  Consuming' /\ Commits'
<1>0. /\ ConsumerTypeOK /\ Consuming /\ Commits /\ c \in Callers /\ c # NoOwner
      /\ UNCHANGED <<event, run, next, end, current, committed>>
  BY Zenon DEF ConInv, Assign, recVars, call, Group
<1>1. /\ owner' = [owner EXCEPT ![p] = c] /\ owner \in [Partitions -> Group \cup {NoOwner}]
      /\ fetch' = [fetch EXCEPT ![c][p] = committed[p]] /\ marked' = [marked EXCEPT ![c][p] = committed[p]]
      /\ fetch \in [Callers -> [Partitions -> Offsets]] /\ marked \in [Callers -> [Partitions -> Offsets]]
      /\ committed[p] \in Offsets
  BY <1>0, Zenon DEF Assign, ConsumerTypeOK
<1>2. ASSUME NEW d \in Callers \ {c} PROVE Progress(d)' /\ Working(d)'
  BY <1>0, <1>1, <1>2, Idle, Zenon DEF Consuming
<1>3. ASSUME NEW q \in Partitions
      PROVE  Fits(q, Done', marked'[c][q], fetch'[c][q], next[c][q], end[c][q])
  <2>1. Fits(q, Done', marked[c][q], fetch[c][q], next[c][q], end[c][q])
    BY <1>0, FitsGrow, Zenon DEF Consuming, Progress
  <2>2. CASE q = p
    <3>1. fetch'[c][q] = committed[p] /\ marked'[c][q] = committed[p]
      BY <1>0, <1>1, <2>2, Zenon
    <3>2. UpTo(q, Done', committed[p])
      BY <1>0, <2>2, Zenon DEF Commits, UpTo
    <3> QED
      BY <1>1, <2>1, <3>1, <3>2, FitsAssign, Zenon
  <2>3. CASE q # p
    <3>1. fetch'[c][q] = fetch[c][q] /\ marked'[c][q] = marked[c][q]
      BY <1>0, <1>1, <2>3
    <3> QED
      BY <2>1, <3>1, Zenon
  <2> QED
    BY <2>2, <2>3, Zenon
<1>4. Progress(c)' /\ Working(c)'
  <2>1. Progress(c)'
    BY <1>0, <1>3, Zenon DEF Consuming, Progress
  <2>2. Working(c)'
    BY <1>0, Zenon DEF Consuming, Working, Record
  <2> QED
    BY <2>1, <2>2, Zenon
<1>5. ASSUME NEW q \in Partitions
      PROVE  UpTo(q, Done', committed'[q]) /\ (owner'[q] # NoOwner => committed'[q] <= marked'[owner'[q]][q])
  <2>1. UpTo(q, Done', committed'[q])
    BY <1>0, Zenon DEF Commits, UpTo
  <2>2. CASE q = p
    <3>1. owner'[q] = c /\ marked'[c][q] = committed[q]
      BY <1>0, <1>1, <2>2, Zenon
    <3>2. committed[q] <= committed[q]
      BY <1>0, PositionTypes, Order, Zenon
    <3> QED
      BY <1>0, <2>1, <3>1, <3>2, Zenon
  <2>3. CASE q # p
    <3>1. owner'[q] = owner[q] /\ owner[q] \in Callers \cup {NoOwner}
      BY <1>1, <2>3, Zenon DEF Group
    <3>2. \A d \in Callers : marked'[d][q] = marked[d][q]
      BY <1>0, <1>1, <2>3, Zenon
    <3> QED
      BY <1>0, <2>1, <3>1, <3>2, Zenon DEF Commits
  <2> QED
    BY <2>2, <2>3, Zenon
<1> QED
  BY <1>2, <1>4, <1>5, Zenon DEF Consuming, Commits

\* What is committed is marked, and so handled; it is never less than what
\* was.
LEMMA AutoCommitConsuming ==
  ASSUME ConInv, Done \subseteq Done', NEW p \in Partitions, AutoCommit(p)
  PROVE  Consuming' /\ Commits' /\ committed' \in [Partitions -> Offsets] /\ committed'[p] >= committed[p]
<1>0. /\ ConsumerTypeOK /\ Consuming /\ Commits
      /\ UNCHANGED <<event, run, fetch, marked, next, end, current, owner>>
  BY Zenon DEF ConInv, AutoCommit, recVars, call, position
<1>1. /\ owner[p] # NoOwner /\ owner[p] \in Callers
      /\ committed' = [committed EXCEPT ![p] = marked[owner[p]][p]] /\ committed \in [Partitions -> Offsets]
      /\ marked[owner[p]][p] \in Offsets
  BY <1>0, PositionTypes, OwnerType, Zenon DEF AutoCommit, ConsumerTypeOK
<1>2. Consuming'
  BY <1>0, Idle, Zenon DEF Consuming
<1>3. UpTo(p, Done, marked[owner[p]][p]) /\ committed[p] <= marked[owner[p]][p]
  BY <1>0, <1>1, Zenon DEF Consuming, Progress, Fits, Commits
<1>4. ASSUME NEW q \in Partitions
      PROVE  UpTo(q, Done', committed'[q]) /\ (owner'[q] # NoOwner => committed'[q] <= marked'[owner'[q]][q])
  <2>1. CASE q = p
    <3>1. committed'[q] = marked[owner[p]][p]
      BY <1>1, <2>1, Zenon
    <3>2. UpTo(q, Done', committed'[q])
      BY <1>3, <2>1, <3>1, Zenon DEF UpTo
    <3>3. marked[owner[p]][p] <= marked[owner[p]][p]
      BY <1>1, Order, Zenon
    <3> QED
      BY <1>0, <2>1, <3>1, <3>2, <3>3, Zenon
  <2>2. CASE q # p
    <3>1. committed'[q] = committed[q]
      BY <1>1, <2>2, Zenon
    <3> QED
      BY <1>0, <3>1, Zenon DEF Commits, UpTo
  <2> QED
    BY <2>1, <2>2, Zenon
<1>5. Commits'
  BY <1>4, Zenon DEF Commits
<1> QED
  BY <1>1, <1>2, <1>3, <1>5, Zenon

-----------------------------------------------------------------------------
(* Types *)

\* A process that ends leaves the types as they are: it restarts at AtStart.
LEMMA DownType ==
  ASSUME ConsumerTypeOK, TypeOK', NEW c \in Callers, Down(c), dlq' \subseteq Partitions \X Offsets, disruptions' \in Nat
  PROVE  ConsumerTypeOK'
  BY AtStartType, Zenon DEF ConsumerTypeOK, Down, RunGoto, Runs

\* A step that moves a loop and keeps its positions.
LEMMA MoveType ==
  ASSUME ConsumerTypeOK, TypeOK', NEW c \in Callers, NEW r \in Runs, RunGoto(c, r),
         UNCHANGED <<canceled, position, group, dlq, disruptions>>,
         current' \in [Callers -> Partitions], attempts' \in [Callers -> Nat]
  PROVE  ConsumerTypeOK'
<1>1. run' \in [Callers -> Runs]
  BY Zenon DEF ConsumerTypeOK, RunGoto
<1> QED
  BY <1>1, Zenon DEF ConsumerTypeOK, position, group

\* A loop that moves to the next record.
LEMMA HandledType ==
  ASSUME ConsumerTypeOK, TypeOK', NEW c \in Callers, RecordHandled(c), dlq' \subseteq Partitions \X Offsets
  PROVE  ConsumerTypeOK'
<1>1. current[c] \in Partitions /\ next \in [Callers -> [Partitions -> Offsets]]
  BY Zenon DEF ConsumerTypeOK
<1>2. next' \in [Callers -> [Partitions -> Offsets]]
  BY <1>1, MoveUp, Zenon DEF RecordHandled
<1>3. run' \in [Callers -> Runs] /\ attempts' \in [Callers -> Nat]
  BY Zenon DEF ConsumerTypeOK, RecordHandled, RunGoto, Runs
<1> QED
  BY <1>2, <1>3, Zenon DEF ConsumerTypeOK, RecordHandled, group

\* A loop that gets a batch.
LEMMA FetchedType ==
  ASSUME ConsumerTypeOK, TypeOK', NEW c \in Callers, Fetched(c)
  PROVE  ConsumerTypeOK'
<1>1. PICK n \in [Partitions -> 0..MaxPollRecords] :
        /\ next' = [next EXCEPT ![c] = fetch[c]]
        /\ end' = [end EXCEPT ![c] = [p \in Partitions |-> fetch[c][p] + n[p]]]
        /\ fetch' = [fetch EXCEPT ![c] = [p \in Partitions |-> fetch[c][p] + n[p]]]
  BY FetchedBatch, Zenon
<1>2. fetch[c] \in [Partitions -> Offsets] /\ \A p \in Partitions : n[p] \in Nat
  BY BatchSize, Zenon DEF ConsumerTypeOK
<1>3. [p \in Partitions |-> fetch[c][p] + n[p]] \in [Partitions -> Offsets]
  BY <1>2, SumType, Zenon
<1>4. /\ next' \in [Callers -> [Partitions -> Offsets]]
      /\ end' \in [Callers -> [Partitions -> Offsets]]
      /\ fetch' \in [Callers -> [Partitions -> Offsets]]
  BY <1>1, <1>2, <1>3, Zenon DEF ConsumerTypeOK
<1>5. run' \in [Callers -> Runs] /\ UNCHANGED <<canceled, marked, current, attempts, group, dlq, disruptions>>
  BY Zenon DEF ConsumerTypeOK, Fetched, RunGoto, Runs
<1> QED
  BY <1>4, <1>5, Zenon DEF ConsumerTypeOK, group

\* The steps of Run preserve the types, case by case.
LEMMA RunType ==
  ASSUME ConsumerTypeOK, TypeOK', NEW c \in Callers, Start(c) \/ RunStep(c)
  PROVE  ConsumerTypeOK'
<1>0. current \in [Callers -> Partitions] /\ attempts \in [Callers -> Nat]
  BY Zenon DEF ConsumerTypeOK
<1>1. CASE Start(c) \/ BatchDone(c) \/ GiveUp(c)
  BY <1>0, <1>1, MoveType, Zenon DEF Start, BatchDone, GiveUp, Runs
<1>2. CASE InCall(c)
  BY <1>2, Zenon DEF InCall, ConsumerTypeOK, conVars, position, group
<1>3. CASE Retry(c)
  <2>1. attempts' \in [Callers -> Nat]
    BY <1>0, <1>3, CountUp, Zenon DEF Retry
  <2> QED
    BY <1>3, <2>1, Zenon DEF Retry, ConsumerTypeOK, position, group
<1>4. CASE Poll(c)
  <2>1. run' \in [Callers -> Runs] /\ marked' \in [Callers -> [Partitions -> Offsets]]
    BY <1>4, Zenon DEF Poll, ConsumerTypeOK, RunGoto, Runs
  <2> QED
    BY <1>4, <2>1, Zenon DEF Poll, ConsumerTypeOK, group
<1>5. ASSUME NEW p \in Partitions, Take(c, p) PROVE ConsumerTypeOK'
  <2>1. current' \in [Callers -> Partitions] /\ attempts' \in [Callers -> Nat]
    BY <1>0, <1>5, Zenon DEF Take
  <2>2. RunGoto(c, "dlq") \/ RunGoto(c, "reconcile")
    BY <1>5, Zenon DEF Take
  <2>3. UNCHANGED <<canceled, position, group, dlq, disruptions>>
    BY <1>5, Zenon DEF Take
  <2> QED
    BY <2>1, <2>2, <2>3, MoveType, Zenon DEF Runs
<1>6. CASE CallSucceeded(c)
  <2>1. RecordHandled(c) /\ dlq' \subseteq Partitions \X Offsets
    BY <1>6, Zenon DEF CallSucceeded, ConsumerTypeOK
  <2> QED
    BY <2>1, HandledType, Zenon
<1>7. CASE PublishToDLQ(c)
  <2>1. RecordHandled(c) /\ dlq' \subseteq Partitions \X Offsets
    BY <1>7, CurrentType, Zenon DEF PublishToDLQ, ConsumerTypeOK
  <2> QED
    BY <2>1, HandledType
<1> QED
  BY <1>1, <1>2, <1>3, <1>4, <1>5, <1>6, <1>7, FetchedType, Zenon DEF RunStep

\* Every step preserves the types of the consumer's own variables.
LEMMA ConsumerTypeStep ==
  ASSUME ConsumerTypeOK, TypeOK', [Next]_vars
  PROVE  ConsumerTypeOK'
<1>1. CASE UNCHANGED conVars
  BY <1>1 DEF ConsumerTypeOK, conVars, position, group
<1>2. ASSUME NEW c \in Callers, Crash(c) \/ PollReturns(c) \/ PublishToDLQFails(c) PROVE ConsumerTypeOK'
  <2>1. Down(c)
    BY <1>2, Zenon DEF Crash, PollReturns, PublishToDLQFails
  <2>2. dlq' \subseteq Partitions \X Offsets
    BY <1>2, CurrentType, Zenon DEF Crash, PollReturns, PublishToDLQFails, ConsumerTypeOK
  <2>3. disruptions' \in Nat
    BY <1>2, DisruptionType, Zenon DEF Crash, PollReturns, PublishToDLQFails, ConsumerTypeOK
  <2> QED
    BY <2>1, <2>2, <2>3, DownType, Zenon
<1>3. ASSUME NEW c \in Callers, Cancel(c) PROVE ConsumerTypeOK'
  <2>1. canceled' \in [Callers -> BOOLEAN]
    BY <1>3, Zenon DEF Cancel, ConsumerTypeOK
  <2>2. disruptions' \in Nat
    BY <1>3, DisruptionType, Zenon DEF Cancel, ConsumerTypeOK
  <2> QED
    BY <1>3, <2>1, <2>2, Zenon DEF Cancel, ConsumerTypeOK, position, group
<1>4. ASSUME NEW p \in Partitions, NEW c \in Group, Join(p, c) \/ Rebalance(p, c) PROVE ConsumerTypeOK'
  <2>1. Assign(p, c) /\ c \in Callers
    BY <1>4, Zenon DEF Join, Rebalance, Group
  <2>2. disruptions' \in Nat
    BY <1>4, DisruptionType, Zenon DEF Join, Rebalance, ConsumerTypeOK
  <2> QED
    BY <2>1, <2>2, Zenon DEF Assign, ConsumerTypeOK
<1>5. ASSUME NEW p \in Partitions, AutoCommit(p) PROVE ConsumerTypeOK'
  <2>1. marked[owner[p]][p] \in Offsets
    BY <1>5, OwnerType, PositionTypes, Zenon DEF AutoCommit
  <2>2. committed' \in [Partitions -> Offsets]
    BY <1>5, <2>1 DEF AutoCommit, ConsumerTypeOK
  <2> QED
    BY <1>5, <2>2, Zenon DEF AutoCommit, ConsumerTypeOK, position
<1> QED
  BY <1>1, <1>2, <1>3, <1>4, <1>5, RunType, Zenon DEF Next, Environment, vars

-----------------------------------------------------------------------------
(* Theorems *)

\* The induction starts: no process has fetched, handled or committed anything.
LEMMA InitConInv == Init => ConInv
<1> SUFFICES ASSUME Init PROVE ConInv
  OBVIOUS
<1>1. RecInv /\ TypeOK
  BY RecInvInit DEF Init, RecInv
<1>2. AtStart \in [Partitions -> Offsets] /\ \A p \in Partitions : AtStart[p] = 1
  BY AtStartType
<1>3. (CHOOSE p \in Partitions : TRUE) \in Partitions
  BY Zenon
<1>4. ConsumerTypeOK
  BY <1>1, <1>2, <1>3, Zenon DEF Init, ConsumerTypeOK, Runs
<1>5. Consuming
  BY <1>2, FitsStart, Zenon DEF Init, Consuming, Progress, Working
<1>6. Commits
  BY <1>2, FitsStart, Zenon DEF Init, Commits
<1> QED
  BY <1>1, <1>4, <1>5, <1>6 DEF ConInv

\* Every step of the consumers and of the store preserves ConInv.
LEMMA NextConInv == ConInv /\ [Next]_vars => ConInv'
<1> SUFFICES ASSUME ConInv, [Next]_vars PROVE ConInv'
  BY Zenon
<1>1. dlq \subseteq dlq'
  <2>1. ASSUME NEW c \in Callers, Start(c) \/ RunStep(c) PROVE dlq \subseteq dlq'
    BY <2>1, Zenon DEF RunStep, Start, Poll, Fetched, Take, BatchDone, InCall, CallSucceeded,
       RecordHandled, Retry, GiveUp, PublishToDLQ, conVars
  <2>2. ASSUME NEW c \in Callers, Crash(c) \/ Cancel(c) \/ PollReturns(c) \/ PublishToDLQFails(c)
        PROVE  dlq \subseteq dlq'
    BY <2>2, Zenon DEF Crash, Cancel, PollReturns, PublishToDLQFails
  <2>3. ASSUME NEW p \in Partitions, NEW c \in Group, Join(p, c) \/ Rebalance(p, c) PROVE dlq \subseteq dlq'
    BY <2>3, Zenon DEF Join, Rebalance, Assign
  <2>4. ASSUME NEW p \in Partitions, AutoCommit(p) PROVE dlq \subseteq dlq'
    BY <2>4, Zenon DEF AutoCommit
  <2>5. CASE UNCHANGED conVars
    BY <2>5 DEF conVars
  <2> QED
    BY <2>1, <2>2, <2>3, <2>4, <2>5, Zenon DEF Next, Environment, vars
<1>2. RecInv' /\ TypeOK' /\ Done \subseteq Done'
  BY <1>1, RecPart, Zenon
<1>3. ConsumerTypeOK'
  BY <1>2, ConsumerTypeStep, Zenon DEF ConInv
<1>4. ASSUME NEW c \in Callers, Start(c) \/ RunStep(c) PROVE Consuming' /\ Commits'
  <2>1. CASE CallSucceeded(c)
    <3>1. RecordHandled(c) /\ UNCHANGED recVars /\ run[c] = "reconcile" /\ step[c] = "done"
      BY <2>1, Zenon DEF CallSucceeded
    <3>2. CurrentRecord(c) \in Done'
      BY <1>2, <3>1, DoneIsHandled, Zenon DEF CurrentRecord
    <3> QED
      BY <1>2, <3>1, <3>2, HandledConsuming, Zenon
  <2>2. CASE PublishToDLQ(c)
    <3>1. current[c] \in Partitions /\ next[c][current[c]] < end[c][current[c]]
      BY ConParts, <2>2, PositionTypes, Zenon DEF PublishToDLQ, Consuming, Working
    <3>2. next[c][current[c]] \in Offsets /\ next[c][current[c]] < EndOfLog(current[c])
      BY <3>1, InLog, Zenon
    <3>3. CurrentRecord(c) \in dlq'
      BY <2>2, Zenon DEF PublishToDLQ
    <3>4. CurrentRecord(c) \in Done'
      BY <3>1, <3>2, <3>3, Zenon DEF Done, Handled, CurrentRecord, EndOfLog
    <3> QED
      BY <1>2, <2>2, <3>4, HandledConsuming, Zenon DEF PublishToDLQ
  <2> QED
    BY <1>2, <1>4, <2>1, <2>2, StayConsuming, PollConsuming, FetchedConsuming, Zenon DEF RunStep,
       Stays
<1>5. ASSUME NEW c \in Callers, Crash(c) \/ PollReturns(c) \/ PublishToDLQFails(c) PROVE Consuming' /\ Commits'
  <2>1. Down(c) /\ UNCHANGED event
    BY <1>5, Zenon DEF Crash, Dies, PollReturns, PublishToDLQFails, recVars, call
  <2> QED
    BY <1>2, <2>1, DownConsuming, Zenon
<1>6. ASSUME NEW c \in Callers, Cancel(c) PROVE Consuming' /\ Commits'
  BY <1>2, <1>6, StayConsuming, Zenon DEF Stays
<1>7. ASSUME NEW p \in Partitions, NEW c \in Group, Join(p, c) \/ Rebalance(p, c) PROVE Consuming' /\ Commits'
  BY <1>2, <1>7, AssignConsuming, Zenon DEF Join, Rebalance
<1>8. ASSUME NEW p \in Partitions, AutoCommit(p) PROVE Consuming' /\ Commits'
  BY <1>2, <1>8, AutoCommitConsuming
<1>9. ASSUME UNCHANGED conVars, UNCHANGED event PROVE Consuming' /\ Commits'
  <2>1. Consuming'
    BY ConParts, <1>2, <1>9, Idle, Zenon DEF Consuming, conVars, position
  <2>2. Commits'
    BY ConParts, <1>2, <1>9, SameGroup, Zenon DEF Commits, conVars, position, group
  <2> QED
    BY <2>1, <2>2, Zenon
<1>10. Consuming' /\ Commits'
  BY <1>4, <1>5, <1>6, <1>7, <1>8, <1>9, Zenon DEF Next, Environment, vars, recVars, call,
     LateInsert, LateUpsert
<1> QED
  BY <1>2, <1>3, <1>10, Zenon DEF ConInv

\* The inductive invariant the theorems on consumer.go below rest on: what a loop
\* has passed is reconciled or dead-lettered, and what is committed it has passed.
THEOREM ConInvariant == Spec => []ConInv
  BY InitConInv, NextConInv, PTL DEF Spec

\* The variables of the consumers keep their types.
THEOREM ConsumerTypeCorrect == Spec => []ConsumerTypeOK
<1>1. ConInv => ConsumerTypeOK
  BY DEF ConInv
<1> QED
  BY <1>1, ConInvariant, PTL

\* The consumers are callers Reconciler allows: all that ReconcilerProofs says
\* of any callers holds of them.
THEOREM ImplementsReconciler == Spec => RecSpec
<1>1. Init => RecInit
  BY DEF Init
<1>2. ConInv /\ [Next]_vars => [RecNext]_recVars
  BY RecSteps
<1> QED
  BY <1>1, <1>2, ConInvariant, PTL DEF Spec, RecSpec

\* No redelivery, retry, rebalance or crash of the running system folds a
\* transaction twice, and what Reconcile calls done is.
THEOREM ConsumersFoldOnce == Spec => [](FoldedAtMostOnce /\ DoneIsCovered)
  BY ImplementsReconciler, FoldedOnce, DoneCovered, PTL

\* Nothing in the system takes a row or a watermark back.
THEOREM ConsumersAdvance == Spec => OnlyAdvances
  BY ImplementsReconciler, Advancing, PTL

\* The group never commits past a record that was neither reconciled nor
\* dead-lettered.
THEOREM NothingLost == Spec => []CommittedIsHandled
<1>1. ConInv => CommittedIsHandled
  <2> SUFFICES ASSUME ConInv, NEW p \in Partitions, NEW o \in 1..(committed[p] - 1) PROVE Handled(p, o)
    BY Zenon DEF CommittedIsHandled
  <2>1. <<p, o>> \in Done
    BY ConParts DEF Commits, UpTo
  <2> QED
    BY <2>1, Zenon DEF Done
<1> QED
  BY <1>1, ConInvariant, PTL

\* A committed offset never moves back, whoever commits it.
THEOREM CommitsNeverBack == Spec => CommitsAdvance
<1>1. ConInv /\ [Next]_vars => [\A p \in Partitions : committed'[p] >= committed[p]]_vars
  <2> SUFFICES ASSUME ConInv, Next, NEW p \in Partitions PROVE committed'[p] >= committed[p]
    BY Zenon
  <2>1. committed \in [Partitions -> Offsets]
    BY ConParts, Zenon DEF ConsumerTypeOK
  <2>2. ASSUME committed' = committed PROVE committed'[p] >= committed[p]
    BY <2>1, <2>2, Order, Zenon
  <2>3. ASSUME NEW q \in Partitions, AutoCommit(q) PROVE committed'[p] >= committed[p]
    <3>1. TypeOK /\ [RecNext]_recVars /\ dlq \subseteq dlq'
      BY ConParts, <2>3, Zenon DEF RecInv, AutoCommit
    <3>2. Done \subseteq Done'
      BY <3>1, DoneKept, Zenon
    <3>3. committed'[q] >= committed[q]
      BY <2>3, <3>2, AutoCommitConsuming, Zenon
    <3>4. p # q => committed'[p] = committed[p]
      BY <2>1, <2>3, Zenon DEF AutoCommit
    <3>5. committed[p] >= committed[p]
      BY <2>1, Order, Zenon
    <3> QED
      BY <3>3, <3>4, <3>5, Zenon
  <2>4. ASSUME NEW c \in Callers, Start(c) \/ RunStep(c) PROVE committed' = committed
    BY <2>4, Zenon DEF RunStep, Start, Poll, Fetched, Take, BatchDone, InCall, CallSucceeded,
       RecordHandled, Retry, GiveUp, PublishToDLQ, conVars, group
  <2>5. ASSUME NEW c \in Callers, Crash(c) \/ Cancel(c) \/ PollReturns(c) \/ PublishToDLQFails(c)
        PROVE  committed' = committed
    BY <2>5, Zenon DEF Crash, Cancel, PollReturns, PublishToDLQFails, Down, group
  <2>6. ASSUME NEW q \in Partitions, NEW c \in Group, Join(q, c) \/ Rebalance(q, c) PROVE committed' = committed
    BY <2>6, Zenon DEF Join, Rebalance, Assign
  <2>7. CASE UNCHANGED conVars
    BY <2>2, <2>7 DEF conVars, group
  <2> QED
    BY <2>2, <2>3, <2>4, <2>5, <2>6, <2>7, Zenon DEF Next, Environment
<1> QED
  BY <1>1, ConInvariant, PTL DEF Spec, CommitsAdvance
=============================================================================
