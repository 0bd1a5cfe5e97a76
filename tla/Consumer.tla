------------------------------- MODULE Consumer -------------------------------
(***************************************************************************)
(* The processor's consumers: Consumer.Run polling the ingestion topic,    *)
(* decoding each record, reconciling it with retries and routing it to the *)
(* dead-letter topic when that fails, composed with Reconciler.  The       *)
(* Callers of Reconciler are the consumers, one per processor process.     *)
(*                                                                         *)
(* A consumer in Manual was started with KAFKA_MANUAL_PARTITIONS: it reads *)
(* its partitions from the start at every start-up and commits nothing.    *)
(* The others form the consumer group.  The Kafka client is external and   *)
(* modelled from the way consumer.go configures and calls it: with its     *)
(* default auto-commit a record becomes committable when PollRecords is    *)
(* called again after the poll that returned it, and a partition can be    *)
(* given to another member while its former owner still works on records   *)
(* it has polled.                                                          *)
(*                                                                         *)
(* Log is the whole content the topic ever gets.  A poll may return any    *)
(* part of what follows the fetch position, so records that have not been  *)
(* produced yet need no action of their own.  The same event may occur     *)
(* several times in Log: a client retries a request that was answered with *)
(* an error although the record was produced.                              *)
(***************************************************************************)
EXTENDS Reconciler

CONSTANTS Partitions,
          Log,         \* the records of each partition
          Undecodable, \* a record decodeTransaction rejects
          Manual,      \* the consumers with manually assigned partitions
          NoOwner,     \* the owner of a partition no group member has
          MaxRetries,
          MaxPollRecords,
          MaxDisruptions \* bound on cancellations, rebalances, fetch and DLQ errors

ASSUME ConsumerAssumption ==
  /\ Partitions # {}
  /\ Undecodable \notin Events
  /\ Log \in [Partitions -> Seq(Events \cup {Undecodable})]
  /\ Manual \subseteq Callers
  /\ NoOwner \notin Callers
  /\ MaxRetries \in Nat
  /\ MaxPollRecords \in Nat \ {0}
  /\ MaxDisruptions \in Nat

VARIABLES
  run,        \* where each consumer is in Run; "down" when it is not running
  canceled,   \* ctx of Run is canceled
  fetch,      \* offset the client fetches next, per consumer and partition
  marked,     \* end of the records auto-commit may commit
  next,       \* offset of the next record of the polled batch to process
  end,        \* end of the polled batch
  current,    \* partition of the record being processed
  attempts,   \* calls of Reconcile made for that record
  owner,      \* the group member each partition is assigned to
  committed,  \* the group's committed offset of each partition
  dlq,        \* the records published to the dead-letter topic
  disruptions \* how many disruptions have happened

position == <<fetch, marked, next, end>>
group == <<owner, committed>>
conVars == <<run, canceled, position, current, attempts, group, dlq, disruptions>>
vars == <<recVars, conVars>>

Group == Callers \ Manual
Offsets == Nat \ {0}
Record(p, o) == Log[p][o]
EndOfLog(p) == Len(Log[p]) + 1

Runs == {"down", "poll", "polling", "batch", "reconcile", "dlq"}

ConsumerTypeOK ==
  /\ TypeOK
  /\ run \in [Callers -> Runs]
  /\ canceled \in [Callers -> BOOLEAN]
  /\ fetch \in [Callers -> [Partitions -> Offsets]]
  /\ marked \in [Callers -> [Partitions -> Offsets]]
  /\ next \in [Callers -> [Partitions -> Offsets]]
  /\ end \in [Callers -> [Partitions -> Offsets]]
  /\ current \in [Callers -> Partitions]
  /\ attempts \in [Callers -> Nat]
  /\ owner \in [Partitions -> Group \cup {NoOwner}]
  /\ committed \in [Partitions -> Offsets]
  /\ dlq \subseteq Partitions \X Offsets
  /\ disruptions \in Nat

AtStart == [p \in Partitions |-> 1]

Init ==
  /\ RecInit
  /\ run = [c \in Callers |-> "down"]
  /\ canceled = [c \in Callers |-> FALSE]
  /\ fetch = [c \in Callers |-> AtStart]
  /\ marked = [c \in Callers |-> AtStart]
  /\ next = [c \in Callers |-> AtStart]
  /\ end = [c \in Callers |-> AtStart]
  /\ current = [c \in Callers |-> CHOOSE p \in Partitions : TRUE]
  /\ attempts = [c \in Callers |-> 0]
  /\ owner = [p \in Partitions |-> NoOwner]
  /\ committed = AtStart
  /\ dlq = {}
  /\ disruptions = 0

-----------------------------------------------------------------------------
(* The process and the consumer group *)

RunGoto(c, r) == run' = [run EXCEPT ![c] = r]

\* Something outside the program goes wrong or stops it.
Disruption == disruptions < MaxDisruptions /\ disruptions' = disruptions + 1

\* NewConsumer and Run start.  Nothing is remembered of an earlier run: a group
\* member has no partition yet, a manual consumer reads from the start.
Start(c) ==
  /\ run[c] = "down"
  /\ RunGoto(c, "poll")
  /\ UNCHANGED <<recVars, canceled, position, current, attempts, group, dlq, disruptions>>

\* The process is gone: its partitions are up for reassignment and its
\* positions are lost.
Down(c) ==
  /\ RunGoto(c, "down")
  /\ owner' = [p \in Partitions |-> IF owner[p] = c THEN NoOwner ELSE owner[p]]
  /\ canceled' = [canceled EXCEPT ![c] = FALSE]
  /\ fetch' = [fetch EXCEPT ![c] = AtStart]
  /\ marked' = [marked EXCEPT ![c] = AtStart]
  /\ next' = [next EXCEPT ![c] = AtStart]
  /\ end' = [end EXCEPT ![c] = AtStart]
  /\ attempts' = [attempts EXCEPT ![c] = 0]
  /\ UNCHANGED <<current, committed>>

Crash(c) ==
  /\ run[c] # "down"
  /\ Dies(c)
  /\ Down(c)
  /\ UNCHANGED <<dlq, disruptions>>

\* SIGTERM cancels the context Run was given.
Cancel(c) ==
  /\ run[c] # "down" /\ ~canceled[c]
  /\ Disruption
  /\ canceled' = [canceled EXCEPT ![c] = TRUE]
  /\ UNCHANGED <<recVars, run, position, current, attempts, group, dlq>>

\* Mutant of Assign: the member fetches from the last record committed.
AssignLastCommitted(p, c) ==
  /\ run[c] # "down" /\ owner[p] # c
  /\ owner' = [owner EXCEPT ![p] = c]
  /\ fetch' = [fetch EXCEPT ![c][p] = committed[p] - 1]
  /\ marked' = [marked EXCEPT ![c][p] = committed[p] - 1]
  /\ UNCHANGED <<recVars, run, canceled, next, end, current, attempts, committed, dlq>>

\* Mutant of Assign: the member ignores the committed offset.
AssignFromStart(p, c) ==
  /\ run[c] # "down" /\ owner[p] # c
  /\ owner' = [owner EXCEPT ![p] = c]
  /\ fetch' = [fetch EXCEPT ![c][p] = 1]
  /\ marked' = [marked EXCEPT ![c][p] = 1]
  /\ UNCHANGED <<recVars, run, canceled, next, end, current, attempts, committed, dlq>>

\* The group assigns p to c, which fetches from the committed offset.  The
\* batch c or p's former owner is processing is not taken back.
Assign(p, c) ==
  /\ run[c] # "down" /\ owner[p] # c
  /\ owner' = [owner EXCEPT ![p] = c]
  /\ fetch' = [fetch EXCEPT ![c][p] = committed[p]]
  /\ marked' = [marked EXCEPT ![c][p] = committed[p]]
  /\ UNCHANGED <<recVars, run, canceled, next, end, current, attempts, committed, dlq>>

Join(p, c) ==
  /\ owner[p] = NoOwner
  /\ Assign(p, c)
  /\ UNCHANGED disruptions

Rebalance(p, c) ==
  /\ owner[p] # NoOwner
  /\ Assign(p, c)
  /\ Disruption

AutoCommit(p) ==
  /\ owner[p] # NoOwner
  /\ committed[p] # marked[owner[p]][p]
  /\ committed' = [committed EXCEPT ![p] = marked[owner[p]][p]]
  /\ UNCHANGED <<recVars, run, canceled, position, current, attempts, owner, dlq, disruptions>>

-----------------------------------------------------------------------------
(* Run *)

\* Mutant of Poll: nothing is ever marked for commit.
PollWithoutMark(c) ==
  /\ run[c] = "poll"
  /\ RunGoto(c, "polling")
  /\ UNCHANGED <<recVars, canceled, position, current, attempts, group, dlq, disruptions>>

\* PollRecords is called: what the previous poll returned becomes committable.
Poll(c) ==
  /\ run[c] = "poll"
  /\ RunGoto(c, "polling")
  /\ marked' = [marked EXCEPT ![c] = fetch[c]]
  /\ UNCHANGED <<recVars, canceled, fetch, next, end, current, attempts, group, dlq, disruptions>>

Assigned(c) == {p \in Partitions : c \in Manual \/ owner[p] = c}

\* Mutant of Fetched: records are marked for commit by the poll that returns
\* them.
FetchedAndMarked(c) ==
  /\ run[c] = "polling" /\ ~canceled[c]
  /\ \E n \in [Partitions -> 0..MaxPollRecords] :
       /\ \E p \in Partitions : n[p] > 0
       /\ \A p \in Partitions : n[p] > 0 => p \in Assigned(c) /\ fetch[c][p] + n[p] <= EndOfLog(p)
       /\ next' = [next EXCEPT ![c] = fetch[c]]
       /\ end' = [end EXCEPT ![c] = [p \in Partitions |-> fetch[c][p] + n[p]]]
       /\ fetch' = [fetch EXCEPT ![c] = [p \in Partitions |-> fetch[c][p] + n[p]]]
       /\ marked' = fetch'
  /\ RunGoto(c, "batch")
  /\ UNCHANGED <<recVars, canceled, current, attempts, group, dlq, disruptions>>

\* PollRecords returns n[p] records of each assigned partition p.  The limit on
\* their total is taken per partition, which allows every batch the code can get.
Fetched(c) ==
  /\ run[c] = "polling" /\ ~canceled[c]
  /\ \E n \in [Partitions -> 0..MaxPollRecords] :
       /\ \E p \in Partitions : n[p] > 0
       /\ \A p \in Partitions : n[p] > 0 => p \in Assigned(c) /\ fetch[c][p] + n[p] <= EndOfLog(p)
       /\ next' = [next EXCEPT ![c] = fetch[c]]
       /\ end' = [end EXCEPT ![c] = [p \in Partitions |-> fetch[c][p] + n[p]]]
       /\ fetch' = [fetch EXCEPT ![c] = [p \in Partitions |-> fetch[c][p] + n[p]]]
  /\ RunGoto(c, "batch")
  /\ UNCHANGED <<recVars, canceled, marked, current, attempts, group, dlq, disruptions>>

\* Run returns: nil when ctx is canceled, else the broker's fetch error.
PollReturns(c) ==
  /\ run[c] = "polling"
  /\ IF canceled[c] THEN UNCHANGED disruptions ELSE Disruption
  /\ Down(c)
  /\ UNCHANGED <<recVars, dlq>>

\* EachPartition, EachRecord: a partition may be visited several times in one
\* poll, so any partition of the batch may be next.
Take(c, p) ==
  /\ run[c] = "batch" /\ next[c][p] < end[c][p]
  /\ current' = [current EXCEPT ![c] = p]
  /\ attempts' = [attempts EXCEPT ![c] = 1]
  /\ IF Record(p, next[c][p]) = Undecodable
     THEN RunGoto(c, "dlq") /\ UNCHANGED recVars
     ELSE RunGoto(c, "reconcile") /\ Call(c, Record(p, next[c][p]))
  /\ UNCHANGED <<canceled, position, group, dlq, disruptions>>

BatchDone(c) ==
  /\ run[c] = "batch"
  /\ \A p \in Partitions : next[c][p] = end[c][p]
  /\ RunGoto(c, "poll")
  /\ UNCHANGED <<recVars, canceled, position, current, attempts, group, dlq, disruptions>>

RecordHandled(c) ==
  /\ next' = [next EXCEPT ![c][current[c]] = @ + 1]
  /\ attempts' = [attempts EXCEPT ![c] = 0]
  /\ RunGoto(c, "batch")
  /\ UNCHANGED <<canceled, fetch, marked, end, current, group, disruptions>>

\* reconcileWithRetry: one step of the Reconcile call in progress.
InCall(c) ==
  /\ run[c] = "reconcile"
  /\ Reconcile(c) \/ Fails(c)
  /\ UNCHANGED conVars

CallSucceeded(c) ==
  /\ run[c] = "reconcile" /\ step[c] = "done"
  /\ RecordHandled(c)
  /\ UNCHANGED <<recVars, dlq, disruptions>>

Retries(c) == attempts[c] <= MaxRetries /\ ~canceled[c]

\* Mutant of Retry: the retry goes on with the row instead of calling
\* Reconcile again.
RetryFromRow(c) ==
  /\ run[c] = "reconcile" /\ step[c] = "failed"
  /\ Retries(c)
  /\ Goto(c, "getByEventID")
  /\ attempts' = [attempts EXCEPT ![c] = @ + 1]
  /\ UNCHANGED <<store, event, inserted, updated, faults,
                 run, canceled, position, current, group, dlq, disruptions>>

Retry(c) ==
  /\ run[c] = "reconcile" /\ step[c] = "failed"
  /\ Retries(c)
  /\ Call(c, event[c])
  /\ attempts' = [attempts EXCEPT ![c] = @ + 1]
  /\ UNCHANGED <<run, canceled, position, current, group, dlq, disruptions>>

\* Mutant of GiveUp: the record is skipped without a dead letter.
GiveUpSilently(c) ==
  /\ run[c] = "reconcile" /\ step[c] = "failed"
  /\ ~Retries(c)
  /\ RecordHandled(c)
  /\ UNCHANGED <<recVars, dlq>>

GiveUp(c) ==
  /\ run[c] = "reconcile" /\ step[c] = "failed"
  /\ ~Retries(c)
  /\ RunGoto(c, "dlq")
  /\ UNCHANGED <<recVars, canceled, position, current, attempts, group, dlq, disruptions>>

CurrentRecord(c) == <<current[c], next[c][current[c]]>>

\* publishToDLQ succeeds and the record is skipped.
PublishToDLQ(c) ==
  /\ run[c] = "dlq"
  /\ dlq' = dlq \cup {CurrentRecord(c)}
  /\ RecordHandled(c)
  /\ UNCHANGED recVars

\* publishToDLQ fails, perhaps after the broker has the record: dlqErr skips
\* the rest of the batch and Run returns without polling again.
PublishToDLQFails(c) ==
  /\ run[c] = "dlq"
  /\ IF canceled[c] THEN UNCHANGED disruptions ELSE Disruption
  /\ dlq' \in {dlq, dlq \cup {CurrentRecord(c)}}
  /\ Down(c)
  /\ UNCHANGED recVars

RunStep(c) ==
  \/ Poll(c)
  \/ Fetched(c)
  \/ \E p \in Partitions : Take(c, p)
  \/ BatchDone(c)
  \/ InCall(c)
  \/ CallSucceeded(c)
  \/ Retry(c)
  \/ GiveUp(c)
  \/ PublishToDLQ(c)

Environment ==
  \/ \E c \in Callers : Crash(c) \/ Cancel(c) \/ PollReturns(c) \/ PublishToDLQFails(c)
  \/ \E p \in Partitions, c \in Group : Rebalance(p, c)
  \/ (LateInsert \/ LateUpsert) /\ UNCHANGED conVars

Next ==
  \/ \E c \in Callers : Start(c) \/ RunStep(c)
  \/ \E p \in Partitions, c \in Group : Join(p, c)
  \/ \E p \in Partitions : AutoCommit(p)
  \/ Environment

Spec == Init /\ [][Next]_vars

\* A running consumer keeps executing Run, a stopped processor is restarted by
\* its Deployment, the group gives every partition an owner and auto-commit
\* runs.  Nothing is assumed of the faults, which MaxFaults
\* and MaxDisruptions bound.
Fairness ==
  /\ \A c \in Callers :
       /\ WF_vars(Start(c))
       /\ WF_vars(RunStep(c))
       /\ WF_vars(canceled[c] /\ PollReturns(c))
  /\ \A p \in Partitions :
       /\ WF_vars(\E c \in Group : Join(p, c))
       /\ WF_vars(AutoCommit(p))

FairSpec == Spec /\ Fairness

-----------------------------------------------------------------------------
(* Properties *)

Covered(e) == HasRow(e) /\ states[KeyOf[e]].last >= transactions[e]

\* The record is in the dead-letter topic or redelivering it is a no-op.
Handled(p, o) ==
  \/ <<p, o>> \in dlq
  \/ Record(p, o) # Undecodable /\ Covered(Record(p, o))

\* No record is lost silently.  Whatever crashes, rebalances, shutdowns and
\* failed dead-letter publishes happen, the group's committed offset only
\* passes records that were reconciled or are in the dead-letter topic.
CommittedIsHandled ==
  \A p \in Partitions : \A o \in 1..(committed[p] - 1) : Handled(p, o)

\* The committed offset of a partition never moves back, so a rebalance never
\* makes the group reprocess what it had committed.
CommitsAdvance == [][\A p \in Partitions : committed'[p] >= committed[p]]_vars

\* Every record of the topic is eventually reconciled or dead-lettered, and
\* the group's committed offsets reach the end of the log and stay there.
EventuallyCommitted == <>[](\A p \in Partitions : committed[p] = EndOfLog(p))

\* A call of Reconcile that returns nil for an event leaves the event's effect
\* in the reconciled state: a redelivery is a no-op only if reconciliation
\* completed, and otherwise completes it.
NilMeansReconciled ==
  \A c \in Callers :
    run[c] = "reconcile" /\ step[c] = "done" => transactions[event[c]] \in Folded(KeyOf[event[c]])
=============================================================================
