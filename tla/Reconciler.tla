------------------------------ MODULE Reconciler ------------------------------
(***************************************************************************)
(* processor.Reconciler.Reconcile running against the two Postgres-backed  *)
(* repositories of the ledger.                                             *)
(*                                                                         *)
(* Any number of callers may be inside Reconcile at the same time, each    *)
(* for any event.  This is weaker than what the comment on Reconcile asks  *)
(* of its environment, and it is what the running system can produce: a    *)
(* rebalance overlap, several replicas of a dedicated processor assigned   *)
(* the same partitions, the shared group reading the same partitions as a  *)
(* dedicated processor.  Module Consumer restricts the callers to the      *)
(* processor's real poll loop.                                             *)
(*                                                                         *)
(* Every repository call is one atomic statement on the database.  The     *)
(* caller may get an error although the statement takes effect, at once or *)
(* later: a write whose caller saw an error, or crashed, stays in          *)
(* lateInserts or lateUpserts, and may execute at any later time or never. *)
(* A call refused by an open circuit breaker is the case where the late    *)
(* statement never executes.                                               *)
(*                                                                         *)
(* Money is abstracted: a reconciled state is represented by the ids of    *)
(* the transactions folded into it, in the order in which they were        *)
(* folded.                                                                 *)
(***************************************************************************)
EXTENDS Naturals, Sequences, FiniteSets

CONSTANTS Callers,    \* concurrent callers of Reconcile
          Events,     \* event ids, the idempotency keys of transactions
          Keys,       \* (tenant, instrument) pairs, the keys of reconciled_state
          KeyOf,      \* the pair each event belongs to
          MaxFaults   \* bound on errors, crashes and rebalances in a behaviour

ASSUME ReconcilerAssumption == Events # {} /\ KeyOf \in [Events -> Keys] /\ MaxFaults \in Nat

VARIABLES
  transactions,  \* the id of each event's row, 0 when there is none
  sequence,      \* the next value of the BIGSERIAL behind transactions.id
  states,        \* the reconciled_state row of each key
  lateInserts,   \* <<event, id>> of INSERTs whose caller is gone
  lateUpserts,   \* <<key, state>> of upserts whose caller is gone
  step,          \* where each caller is inside Reconcile
  event,         \* txn.EventID of each caller's call
  inserted,      \* inserted.ID, 0 until Reconcile knows it
  updated,       \* the reconciled state the caller is about to write
  faults         \* how many faults have happened

store == <<transactions, sequence, states, lateInserts, lateUpserts>>
call == <<step, event, inserted, updated>>
recVars == <<store, call, faults>>

\* No row, or a row whose last_transaction_id is NULL.
NoState == [last |-> 0, applied |-> <<>>]
ReconciledStates == [last: Nat, applied: Seq(Nat)]

\* Steps at which a caller may start a call: it is not inside one.
Returned == {"idle", "done", "failed"}
Steps == Returned \cup {"insert", "getByEventID", "getState", "upsert"}

TypeOK ==
  /\ transactions \in [Events -> Nat]
  /\ sequence \in Nat \ {0}
  /\ states \in [Keys -> ReconciledStates]
  /\ lateInserts \subseteq Events \X (Nat \ {0})
  /\ lateUpserts \subseteq Keys \X ReconciledStates
  /\ step \in [Callers -> Steps]
  /\ event \in [Callers -> Events]
  /\ inserted \in [Callers -> Nat]
  /\ updated \in [Callers -> ReconciledStates]
  /\ faults \in Nat

RecInit ==
  /\ transactions = [e \in Events |-> 0]
  /\ sequence = 1
  /\ states = [k \in Keys |-> NoState]
  /\ lateInserts = {}
  /\ lateUpserts = {}
  /\ step = [c \in Callers |-> "idle"]
  /\ event = [c \in Callers |-> CHOOSE e \in Events : TRUE]
  /\ inserted = [c \in Callers |-> 0]
  /\ updated = [c \in Callers |-> NoState]
  /\ faults = 0

-----------------------------------------------------------------------------
(* The repositories *)

HasRow(e) == transactions[e] # 0

\* TransactionStore.Insert writes the row unless event_id is taken.
InsertRow(e, id) ==
  /\ ~HasRow(e)
  /\ transactions' = [transactions EXCEPT ![e] = id]

\* Mutant of Advances: the upsert has no WHERE clause.
AdvancesAlways(k, state) == TRUE

\* The WHERE clause of ReconciledStateStore.Upsert.
Advances(k, state) == states[k].last < state.last

UpsertRow(k, state) ==
  /\ Advances(k, state)
  /\ states' = [states EXCEPT ![k] = state]

\* applyTransaction folds the transaction and moves the watermark to its id.
ApplyTransaction(state, id) ==
  [last |-> id, applied |-> Append(state.applied, id)]

-----------------------------------------------------------------------------
(* Reconcile, step by step *)

Goto(c, s) == step' = [step EXCEPT ![c] = s]

\* An operation fails for a reason outside the program.
Fault == faults < MaxFaults /\ faults' = faults + 1

\* Reconcile is called and its INSERT draws an id.  An event that already has
\* a row cannot be inserted again, so the id such an INSERT wastes is left out.
Call(c, e) ==
  /\ step[c] \in Returned
  /\ Goto(c, "insert")
  /\ event' = [event EXCEPT ![c] = e]
  /\ inserted' = [inserted EXCEPT ![c] = IF HasRow(e) THEN 0 ELSE sequence]
  /\ sequence' = IF HasRow(e) THEN sequence ELSE sequence + 1
  /\ UNCHANGED <<transactions, states, lateInserts, lateUpserts, updated, faults>>

InsertSucceeds(c) ==
  /\ step[c] = "insert"
  /\ InsertRow(event[c], inserted[c])
  /\ Goto(c, "getState")
  /\ UNCHANGED <<sequence, states, lateInserts, lateUpserts, event, inserted, updated, faults>>

\* Mutant of InsertDuplicate: a duplicate is taken for a finished reconciliation.
InsertDuplicateIsDone(c) ==
  /\ step[c] = "insert"
  /\ HasRow(event[c])
  /\ Goto(c, "done")
  /\ inserted' = [inserted EXCEPT ![c] = 0]
  /\ UNCHANGED <<store, event, updated, faults>>

\* Mutant of InsertDuplicate: the row that exists is not looked up, and the
\* state is updated with the id the INSERT drew.
InsertDuplicateKeepsID(c) ==
  /\ step[c] = "insert"
  /\ HasRow(event[c])
  /\ Goto(c, "getState")
  /\ UNCHANGED <<store, event, inserted, updated, faults>>

\* ErrDuplicateEvent.
InsertDuplicate(c) ==
  /\ step[c] = "insert"
  /\ HasRow(event[c])
  /\ Goto(c, "getByEventID")
  /\ inserted' = [inserted EXCEPT ![c] = 0]
  /\ UNCHANGED <<store, event, updated, faults>>

\* The statement a caller leaves behind when it stops waiting for an INSERT or
\* an upsert: nothing when the event had a row already.
LeaveStatement(c) ==
  /\ lateInserts' = IF step[c] = "insert" /\ inserted[c] # 0
                    THEN lateInserts \cup {<<event[c], inserted[c]>>}
                    ELSE lateInserts
  /\ lateUpserts' = IF step[c] = "upsert"
                    THEN lateUpserts \cup {<<KeyOf[event[c]], updated[c]>>}
                    ELSE lateUpserts

\* Forgets the caller's local variables.
Forget(c) ==
  /\ inserted' = [inserted EXCEPT ![c] = 0]
  /\ updated' = [updated EXCEPT ![c] = NoState]

\* Any repository call fails, or applyTransaction reports that an amount does
\* not fit, and Reconcile returns the wrapped error.
Fails(c) ==
  /\ step[c] \notin Returned
  /\ Fault
  /\ Goto(c, "failed")
  /\ LeaveStatement(c)
  /\ Forget(c)
  /\ UNCHANGED <<transactions, sequence, states, event>>

GetByEventID(c) ==
  /\ step[c] = "getByEventID"
  /\ HasRow(event[c])
  /\ inserted' = [inserted EXCEPT ![c] = transactions[event[c]]]
  /\ Goto(c, "getState")
  /\ UNCHANGED <<store, event, updated, faults>>

\* States.Get, and the watermark check says this transaction is covered.
AlreadyReconciled(c) ==
  /\ step[c] = "getState"
  /\ states[KeyOf[event[c]]].last >= inserted[c]
  /\ Goto(c, "done")
  /\ UNCHANGED <<store, event, inserted, updated, faults>>

\* States.Get, then applyTransaction on the state read.
GetStateAndApply(c) ==
  LET state == states[KeyOf[event[c]]] IN
  /\ step[c] = "getState"
  /\ state.last < inserted[c]
  /\ updated' = [updated EXCEPT ![c] = ApplyTransaction(state, inserted[c])]
  /\ Goto(c, "upsert")
  /\ UNCHANGED <<store, event, inserted, faults>>

UpsertSucceeds(c) ==
  /\ step[c] = "upsert"
  /\ UpsertRow(KeyOf[event[c]], updated[c])
  /\ Goto(c, "done")
  /\ updated' = [updated EXCEPT ![c] = NoState]
  /\ UNCHANGED <<transactions, sequence, lateInserts, lateUpserts, event, inserted, faults>>

\* ErrStaleReconciledState, which Reconcile turns into success.
UpsertStale(c) ==
  /\ step[c] = "upsert"
  /\ ~Advances(KeyOf[event[c]], updated[c])
  /\ Goto(c, "done")
  /\ updated' = [updated EXCEPT ![c] = NoState]
  /\ UNCHANGED <<store, event, inserted, faults>>

\* The caller's process dies, inside a call or between two.
Dies(c) ==
  /\ Fault
  /\ Goto(c, "idle")
  /\ LeaveStatement(c)
  /\ Forget(c)
  /\ UNCHANGED <<transactions, sequence, states, event>>

LateInsert ==
  /\ \E s \in lateInserts : InsertRow(s[1], s[2])
  /\ UNCHANGED <<sequence, states, lateInserts, lateUpserts, call, faults>>

LateUpsert ==
  /\ \E s \in lateUpserts : UpsertRow(s[1], s[2])
  /\ UNCHANGED <<transactions, sequence, lateInserts, lateUpserts, call, faults>>

\* One step inside a call.
Reconcile(c) ==
  \/ InsertSucceeds(c)
  \/ InsertDuplicate(c)
  \/ GetByEventID(c)
  \/ AlreadyReconciled(c)
  \/ GetStateAndApply(c)
  \/ UpsertSucceeds(c)
  \/ UpsertStale(c)

RecNext ==
  \/ \E c \in Callers :
       \/ \E e \in Events : Call(c, e)
       \/ Reconcile(c)
       \/ Fails(c)
       \/ Dies(c)
  \/ LateInsert
  \/ LateUpsert

RecSpec == RecInit /\ [][RecNext]_recVars

-----------------------------------------------------------------------------
(* Properties *)

Folded(k) == {states[k].applied[i] : i \in 1..Len(states[k].applied)}

\* A state reached by folding: ids strictly ascend and the watermark is the
\* last of them.
WellFolded(state) ==
  /\ \A i, j \in 1..Len(state.applied) : i < j => state.applied[i] < state.applied[j]
  /\ state.last = IF Len(state.applied) = 0 THEN 0 ELSE state.applied[Len(state.applied)]

\* No redelivery, retry, crash, concurrent caller or late statement makes
\* Reconcile fold a transaction twice or out of id order, fold a transaction
\* of another key or one that has no row, and last_transaction_id is always
\* the id of the last transaction folded.
FoldedAtMostOnce ==
  \A k \in Keys :
    /\ WellFolded(states[k])
    /\ \A id \in Folded(k) :
         \E e \in Events : KeyOf[e] = k /\ HasRow(e) /\ transactions[e] = id

\* Once Reconcile has returned nil the transaction has a row and the watermark
\* of its key has reached the row's id, so that every redelivery is a no-op.
DoneIsCovered ==
  \A c \in Callers :
    step[c] = "done" =>
      /\ HasRow(event[c])
      /\ states[KeyOf[event[c]]].last >= transactions[event[c]]

\* A row of transactions never changes once written, and reconciled_state is
\* only ever replaced by a row with a greater last_transaction_id.
OnlyAdvances ==
  [][ /\ \A e \in Events : HasRow(e) => transactions'[e] = transactions[e]
      /\ \A k \in Keys : states'[k] # states[k] => states'[k].last > states[k].last
    ]_recVars

=============================================================================
