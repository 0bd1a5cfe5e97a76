--------------------------- MODULE ReconcilerProofs ---------------------------
(***************************************************************************)
(* Proofs about Reconciler, for any callers, events, keys and bound.       *)
(*                                                                         *)
(* RecInv is the inductive invariant.  Beyond what the properties say of   *)
(* the tables it says the same of every state on its way to the tables:    *)
(* what a caller is about to write and what a late statement still may.    *)
(***************************************************************************)
EXTENDS Reconciler, TLAPS

\* Every id in the state is the id of a row of key k.
FoldsRows(rows, k, state) ==
  \A i \in 1..Len(state.applied) :
    \E e \in Events : KeyOf[e] = k /\ rows[e] # 0 /\ rows[e] = state.applied[i]

\* A state that is, or may be written to, the row of key k.
GoodState(rows, k, state) == WellFolded(state) /\ FoldsRows(rows, k, state)

StatesGood == \A k \in Keys : GoodState(transactions, k, states[k])

\* What a caller knows at each step of Reconcile.
CallGood(c) ==
  /\ step[c] = "insert" => inserted[c] # 0 \/ HasRow(event[c])
  /\ step[c] \in {"getByEventID", "getState", "upsert", "done"} => HasRow(event[c])
  /\ step[c] \in {"getState", "upsert"} => inserted[c] = transactions[event[c]]
  /\ step[c] = "upsert" =>
       /\ updated[c].last = transactions[event[c]]
       /\ GoodState(transactions, KeyOf[event[c]], updated[c])
  /\ step[c] = "done" => states[KeyOf[event[c]]].last >= transactions[event[c]]

CallsGood == \A c \in Callers : CallGood(c)

LateGood == \A s \in lateUpserts : GoodState(transactions, s[1], s[2])

RecInv == TypeOK /\ StatesGood /\ CallsGood /\ LateGood

\* The conjuncts of the invariant, for steps that need one of them.
LEMMA RecParts == RecInv => TypeOK /\ StatesGood /\ CallsGood /\ LateGood
  BY DEF RecInv

\* A row of transactions keeps its id.
RowsKept == \A e \in Events : HasRow(e) => transactions'[e] = transactions[e]

\* A reconciled_state row is only replaced by one with a greater watermark.
WatermarksAdvance == \A k \in Keys : states'[k] # states[k] => states'[k].last > states[k].last

-----------------------------------------------------------------------------
(* States *)

\* The state Reconcile starts from when there is no row.
LEMMA NoStateGood ==
  /\ NoState \in ReconciledStates
  /\ \A rows, k : GoodState(rows, k, NoState)
BY DEF NoState, ReconciledStates, GoodState, WellFolded, FoldsRows

\* A good state stays good when rows are only added.
LEMMA GoodStateKept ==
  ASSUME TypeOK, RowsKept, NEW k, NEW state, GoodState(transactions, k, state)
  PROVE  GoodState(transactions', k, state)
BY DEF RowsKept, GoodState, FoldsRows, HasRow

\* applyTransaction on a good state, with a row above its watermark, gives a
\* good state whose watermark is the row's id.
LEMMA ApplyGood ==
  ASSUME NEW rows \in [Events -> Nat], NEW e \in Events, NEW state \in ReconciledStates,
         GoodState(rows, KeyOf[e], state), state.last < rows[e]
  PROVE  /\ ApplyTransaction(state, rows[e]) \in ReconciledStates
         /\ ApplyTransaction(state, rows[e]).last = rows[e]
         /\ GoodState(rows, KeyOf[e], ApplyTransaction(state, rows[e]))
<1> DEFINE new == ApplyTransaction(state, rows[e])
           n == Len(state.applied)
<1>1. /\ state.applied \in Seq(Nat) /\ state.last \in Nat /\ n \in Nat
      /\ new = [last |-> rows[e], applied |-> Append(state.applied, rows[e])]
      /\ Len(new.applied) = n + 1
      /\ new.applied \in Seq(Nat)
  BY DEF ReconciledStates, ApplyTransaction
<1>2. /\ new.applied[n + 1] = rows[e]
      /\ \A i \in 1..n : new.applied[i] = state.applied[i]
  BY <1>1
<1>3. \A i \in 1..n : state.applied[i] < rows[e]
  <2> TAKE i \in 1..n
  <2>1. state.last = state.applied[n] /\ state.applied[i] \in Nat /\ state.applied[n] \in Nat
    BY <1>1 DEF GoodState, WellFolded
  <2>2. i < n => state.applied[i] < state.applied[n]
    BY <1>1 DEF GoodState, WellFolded
  <2> QED BY <1>1, <2>1, <2>2
<1>4. WellFolded(new)
  <2>1. \A i, j \in 1..(n + 1) : i < j => new.applied[i] < new.applied[j]
    <3> TAKE i, j \in 1..(n + 1)
    <3> HAVE i < j
    <3>1. i \in 1..n
      BY <1>1
    <3>2. CASE j = n + 1
      BY <1>2, <1>3, <3>1, <3>2
    <3>3. CASE j \in 1..n
      BY <1>2, <3>1, <3>3 DEF GoodState, WellFolded
    <3> QED BY <1>1, <3>2, <3>3
  <2> QED BY <1>1, <1>2, <2>1 DEF WellFolded
<1>5. FoldsRows(rows, KeyOf[e], new)
  <2> SUFFICES ASSUME NEW i \in 1..(n + 1)
               PROVE  \E f \in Events : KeyOf[f] = KeyOf[e] /\ rows[f] # 0 /\ rows[f] = new.applied[i]
    BY <1>1 DEF FoldsRows
  <2>1. CASE i = n + 1
    BY <1>1, <1>2, <2>1
  <2>2. CASE i \in 1..n
    BY <1>2, <2>2, Zenon DEF GoodState, FoldsRows
  <2> QED BY <1>1, <2>1, <2>2
<1> QED BY <1>1, <1>4, <1>5 DEF ReconciledStates, GoodState

-----------------------------------------------------------------------------
(* Types *)

\* The initial state is well typed.
LEMMA TypeInit == RecInit => TypeOK
BY ReconcilerAssumption, NoStateGood DEF RecInit, TypeOK, Steps, Returned

\* Every step of a caller or of the database keeps the variables well typed.
LEMMA TypeStep == TypeOK /\ [RecNext]_recVars => TypeOK'
<1> SUFFICES ASSUME TypeOK, [RecNext]_recVars PROVE TypeOK'
  OBVIOUS
<1> USE DEF TypeOK, store, call, Goto, Fault, Forget
<1>1. ASSUME NEW c \in Callers, NEW e \in Events, Call(c, e) PROVE TypeOK'
  BY <1>1 DEF Call, Steps, Returned
<1>2. ASSUME NEW c \in Callers, InsertSucceeds(c) PROVE TypeOK'
  BY <1>2 DEF InsertSucceeds, InsertRow, Steps
<1>3. ASSUME NEW c \in Callers, InsertDuplicate(c) PROVE TypeOK'
  BY <1>3 DEF InsertDuplicate, Steps
<1>4. ASSUME NEW c \in Callers, GetByEventID(c) PROVE TypeOK'
  BY <1>4 DEF GetByEventID, Steps
<1>5. ASSUME NEW c \in Callers, AlreadyReconciled(c) PROVE TypeOK'
  BY <1>5 DEF AlreadyReconciled, Steps, Returned
<1>6. ASSUME NEW c \in Callers, GetStateAndApply(c) PROVE TypeOK'
  <2>1. ApplyTransaction(states[KeyOf[event[c]]], inserted[c]) \in ReconciledStates
    BY ReconcilerAssumption DEF ApplyTransaction, ReconciledStates
  <2> QED BY <1>6, <2>1 DEF GetStateAndApply, Steps
<1>7. ASSUME NEW c \in Callers, UpsertSucceeds(c) PROVE TypeOK'
  BY <1>7, NoStateGood, Zenon DEF UpsertSucceeds, UpsertRow, Steps, Returned
<1>8. ASSUME NEW c \in Callers, UpsertStale(c) PROVE TypeOK'
  BY <1>8, NoStateGood DEF UpsertStale, Steps, Returned
<1>9. ASSUME NEW c \in Callers, LeaveStatement(c)
      PROVE  /\ lateInserts' \subseteq Events \X (Nat \ {0})
             /\ lateUpserts' \subseteq Keys \X ReconciledStates
  BY <1>9, ReconcilerAssumption DEF LeaveStatement
<1>10. ASSUME NEW c \in Callers, Fails(c) PROVE TypeOK'
  BY <1>9, <1>10, NoStateGood DEF Fails, Steps, Returned
<1>11. ASSUME NEW c \in Callers, Dies(c) PROVE TypeOK'
  BY <1>9, <1>11, NoStateGood DEF Dies, Steps, Returned
<1>12. ASSUME LateInsert PROVE TypeOK'
  BY <1>12 DEF LateInsert, InsertRow
<1>13. ASSUME LateUpsert PROVE TypeOK'
  BY <1>13 DEF LateUpsert, UpsertRow
<1>14. CASE UNCHANGED recVars
  BY <1>14 DEF recVars
<1> QED BY <1>1, <1>2, <1>3, <1>4, <1>5, <1>6, <1>7, <1>8, <1>10, <1>11, <1>12, <1>13, <1>14
        DEF RecNext, Reconcile

\* Every variable keeps its type.
THEOREM RecTypeCorrect == RecSpec => []TypeOK
BY TypeInit, TypeStep, PTL DEF RecSpec

-----------------------------------------------------------------------------
(* The inductive invariant *)

\* Rows are only added and watermarks only advance, in every step.
LEMMA StepAdvances == TypeOK /\ [RecNext]_recVars => RowsKept /\ WatermarksAdvance
<1> SUFFICES ASSUME TypeOK, [RecNext]_recVars PROVE RowsKept /\ WatermarksAdvance
  OBVIOUS
<1> USE DEF RowsKept, WatermarksAdvance
<1>1. ASSUME NEW e \in Events, NEW id, InsertRow(e, id) PROVE RowsKept
  BY <1>1 DEF TypeOK, InsertRow, HasRow
<1>2. ASSUME NEW k \in Keys, NEW s, UpsertRow(k, s) PROVE WatermarksAdvance
  BY <1>2 DEF TypeOK, UpsertRow, Advances
<1>3. ASSUME NEW c \in Callers, InsertSucceeds(c) PROVE RowsKept /\ UNCHANGED states
  BY <1>1, <1>3 DEF InsertSucceeds, TypeOK
<1>4. ASSUME NEW c \in Callers, UpsertSucceeds(c) PROVE WatermarksAdvance /\ UNCHANGED transactions
  BY <1>2, <1>4, ReconcilerAssumption DEF UpsertSucceeds, TypeOK
<1>5. ASSUME LateInsert PROVE RowsKept /\ UNCHANGED states
  BY <1>1, <1>5 DEF LateInsert, TypeOK
<1>6. ASSUME LateUpsert PROVE WatermarksAdvance /\ UNCHANGED transactions
  BY <1>2, <1>6 DEF LateUpsert, TypeOK
<1>7. ASSUME NEW c \in Callers,
             \/ \E e \in Events : Call(c, e)
             \/ InsertDuplicate(c)
             \/ GetByEventID(c)
             \/ AlreadyReconciled(c)
             \/ GetStateAndApply(c)
             \/ UpsertStale(c)
             \/ Fails(c)
             \/ Dies(c)
      PROVE  UNCHANGED <<transactions, states>>
  BY <1>7 DEF Call, InsertDuplicate, GetByEventID, AlreadyReconciled, GetStateAndApply,
              UpsertStale, Fails, Dies, store
<1>8. CASE UNCHANGED recVars
  BY <1>8 DEF recVars, store
<1> QED BY <1>3, <1>4, <1>5, <1>6, <1>7, <1>8 DEF RecNext, Reconcile

\* What a caller knows stays true while others take steps.
LEMMA CallKept ==
  ASSUME RecInv, TypeOK', RowsKept, WatermarksAdvance, NEW c \in Callers,
         step'[c] = step[c], event'[c] = event[c],
         inserted'[c] = inserted[c], updated'[c] = updated[c]
  PROVE  CallGood(c)'
<1>1. CallGood(c) /\ TypeOK
  BY RecParts DEF CallsGood
<1>2. /\ event[c] \in Events /\ KeyOf[event[c]] \in Keys
      /\ HasRow(event[c]) => transactions'[event[c]] = transactions[event[c]]
      /\ HasRow(event[c]) => HasRow(event[c])'
  BY <1>1, ReconcilerAssumption DEF TypeOK, RowsKept, HasRow
<1>3. states'[KeyOf[event[c]]].last >= states[KeyOf[event[c]]].last
  <2>1. states[KeyOf[event[c]]].last \in Nat /\ states'[KeyOf[event[c]]].last \in Nat
    BY <1>1, <1>2, Zenon DEF TypeOK, ReconciledStates
  <2>2. CASE states'[KeyOf[event[c]]] = states[KeyOf[event[c]]]
    BY <2>1, <2>2
  <2>3. CASE states'[KeyOf[event[c]]] # states[KeyOf[event[c]]]
    BY <1>2, <2>1, <2>3 DEF WatermarksAdvance
  <2> QED BY <2>2, <2>3
<1>4. step[c] = "upsert" => GoodState(transactions', KeyOf[event[c]], updated[c])
  BY <1>1, GoodStateKept DEF CallGood
<1>5. step[c] = "done" => states'[KeyOf[event[c]]].last >= transactions'[event[c]]
  BY <1>1, <1>2, <1>3 DEF CallGood, TypeOK, ReconciledStates
<1> QED BY <1>1, <1>2, <1>4, <1>5 DEF CallGood

\* A step that leaves states and lateUpserts alone keeps them good.
LEMMA TablesKept ==
  ASSUME RecInv, RowsKept, UNCHANGED <<states, lateUpserts>>
  PROVE  StatesGood' /\ LateGood'
BY RecParts, GoodStateKept DEF StatesGood, LateGood

\* A step of c that leaves the other callers alone need only show what c knows.
LEMMA OneCallGood ==
  ASSUME RecInv, TypeOK', RowsKept, WatermarksAdvance, NEW c \in Callers, CallGood(c)',
         \A d \in Callers \ {c} : /\ step'[d] = step[d] /\ event'[d] = event[d]
                                  /\ inserted'[d] = inserted[d] /\ updated'[d] = updated[d]
  PROVE  CallsGood'
BY CallKept DEF CallsGood

\* The invariant holds when no call has been made.
LEMMA RecInvInit == RecInit => RecInv
BY TypeInit, NoStateGood
   DEF RecInit, RecInv, StatesGood, CallsGood, CallGood, LateGood

\* Every step keeps the invariant: one case per action, and in each the calls,
\* the states and the late upserts it can disturb.
LEMMA RecInvStep == RecInv /\ [RecNext]_recVars => RecInv'
<1> SUFFICES ASSUME RecInv, [RecNext]_recVars PROVE RecInv'
  OBVIOUS
<1>1. TypeOK /\ TypeOK' /\ RowsKept /\ WatermarksAdvance
  BY TypeStep, StepAdvances DEF RecInv
<1>2. ASSUME NEW c \in Callers, NEW e \in Events, Call(c, e) PROVE RecInv'
  <2>1. CallGood(c)'
    BY <1>1, <1>2 DEF Call, Goto, CallGood, TypeOK, HasRow
  <2>2. CallsGood'
    BY <1>1, <1>2, <2>1, OneCallGood DEF Call, Goto, TypeOK
  <2> QED BY <1>1, <1>2, <2>2, TablesKept DEF Call, RecInv
<1>3. ASSUME NEW c \in Callers, InsertSucceeds(c) PROVE RecInv'
  <2>1. CallGood(c)'
    BY RecParts, <1>1, <1>3 DEF InsertSucceeds, InsertRow, Goto, CallGood, TypeOK, HasRow, CallsGood
  <2>2. CallsGood'
    BY <1>1, <1>3, <2>1, OneCallGood DEF InsertSucceeds, Goto, TypeOK
  <2> QED BY <1>1, <1>3, <2>2, TablesKept DEF InsertSucceeds, RecInv
<1>4. ASSUME NEW c \in Callers, InsertDuplicate(c) PROVE RecInv'
  <2>1. CallGood(c)'
    BY <1>1, <1>4 DEF InsertDuplicate, Goto, CallGood, TypeOK, HasRow, store
  <2>2. CallsGood'
    BY <1>1, <1>4, <2>1, OneCallGood DEF InsertDuplicate, Goto, TypeOK
  <2> QED BY <1>1, <1>4, <2>2, TablesKept DEF InsertDuplicate, RecInv, store
<1>5. ASSUME NEW c \in Callers, GetByEventID(c) PROVE RecInv'
  <2>1. CallGood(c)'
    BY <1>1, <1>5 DEF GetByEventID, Goto, CallGood, TypeOK, HasRow, store
  <2>2. CallsGood'
    BY <1>1, <1>5, <2>1, OneCallGood DEF GetByEventID, Goto, TypeOK
  <2> QED BY <1>1, <1>5, <2>2, TablesKept DEF GetByEventID, RecInv, store
<1>6. ASSUME NEW c \in Callers, AlreadyReconciled(c) PROVE RecInv'
  <2>1. CallGood(c)'
    BY RecParts, <1>1, <1>6 DEF AlreadyReconciled, Goto, CallGood, TypeOK, HasRow, store, CallsGood
  <2>2. CallsGood'
    BY <1>1, <1>6, <2>1, OneCallGood DEF AlreadyReconciled, Goto, TypeOK
  <2> QED BY <1>1, <1>6, <2>2, TablesKept DEF AlreadyReconciled, RecInv, store
<1>7. ASSUME NEW c \in Callers, GetStateAndApply(c) PROVE RecInv'
  <2> DEFINE k == KeyOf[event[c]]
  <2>1. /\ event[c] \in Events /\ k \in Keys /\ HasRow(event[c])
        /\ inserted[c] = transactions[event[c]]
        /\ states[k] \in ReconciledStates /\ states[k].last < transactions[event[c]]
        /\ GoodState(transactions, k, states[k])
    BY RecParts, <1>1, <1>7, ReconcilerAssumption, Zenon DEF GetStateAndApply, CallGood, TypeOK,
       CallsGood, StatesGood
  <2>2. /\ ApplyTransaction(states[k], inserted[c]).last = transactions[event[c]]
        /\ GoodState(transactions, k, ApplyTransaction(states[k], inserted[c]))
    <3>1. transactions \in [Events -> Nat]
      BY <1>1, Zenon DEF TypeOK
    <3>2. /\ ApplyTransaction(states[k], transactions[event[c]]).last = transactions[event[c]]
          /\ GoodState(transactions, k, ApplyTransaction(states[k], transactions[event[c]]))
      BY ONLY <2>1, <3>1, ApplyGood
    <3> QED BY <2>1, <3>2
  <2>3. /\ step'[c] = "upsert" /\ event' = event /\ inserted' = inserted
        /\ transactions' = transactions
        /\ updated'[c] = ApplyTransaction(states[k], inserted[c])
    BY <1>1, <1>7, Zenon DEF GetStateAndApply, Goto, TypeOK, store
  <2>4. CallGood(c)'
    BY <2>1, <2>2, <2>3 DEF CallGood, HasRow
  <2>5. CallsGood'
    BY <1>1, <1>7, <2>4, OneCallGood DEF GetStateAndApply, Goto, TypeOK
  <2> QED BY <1>1, <1>7, <2>5, TablesKept DEF GetStateAndApply, RecInv, store
<1>8. ASSUME NEW c \in Callers, UpsertSucceeds(c) PROVE RecInv'
  <2> DEFINE k == KeyOf[event[c]]
  <2>1. /\ k \in Keys /\ states' = [states EXCEPT ![k] = updated[c]]
        /\ GoodState(transactions, k, updated[c]) /\ updated[c].last = transactions[event[c]]
        /\ transactions' = transactions /\ lateUpserts' = lateUpserts
        /\ HasRow(event[c]) /\ step'[c] = "done" /\ event' = event
    BY RecParts, <1>1, <1>8, ReconcilerAssumption DEF UpsertSucceeds, UpsertRow, Goto, CallGood,
       TypeOK, CallsGood
  <2>2. StatesGood' /\ LateGood'
    BY RecParts, <1>1, <2>1 DEF StatesGood, LateGood, TypeOK
  <2>3. CallGood(c)'
    BY <1>1, <2>1 DEF CallGood, HasRow, TypeOK
  <2>4. CallsGood'
    BY <1>1, <1>8, <2>3, OneCallGood DEF UpsertSucceeds, Goto, TypeOK
  <2> QED BY <1>1, <2>2, <2>4 DEF RecInv
<1>9. ASSUME NEW c \in Callers, UpsertStale(c) PROVE RecInv'
  <2> DEFINE k == KeyOf[event[c]]
  <2>1. /\ event[c] \in Events /\ k \in Keys /\ HasRow(event[c])
        /\ updated[c].last = transactions[event[c]]
        /\ ~(states[k].last < updated[c].last)
    BY RecParts, <1>1, <1>9, ReconcilerAssumption, Zenon DEF UpsertStale, Advances, CallGood,
       TypeOK, CallsGood
  <2>2. states[k].last \in Nat /\ transactions[event[c]] \in Nat
    BY <1>1, <2>1 DEF TypeOK, ReconciledStates
  <2>3. states[k].last >= transactions[event[c]]
    BY <2>1, <2>2
  <2>4. step'[c] = "done" /\ event' = event /\ states' = states /\ transactions' = transactions
    BY <1>1, <1>9 DEF UpsertStale, Goto, TypeOK, store
  <2>5. CallGood(c)'
    BY <2>1, <2>3, <2>4, Zenon DEF CallGood, HasRow
  <2>6. CallsGood'
    BY <1>1, <1>9, <2>5, OneCallGood DEF UpsertStale, Goto, TypeOK
  <2> QED BY <1>1, <1>9, <2>6, TablesKept DEF UpsertStale, RecInv, store
<1>10. ASSUME NEW c \in Callers, LeaveStatement(c), UNCHANGED <<transactions, states>>
       PROVE  StatesGood' /\ LateGood'
  BY RecParts, <1>10 DEF LeaveStatement, StatesGood, LateGood, CallsGood, CallGood
<1>11. ASSUME NEW c \in Callers, Fails(c) PROVE RecInv'
  <2>1. CallGood(c)'
    BY <1>1, <1>11 DEF Fails, Goto, CallGood, TypeOK
  <2>2. CallsGood'
    BY <1>1, <1>11, <2>1, OneCallGood DEF Fails, Goto, Forget, TypeOK
  <2> QED BY <1>1, <1>10, <1>11, <2>2, Zenon DEF Fails, RecInv
<1>12. ASSUME NEW c \in Callers, Dies(c) PROVE RecInv'
  <2>1. CallGood(c)'
    BY <1>1, <1>12, Zenon DEF Dies, Goto, CallGood, TypeOK
  <2>2. CallsGood'
    BY <1>1, <1>12, <2>1, OneCallGood DEF Dies, Goto, Forget, TypeOK
  <2> QED BY <1>1, <1>10, <1>12, <2>2 DEF Dies, RecInv
<1>13. ASSUME LateInsert PROVE RecInv'
  <2>1. CallsGood'
    BY <1>1, <1>13, CallKept DEF LateInsert, call, CallsGood
  <2> QED BY <1>1, <1>13, <2>1, TablesKept DEF LateInsert, RecInv
<1>14. ASSUME LateUpsert PROVE RecInv'
  <2>1. CallsGood'
    BY <1>1, <1>14, CallKept DEF LateUpsert, call, CallsGood
  <2>2. StatesGood' /\ LateGood'
    BY RecParts, <1>1, <1>14 DEF LateUpsert, UpsertRow, StatesGood, LateGood, TypeOK
  <2> QED BY <1>1, <2>1, <2>2 DEF RecInv
<1>15. CASE UNCHANGED recVars
  <2>1. CallsGood'
    BY <1>1, <1>15, CallKept DEF recVars, call, CallsGood
  <2> QED BY <1>1, <1>15, <2>1, TablesKept DEF recVars, store, RecInv
<1> QED BY <1>2, <1>3, <1>4, <1>5, <1>6, <1>7, <1>8, <1>9, <1>11, <1>12, <1>13, <1>14, <1>15
        DEF RecNext, Reconcile

\* The invariant holds of every behaviour of the component.
THEOREM RecInvariant == RecSpec => []RecInv
BY RecInvInit, RecInvStep, PTL DEF RecSpec

-----------------------------------------------------------------------------
(* The properties *)

\* Whatever callers do at once, however often an event is delivered and
\* wherever they fail or die, Reconcile never folds a transaction twice or out
\* of id order, and only folds rows of the key.
THEOREM FoldedOnce == RecSpec => []FoldedAtMostOnce
<1>1. RecInv => FoldedAtMostOnce
  BY RecParts DEF StatesGood, GoodState, FoldsRows, FoldedAtMostOnce, Folded, HasRow
<1> QED BY <1>1, RecInvariant, PTL

\* A call of Reconcile that returned nil left its transaction covered.
THEOREM DoneCovered == RecSpec => []DoneIsCovered
<1>1. RecInv => DoneIsCovered
  BY RecParts DEF CallsGood, CallGood, DoneIsCovered
<1> QED BY <1>1, RecInvariant, PTL

\* Rows of transactions are never rewritten and watermarks never move back.
THEOREM Advancing == RecSpec => OnlyAdvances
<1>1. TypeOK /\ [RecNext]_recVars =>
        [ /\ \A e \in Events : HasRow(e) => transactions'[e] = transactions[e]
          /\ \A k \in Keys : states'[k] # states[k] => states'[k].last > states[k].last ]_recVars
  BY StepAdvances DEF RowsKept, WatermarksAdvance
<1> QED BY <1>1, RecTypeCorrect, PTL DEF RecSpec, OnlyAdvances

-----------------------------------------------------------------------------
(* The statements that may still execute, and what a step does to them *)

OwnInserts(c) == IF step[c] = "insert" /\ inserted[c] # 0 THEN {<<event[c], inserted[c]>>} ELSE {}
OwnUpserts(c) == IF step[c] = "upsert" THEN {<<KeyOf[event[c]], updated[c]>>} ELSE {}

\* The INSERTs and upserts of the callers and those whose callers are gone.
Inserts == lateInserts \cup UNION {OwnInserts(c) : c \in Callers}
Upserts == lateUpserts \cup UNION {OwnUpserts(c) : c \in Callers}

\* No statement is added.
NoneAdded == Inserts' \subseteq Inserts /\ Upserts' \subseteq Upserts

\* An INSERT of e draws its id.
Draws(e) ==
  /\ ~HasRow(e)
  /\ Inserts' \subseteq Inserts \cup {<<e, sequence>>} /\ Upserts' \subseteq Upserts
  /\ sequence' = sequence + 1 /\ UNCHANGED <<transactions, states>>

\* A pending INSERT writes its row.
Inserting(e, id) ==
  /\ <<e, id>> \in Inserts /\ InsertRow(e, id)
  /\ NoneAdded /\ UNCHANGED <<sequence, states>>

\* A caller reads the state and decides what to write for the row of e.
Applying(e) ==
  /\ HasRow(e) /\ states[KeyOf[e]].last < transactions[e]
  /\ Upserts' \subseteq Upserts \cup {<<KeyOf[e], ApplyTransaction(states[KeyOf[e]], transactions[e])>>}
  /\ Inserts' \subseteq Inserts /\ UNCHANGED <<transactions, sequence, states>>

\* A pending upsert replaces the state of k.
Upserting(k, state) ==
  /\ <<k, state>> \in Upserts /\ UpsertRow(k, state)
  /\ NoneAdded /\ UNCHANGED <<transactions, sequence>>

\* The tables stay as they are.
Quiet == NoneAdded /\ UNCHANGED <<transactions, sequence, states>>

\* All the steps but those in which an INSERT draws an id.
Effect ==
  \/ \E e \in Events : (\E id \in Nat : Inserting(e, id)) \/ Applying(e)
  \/ \E k \in Keys, state \in ReconciledStates : Upserting(k, state)
  \/ Quiet

Others(c) ==
  \A d \in Callers \ {c} : /\ step'[d] = step[d] /\ event'[d] = event[d]
                           /\ inserted'[d] = inserted[d] /\ updated'[d] = updated[d]

\* A step of c adds the statement c is left with, or none.
LEMMA OwnStatements ==
  ASSUME NEW c \in Callers, Others(c), NEW I, NEW U,
         lateInserts' \subseteq Inserts, OwnInserts(c)' \subseteq Inserts \cup I,
         lateUpserts' \subseteq Upserts, OwnUpserts(c)' \subseteq Upserts \cup U
  PROVE  Inserts' \subseteq Inserts \cup I /\ Upserts' \subseteq Upserts \cup U
<1>1. ASSUME NEW d \in Callers
      PROVE  OwnInserts(d)' \subseteq Inserts \cup I /\ OwnUpserts(d)' \subseteq Upserts \cup U
  <2>1. CASE d = c
    BY <2>1
  <2>2. CASE d # c
    <3>1. /\ step'[d] = step[d] /\ event'[d] = event[d]
          /\ inserted'[d] = inserted[d] /\ updated'[d] = updated[d]
      BY <2>2 DEF Others
    <3>2. OwnInserts(d)' = OwnInserts(d)
      BY <3>1, Zenon DEF OwnInserts
    <3>3. OwnUpserts(d)' = OwnUpserts(d)
      BY <3>1, Zenon DEF OwnUpserts
    <3> QED BY <3>2, <3>3 DEF Inserts, Upserts
  <2> QED BY <2>1, <2>2
<1> QED BY <1>1 DEF Inserts, Upserts

\* A caller that is not at a statement leaves none.
LEMMA NoStatement ==
  ASSUME NEW c \in Callers, Others(c), UNCHANGED <<lateInserts, lateUpserts>>, step'[c] \notin {"insert", "upsert"}
  PROVE  NoneAdded
<1>1. OwnInserts(c)' = {} /\ OwnUpserts(c)' = {}
  BY DEF OwnInserts, OwnUpserts
<1>2. lateInserts' \subseteq Inserts /\ lateUpserts' \subseteq Upserts
  BY DEF Inserts, Upserts
<1>3. Inserts' \subseteq Inserts \cup {} /\ Upserts' \subseteq Upserts \cup {}
  BY <1>1, <1>2, OwnStatements
<1> QED BY <1>3 DEF NoneAdded

\* A call of Reconcile draws an id unless the event has a row.
LEMMA CallEffect ==
  ASSUME TypeOK, NEW c \in Callers, NEW e \in Events, Call(c, e)
  PROVE  Draws(e) \/ Quiet
<1>1. /\ step'[c] = "insert" /\ event'[c] = e /\ inserted'[c] = (IF HasRow(e) THEN 0 ELSE sequence)
      /\ Others(c) /\ UNCHANGED <<transactions, states, lateInserts, lateUpserts>>
      /\ sequence' = IF HasRow(e) THEN sequence ELSE sequence + 1
  BY DEF Call, Goto, Others, TypeOK
<1>2. OwnInserts(c)' \subseteq Inserts \cup (IF HasRow(e) THEN {} ELSE {<<e, sequence>>})
  BY <1>1, Zenon DEF OwnInserts
<1>3. OwnUpserts(c)' \subseteq Upserts \cup {}
  BY <1>1, Zenon DEF OwnUpserts
<1>4. lateInserts' \subseteq Inserts /\ lateUpserts' \subseteq Upserts
  BY <1>1 DEF Inserts, Upserts
<1>5. Inserts' \subseteq Inserts \cup (IF HasRow(e) THEN {} ELSE {<<e, sequence>>}) /\ Upserts' \subseteq Upserts \cup {}
  BY <1>1, <1>2, <1>3, <1>4, OwnStatements, Zenon
<1>6. CASE HasRow(e)
  BY <1>1, <1>5, <1>6 DEF Quiet, NoneAdded
<1>7. CASE ~HasRow(e)
  BY <1>1, <1>5, <1>7 DEF Draws
<1> QED BY <1>6, <1>7

\* A caller that fails or dies leaves its statement behind.
LEMMA LeaveEffect ==
  ASSUME TypeOK, NEW c \in Callers, Fails(c) \/ Dies(c)
  PROVE  Quiet
<1>1. /\ step'[c] \in {"failed", "idle"} /\ LeaveStatement(c) /\ Others(c)
      /\ UNCHANGED <<transactions, sequence, states>>
  BY Zenon DEF Fails, Dies, Goto, Forget, Others, TypeOK
<1>2. lateInserts' \subseteq Inserts /\ lateUpserts' \subseteq Upserts
  BY <1>1 DEF LeaveStatement, Inserts, Upserts, OwnInserts, OwnUpserts
<1>3. OwnInserts(c)' \subseteq Inserts \cup {} /\ OwnUpserts(c)' \subseteq Upserts \cup {}
  BY <1>1 DEF OwnInserts, OwnUpserts
<1>4. Inserts' \subseteq Inserts \cup {} /\ Upserts' \subseteq Upserts \cup {}
  BY <1>1, <1>2, <1>3, OwnStatements
<1> QED BY <1>1, <1>4 DEF Quiet, NoneAdded

\* What every step inside a call does to the tables.
LEMMA ReconcileEffect ==
  ASSUME RecInv, NEW c \in Callers, Reconcile(c)
  PROVE  Effect
<1>1. TypeOK /\ CallGood(c) /\ event[c] \in Events /\ KeyOf[event[c]] \in Keys
  BY RecParts, ReconcilerAssumption, Zenon DEF CallsGood, TypeOK
<1>2. CASE InsertSucceeds(c)
  <2>1. /\ step[c] = "insert" /\ InsertRow(event[c], inserted[c]) /\ step'[c] = "getState" /\ Others(c)
        /\ UNCHANGED <<sequence, states, lateInserts, lateUpserts>>
    BY <1>1, <1>2, Zenon DEF InsertSucceeds, Goto, Others, TypeOK
  <2>2. <<event[c], inserted[c]>> \in Inserts /\ inserted[c] \in Nat
    BY <1>1, <2>1, Zenon DEF CallGood, InsertRow, Inserts, OwnInserts, TypeOK
  <2>3. NoneAdded
    BY <2>1, NoStatement
  <2> QED BY <1>1, <2>1, <2>2, <2>3 DEF Effect, Inserting
<1>3. CASE InsertDuplicate(c) \/ GetByEventID(c) \/ AlreadyReconciled(c) \/ UpsertStale(c)
  <2>1. /\ step'[c] \in {"getByEventID", "getState", "done"} /\ Others(c)
        /\ UNCHANGED <<transactions, sequence, states, lateInserts, lateUpserts>>
    BY <1>1, <1>3 DEF InsertDuplicate, GetByEventID, AlreadyReconciled, UpsertStale, Goto, Others, TypeOK, store
  <2>2. NoneAdded
    BY <2>1, NoStatement
  <2> QED BY <2>1, <2>2, Zenon DEF Effect, Quiet
<1>4. CASE GetStateAndApply(c)
  <2> DEFINE e == event[c]
             new == ApplyTransaction(states[KeyOf[e]], transactions[e])
  <2>1. /\ step[c] = "getState" /\ states[KeyOf[e]].last < inserted[c]
        /\ step'[c] = "upsert" /\ event'[c] = e /\ Others(c)
        /\ updated'[c] = ApplyTransaction(states[KeyOf[e]], inserted[c])
        /\ UNCHANGED <<transactions, sequence, states, lateInserts, lateUpserts>>
    BY <1>1, <1>4, Zenon DEF GetStateAndApply, Goto, Others, TypeOK, store
  <2>2. HasRow(e) /\ inserted[c] = transactions[e]
    BY <1>1, <2>1, Zenon DEF CallGood
  <2>3. OwnInserts(c)' \subseteq Inserts \cup {} /\ OwnUpserts(c)' \subseteq Upserts \cup {<<KeyOf[e], new>>}
    BY <2>1, <2>2, Zenon DEF OwnInserts, OwnUpserts
  <2>4. lateInserts' \subseteq Inserts /\ lateUpserts' \subseteq Upserts
    BY <2>1 DEF Inserts, Upserts
  <2>5. Inserts' \subseteq Inserts \cup {} /\ Upserts' \subseteq Upserts \cup {<<KeyOf[e], new>>}
    BY <2>1, <2>3, <2>4, OwnStatements, Zenon
  <2>6. Applying(e)
    BY <2>1, <2>2, <2>5, Zenon DEF Applying
  <2> QED BY <1>1, <2>6, Zenon DEF Effect
<1>5. CASE UpsertSucceeds(c)
  <2>1. /\ step[c] = "upsert" /\ UpsertRow(KeyOf[event[c]], updated[c]) /\ step'[c] = "done" /\ Others(c)
        /\ UNCHANGED <<transactions, sequence, lateInserts, lateUpserts>>
    BY <1>1, <1>5 DEF UpsertSucceeds, Goto, Others, TypeOK
  <2>2. <<KeyOf[event[c]], updated[c]>> \in Upserts /\ updated[c] \in ReconciledStates
    BY <1>1, <2>1 DEF Upserts, OwnUpserts, TypeOK
  <2>3. NoneAdded
    BY <2>1, NoStatement
  <2> QED BY <1>1, <2>1, <2>2, <2>3 DEF Effect, Upserting
<1> QED BY <1>2, <1>3, <1>4, <1>5 DEF Reconcile

\* A late statement is one of the pending ones.
LEMMA LateEffect ==
  ASSUME TypeOK, LateInsert \/ LateUpsert
  PROVE  Effect
<1>1. ASSUME UNCHANGED <<lateInserts, lateUpserts, call>> PROVE NoneAdded
  BY <1>1 DEF NoneAdded, Inserts, Upserts, OwnInserts, OwnUpserts, call
<1>2. CASE LateInsert
  <2>1. PICK s \in lateInserts : InsertRow(s[1], s[2])
    BY <1>2 DEF LateInsert
  <2>2. s[1] \in Events /\ s[2] \in Nat /\ <<s[1], s[2]>> \in Inserts
    BY DEF TypeOK, Inserts
  <2> QED BY <1>1, <1>2, <2>1, <2>2 DEF LateInsert, Effect, Inserting
<1>3. CASE LateUpsert
  <2>1. PICK s \in lateUpserts : UpsertRow(s[1], s[2])
    BY <1>3 DEF LateUpsert
  <2>2. s[1] \in Keys /\ s[2] \in ReconciledStates /\ <<s[1], s[2]>> \in Upserts
    BY DEF TypeOK, Upserts
  <2> QED BY <1>1, <1>3, <2>1, <2>2 DEF LateUpsert, Effect, Upserting
<1> QED BY <1>2, <1>3, Zenon

\* Pending statements are well typed, and what a pending upsert would write is
\* a good state.
LEMMA StatementTypes ==
  ASSUME RecInv
  PROVE  /\ Inserts \subseteq Events \X (Nat \ {0})
         /\ Upserts \subseteq Keys \X ReconciledStates
         /\ \A x \in Upserts : GoodState(transactions, x[1], x[2])
<1>1. ASSUME NEW c \in Callers
      PROVE  /\ OwnInserts(c) \subseteq Events \X (Nat \ {0})
             /\ OwnUpserts(c) \subseteq Keys \X ReconciledStates
             /\ \A x \in OwnUpserts(c) : GoodState(transactions, x[1], x[2])
  <2>1. /\ event[c] \in Events /\ KeyOf[event[c]] \in Keys
        /\ inserted[c] \in Nat /\ updated[c] \in ReconciledStates
    BY RecParts, ReconcilerAssumption DEF TypeOK
  <2>2. step[c] = "upsert" => GoodState(transactions, KeyOf[event[c]], updated[c])
    BY RecParts DEF CallsGood, CallGood
  <2>3. OwnInserts(c) \subseteq Events \X (Nat \ {0})
    BY <2>1 DEF OwnInserts
  <2>4. OwnUpserts(c) \subseteq Keys \X ReconciledStates
    BY <2>1 DEF OwnUpserts
  <2>5. \A x \in OwnUpserts(c) : GoodState(transactions, x[1], x[2])
    BY <2>2 DEF OwnUpserts
  <2> QED BY <2>3, <2>4, <2>5
<1>2. /\ lateInserts \subseteq Events \X (Nat \ {0})
      /\ lateUpserts \subseteq Keys \X ReconciledStates
      /\ \A x \in lateUpserts : GoodState(transactions, x[1], x[2])
  BY RecParts DEF TypeOK, LateGood
<1>3. Inserts \subseteq Events \X (Nat \ {0})
  BY <1>1, <1>2 DEF Inserts
<1>4. Upserts \subseteq Keys \X ReconciledStates
  BY <1>1, <1>2 DEF Upserts
<1>5. \A x \in Upserts : GoodState(transactions, x[1], x[2])
  BY <1>1, <1>2 DEF Upserts
<1> QED BY <1>3, <1>4, <1>5

\* The watermark of a good state is the id of a row of its key.
LEMMA LastIsRow ==
  ASSUME NEW rows, NEW k, NEW state \in ReconciledStates, GoodState(rows, k, state), state.last # 0
  PROVE  \E e \in Events : KeyOf[e] = k /\ rows[e] # 0 /\ rows[e] = state.last
<1>1. Len(state.applied) \in Nat
  BY DEF ReconciledStates
<1>2. Len(state.applied) # 0 /\ state.last = state.applied[Len(state.applied)]
  BY DEF GoodState, WellFolded
<1>3. Len(state.applied) \in 1..Len(state.applied)
  BY <1>1, <1>2
<1> QED BY <1>2, <1>3 DEF GoodState, FoldsRows

-----------------------------------------------------------------------------
(* Ids *)

\* The ids that are in the table or may still get there.
Issued == Inserts \cup {<<e, transactions[e]>> : e \in {f \in Events : HasRow(f)}}

\* No id is issued for two events, and the sequence is past them all.
IdsGood ==
  /\ \A x \in Issued : x[2] < sequence
  /\ \A x, y \in Issued : x[2] = y[2] => x[1] = y[1]

\* Issued ids are well typed, and rows are among them.
LEMMA IssuedTypes ==
  ASSUME RecInv
  PROVE  /\ Issued \subseteq Events \X (Nat \ {0})
         /\ \A e \in Events : HasRow(e) => <<e, transactions[e]>> \in Issued
<1>1. transactions \in [Events -> Nat]
  BY RecParts DEF TypeOK
<1>2. Inserts \subseteq Events \X (Nat \ {0})
  BY StatementTypes
<1>3. \A e \in Events : HasRow(e) => transactions[e] \in Nat \ {0}
  BY <1>1 DEF HasRow
<1> QED BY <1>2, <1>3 DEF Issued

\* No id is issued but the one an INSERT draws.
LEMMA IssuedStep ==
  ASSUME RecInv
  PROVE  /\ Effect => Issued' \subseteq Issued /\ UNCHANGED sequence
         /\ \A e \in Events : Draws(e) => Issued' \subseteq Issued \cup {<<e, sequence>>}
<1>1. transactions \in [Events -> Nat]
  BY RecParts DEF TypeOK
<1>2. ASSUME NEW I, Inserts' \subseteq Inserts \cup I, UNCHANGED transactions
      PROVE  Issued' \subseteq Issued \cup I
  BY <1>2 DEF Issued, HasRow
<1>3. ASSUME NEW e \in Events, NEW id \in Nat, Inserting(e, id) PROVE Issued' \subseteq Issued
  <2>1. Inserts' \subseteq Inserts /\ <<e, id>> \in Inserts /\ transactions' = [transactions EXCEPT ![e] = id]
    BY <1>3 DEF Inserting, NoneAdded, InsertRow
  <2>2. ASSUME NEW f \in Events, HasRow(f)' PROVE <<f, transactions'[f]>> \in Issued
    <3>1. CASE f = e
      BY <1>1, <2>1, <3>1 DEF Issued
    <3>2. CASE f # e
      BY <1>1, <2>1, <2>2, <3>2 DEF Issued, HasRow
    <3> QED BY <3>1, <3>2
  <2> QED BY <2>1, <2>2 DEF Issued
<1>4. ASSUME Inserts' \subseteq Inserts, UNCHANGED transactions PROVE Issued' \subseteq Issued
  <2>1. Issued' \subseteq Issued \cup {}
    BY <1>2, <1>4
  <2> QED BY <2>1
<1>5. ASSUME NEW e \in Events, Applying(e) PROVE Issued' \subseteq Issued
  BY <1>4, <1>5 DEF Applying
<1>6. ASSUME NEW k, NEW state, Upserting(k, state) PROVE Issued' \subseteq Issued
  BY <1>4, <1>6 DEF Upserting, NoneAdded
<1>7. Quiet => Issued' \subseteq Issued
  BY <1>4 DEF Quiet, NoneAdded
<1>8. Effect => Issued' \subseteq Issued
  BY <1>3, <1>5, <1>6, <1>7 DEF Effect
<1>9. Effect => UNCHANGED sequence
  BY Zenon DEF Effect, Inserting, Applying, Upserting, Quiet
<1>10. ASSUME NEW e \in Events, Draws(e) PROVE Issued' \subseteq Issued \cup {<<e, sequence>>}
  <2>1. Inserts' \subseteq Inserts \cup {<<e, sequence>>} /\ UNCHANGED transactions
    BY <1>10 DEF Draws
  <2> QED BY <1>2, <2>1, Zenon
<1> QED BY <1>8, <1>9, <1>10, Zenon

\* Ids stay distinct.
LEMMA IdsStep ==
  ASSUME RecInv, IdsGood, Effect \/ \E e \in Events : Draws(e)
  PROVE  IdsGood'
<1>1. sequence \in Nat /\ Issued \subseteq Events \X (Nat \ {0})
  BY RecParts, IssuedTypes DEF TypeOK
<1>2. CASE Effect
  BY <1>2, IssuedStep DEF IdsGood
<1>3. ASSUME NEW e \in Events, Draws(e) PROVE IdsGood'
  <2>1. Issued' \subseteq Issued \cup {<<e, sequence>>} /\ sequence' = sequence + 1
    BY <1>3, IssuedStep DEF Draws
  <2>2. \A x \in Issued : x[2] \in Nat /\ x[2] < sequence
    BY <1>1 DEF IdsGood
  <2>3. \A x \in Issued' : x[2] < sequence'
    BY <1>1, <2>1, <2>2
  <2>4. \A x \in Issued : x[2] # sequence
    BY <1>1, <2>2
  <2>5. \A x, y \in Issued' : x[2] = y[2] => x[1] = y[1]
    BY <2>1, <2>4 DEF IdsGood
  <2> QED BY <2>3, <2>5 DEF IdsGood
<1> QED BY <1>2, <1>3

\* Every step is an effect or draws an id.
LEMMA RecEffect ==
  ASSUME RecInv, [RecNext]_recVars
  PROVE  Effect \/ \E e \in Events : Draws(e)
<1>1. TypeOK
  BY Zenon DEF RecInv
<1>2. CASE UNCHANGED recVars
  BY <1>2 DEF recVars, store, call, Effect, Quiet, NoneAdded, Inserts, Upserts, OwnInserts, OwnUpserts
<1>3. ASSUME NEW c \in Callers, NEW e \in Events, Call(c, e) PROVE Effect \/ Draws(e)
  BY <1>1, <1>3, CallEffect DEF Effect
<1>4. ASSUME NEW c \in Callers, Fails(c) \/ Dies(c) PROVE Effect
  BY <1>1, <1>4, LeaveEffect DEF Effect
<1> QED BY <1>1, <1>2, <1>3, <1>4, ReconcileEffect, LateEffect, Zenon DEF RecNext

\* Nothing is issued at first, and no statement is pending.
LEMMA IdsInit ==
  ASSUME RecInit
  PROVE  Issued = {} /\ Inserts = {} /\ Upserts = {} /\ IdsGood
<1>1. \A c \in Callers : OwnInserts(c) = {} /\ OwnUpserts(c) = {}
  BY DEF RecInit, OwnInserts, OwnUpserts
<1>2. Inserts = {} /\ Upserts = {}
  BY <1>1 DEF RecInit, Inserts, Upserts
<1>3. \A e \in Events : ~HasRow(e)
  BY DEF RecInit, HasRow
<1>4. Issued = {}
  BY <1>2, <1>3 DEF Issued
<1> QED BY <1>2, <1>4 DEF IdsGood

\* No two transactions ever have one id, whichever of the INSERTs of an event
\* is the one that writes its row.
THEOREM IdsDistinct ==
  RecSpec => [](\A e, f \in Events : HasRow(e) /\ transactions[e] = transactions[f] => e = f)
<1>1. RecInit => IdsGood
  BY IdsInit
<1>2. RecInv /\ IdsGood /\ [RecNext]_recVars => IdsGood'
  <2> SUFFICES ASSUME RecInv, IdsGood, [RecNext]_recVars PROVE IdsGood'
    OBVIOUS
  <2>1. Effect \/ \E e \in Events : Draws(e)
    BY RecEffect
  <2> QED BY <2>1, IdsStep
<1>3. RecInv /\ IdsGood => \A e, f \in Events : HasRow(e) /\ transactions[e] = transactions[f] => e = f
  <2> SUFFICES ASSUME RecInv, IdsGood, NEW e \in Events, NEW f \in Events, HasRow(e), transactions[e] = transactions[f]
               PROVE  e = f
    OBVIOUS
  <2>1. HasRow(f)
    BY DEF HasRow
  <2>2. <<e, transactions[e]>> \in Issued /\ <<f, transactions[f]>> \in Issued
    BY <2>1, IssuedTypes
  <2> QED BY <2>2 DEF IdsGood
<1> QED BY <1>1, <1>2, <1>3, RecInvariant, PTL DEF RecSpec
=============================================================================
