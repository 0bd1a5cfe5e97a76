------------------------- MODULE TenantOperatorProofs -------------------------
(***************************************************************************)
(* Proofs about TenantOperator, for any tenants, any number of operator    *)
(* processes, any resources, ranges and replica bounds, and any number of  *)
(* failing calls and changes by users.                                     *)
(*                                                                         *)
(* IInv is the inductive invariant.  Its core is what "current" means: a   *)
(* copy the API server would accept a write from equals the object itself, *)
(* so a write that succeeds changes what the pass has decided and nothing  *)
(* else.                                                                   *)
(***************************************************************************)
EXTENDS TenantOperator, TLAPS

\* What a pass has at hand: a tenant, a partition count, and a resource to
\* create or to delete as long as it is about to.
Busy(w) ==
  /\ pc[w] # "idle" => tenant[w] \in Tenants /\ observed[w].partitionCount # 0
  /\ pc[w] \in {"ensure", "tearDown"} => todo[w] # <<>>

\* Past UpdateSpec the flag of the copy agrees with the decision.
Decided(w) ==
  pc[w] \notin {"idle", "updateSpec"} /\ Classify(copy[w], observed[w]).setDedicatedNodePool
    => copy[w].dedicated

PassesGood == \A w \in Workers : Busy(w) /\ Decided(w)

\* A current copy of a TradingTenant, cached or in a pass, is the
\* TradingTenant.
CopiesGood ==
  /\ \A w \in Workers, t \in Tenants : <<w, t>> \in cacheCurrent => cache[w][t] = tenants[t]
  /\ \A w \in copyCurrent : pc[w] # "idle" => copy[w] = tenants[tenant[w]]

\* A map that does not exist has no entries.
Honest(m) == m.exists \/ m = NoMap

\* What a pass is about to write is the map, when its copy is current or there
\* is none yet, with the tenant's entry as the pass has decided it.
MapsGood ==
  /\ Honest(map)
  /\ \A w \in Workers : Honest(mapCache[w])
  /\ \A w \in mapCacheCurrent : mapCache[w] = map
  /\ \A w \in Workers : pc[w] = "writeMap" =>
       /\ w \in mappingCurrent => mapping[w] = Mutated(w, map)
       /\ ~mapping[w].exists => mapping[w] = Mutated(w, NoMap)

IInv == TypeOK /\ PassesGood /\ CopiesGood /\ MapsGood

\* The conjuncts of the invariant, for steps that need one of them.
LEMMA Parts == IInv => TypeOK /\ PassesGood /\ CopiesGood /\ MapsGood
  BY DEF IInv

\* The local variables of a pass, and that only the pass of w changes any.
Pass(w) == <<pc[w], tenant[w], copy[w], observed[w], range[w], todo[w], mapping[w]>>
Alone(w) == \A v \in Workers \ {w} : Pass(v)' = Pass(v)

PassTypes ==
  /\ pc \in [Workers -> Steps]
  /\ tenant \in [Workers -> Tenants \cup {NoTenant}]
  /\ copy \in [Workers -> TradingTenants]
  /\ observed \in [Workers -> Signals]
  /\ range \in [Workers -> PartitionRanges]
  /\ todo \in [Workers -> Seq(Dedicated)]
  /\ mapping \in [Workers -> ConfigMaps]

-----------------------------------------------------------------------------
(* Constants and operators *)

\* Both orders go through the dedicated resources and are not empty.
LEMMA Orders ==
  /\ EnsureOrder \in Seq(Dedicated) /\ EnsureOrder # <<>>
  /\ TearDownOrder \in Seq(Dedicated) /\ TearDownOrder # <<>>
<1> DEFINE Names == STRING \cup {"configmap"}
<1>1. Workloads \in Seq(Names) /\ <<"configmap">> \in Seq(Names)
  <2>1. Workloads \in Seq(STRING \ {"configmap"})
    BY OperatorAssumption
  <2>2. Len(Workloads) \in Nat /\ Workloads \in [1 .. Len(Workloads) -> STRING \ {"configmap"}]
    BY <2>1
  <2>3. Workloads \in [1 .. Len(Workloads) -> Names]
    BY <2>2
  <2>4. Workloads \in Seq(Names)
    BY <2>2, <2>3
  <2>5. <<"configmap">> \in Seq(Names)
    OBVIOUS
  <2> QED BY <2>4, <2>5
<1> HIDE DEF Names
<1>2. /\ EnsureOrder \in Seq(Names) /\ Len(EnsureOrder) = Len(Workloads) + 1
      /\ EnsureOrder[1] = "configmap"
      /\ \A i \in 1 .. Len(Workloads) : EnsureOrder[i + 1] = Workloads[i]
  BY <1>1 DEF EnsureOrder
<1>3. /\ TearDownOrder \in Seq(Names) /\ Len(TearDownOrder) = Len(Workloads) + 1
      /\ TearDownOrder[Len(Workloads) + 1] = "configmap"
      /\ \A i \in 1 .. Len(Workloads) : TearDownOrder[i] = Workloads[i]
  BY <1>1 DEF TearDownOrder
<1>4. Len(Workloads) \in Nat
  BY <1>1
<1>5. \A i \in 1 .. Len(EnsureOrder) : EnsureOrder[i] \in Dedicated
  BY <1>2 DEF Dedicated
<1>6. \A i \in 1 .. Len(TearDownOrder) : TearDownOrder[i] \in Dedicated
  <2> TAKE i \in 1 .. Len(TearDownOrder)
  <2>1. CASE i = Len(Workloads) + 1
    BY <1>2, <1>3, <1>4, <1>5, <2>1
  <2>2. CASE i \in 1 .. Len(Workloads)
    <3>1. i + 1 \in 1 .. Len(EnsureOrder)
      BY <1>2, <1>4, <2>2
    <3> QED BY <1>2, <1>3, <1>5, <2>2, <3>1
  <2> QED BY <1>3, <1>4, <2>1, <2>2
<1> QED BY <1>2, <1>3, <1>4, <1>5, <1>6

\* The values a pass and the shared map start from are well typed.
LEMMA Starting ==
  /\ AnyRange \in Ranges /\ Ranges \subseteq PartitionRanges
  /\ NoMap \in ConfigMaps /\ Absent \in TradingTenants /\ NoSignals \in Signals
BY OperatorAssumption DEF AnyRange, PartitionRanges, NoMap, ConfigMaps, Absent, TradingTenants,
                          NoSignals, Signals

\* The objects the controller starts with are TradingTenants.
LEMMA StartingTenants ==
  ASSUME NEW isolated
  PROVE  [t \in Tenants |-> IF t \in Existing
                            THEN [exists |-> TRUE, dedicated |-> t \in isolated, replicas |-> MinReplicas]
                            ELSE Absent] \in [Tenants -> TradingTenants]
  BY Starting, OperatorAssumption DEF TradingTenants

\* classify never decides on a negative number of replicas.
LEMMA ClassifyType ==
  ASSUME NEW obj \in TradingTenants, NEW signals \in Signals
  PROVE  Classify(obj, signals).replicas \in Nat
BY OperatorAssumption DEF TradingTenants, Signals, Classify, Clamp

-----------------------------------------------------------------------------
(* What each step does to the passes *)

\* A pass that ends leaves an idle worker.
LEMMA EndPass ==
  ASSUME TypeOK, NEW w \in Workers, End(w)
  PROVE  PassTypes' /\ Alone(w) /\ pc'[w] = "idle"
<1>1. PassTypes'
  <2>1. AnyRange \in PartitionRanges /\ <<>> \in Seq(Dedicated)
    BY Starting
  <2> QED BY <2>1, Starting DEF TypeOK, PassTypes, End, Goto, Steps
<1>2. Alone(w) /\ pc'[w] = "idle"
  BY DEF TypeOK, End, Goto, Alone, Pass
<1> QED BY <1>1, <1>2

\* Provisioning and teardown both begin with a resource at hand.
LEMMA BranchTodo ==
  ASSUME TypeOK, NEW w \in Workers, NEW dedicated, Branch(w, dedicated)
  PROVE  /\ pc' \in [Workers -> Steps] /\ todo' \in [Workers -> Seq(Dedicated)]
         /\ pc'[w] \in {"ensure", "tearDown"} /\ todo'[w] # <<>>
         /\ \A v \in Workers \ {w} : pc'[v] = pc[v] /\ todo'[v] = todo[v]
BY Orders DEF TypeOK, Branch, Goto, Steps

\* A pass starts with the cached copy of its tenant and with the publisher's
\* count, and goes to UpdateSpec first when it has decided to isolate.
LEMMA StartPass ==
  ASSUME IInv, NEW w \in Workers, NEW t \in Tenants, Start(w, t)
  PROVE  /\ PassTypes' /\ Alone(w) /\ Busy(w)' /\ Decided(w)'
         /\ pc'[w] # "idle" /\ pc'[w] # "writeMap"
         /\ tenant'[w] = t /\ copy'[w] = cache[w][t]
<1> DEFINE obj == cache[w][t]
           seen(reading) == [lagHigh |-> reading.lagHigh, latencyHigh |-> reading.latencyHigh,
                             partitionCount |-> gauge[t].count]
<1>1. TypeOK
  BY DEF IInv
<1>2. PICK reading \in Readings :
        /\ pc[w] = "idle" /\ obj.exists
        /\ tenant' = [tenant EXCEPT ![w] = t]
        /\ copy' = [copy EXCEPT ![w] = obj]
        /\ observed' = [observed EXCEPT ![w] = seen(reading)]
        /\ IF Classify(obj, seen(reading)).setDedicatedNodePool /\ ~obj.dedicated
           THEN Goto(w, "updateSpec") /\ UNCHANGED todo
           ELSE Branch(w, obj.dedicated)
        /\ range' = range /\ mapping' = mapping
  BY Zenon DEF Start
<1> DEFINE signals == seen(reading)
<1>3. gauge[t] \in PartitionRanges
  BY <1>1, Starting DEF TypeOK
<1>4. signals \in Signals /\ signals.partitionCount # 0
  BY <1>2, <1>3, OperatorAssumption DEF Signals, PartitionRanges
<1>5. obj \in TradingTenants
  BY <1>1 DEF TypeOK
<1> HIDE DEF signals, obj
<1>6. /\ tenant'[w] = t /\ copy'[w] = obj /\ observed'[w] = signals
      /\ \A v \in Workers \ {w} : /\ tenant'[v] = tenant[v] /\ copy'[v] = copy[v] /\ observed'[v] = observed[v]
                                  /\ range'[v] = range[v] /\ mapping'[v] = mapping[v]
  BY <1>1, <1>2 DEF TypeOK, signals
<1>7. /\ tenant' \in [Workers -> Tenants \cup {NoTenant}] /\ copy' \in [Workers -> TradingTenants]
      /\ observed' \in [Workers -> Signals] /\ range' \in [Workers -> PartitionRanges]
      /\ mapping' \in [Workers -> ConfigMaps]
  BY <1>1, <1>2, <1>4, <1>5, Zenon DEF TypeOK, signals
<1>8. CASE Classify(obj, signals).setDedicatedNodePool /\ ~obj.dedicated
  <2>1. Goto(w, "updateSpec") /\ UNCHANGED todo
    BY <1>2, <1>8 DEF signals
  <2>2. /\ pc' \in [Workers -> Steps] /\ pc'[w] = "updateSpec" /\ todo' \in [Workers -> Seq(Dedicated)]
        /\ \A v \in Workers \ {w} : pc'[v] = pc[v] /\ todo'[v] = todo[v]
    BY <1>1, <2>1 DEF TypeOK, Goto, Steps
  <2>3. Busy(w)' /\ Decided(w)'
    BY <1>4, <1>6, <2>2 DEF Busy, Decided
  <2>4. Alone(w)
    BY <1>6, <2>2, Zenon DEF Alone, Pass
  <2> QED BY <1>6, <1>7, <2>2, <2>3, <2>4 DEF PassTypes, obj
<1>9. CASE ~(Classify(obj, signals).setDedicatedNodePool /\ ~obj.dedicated)
  <2>1. Branch(w, obj.dedicated)
    BY <1>2, <1>9 DEF signals
  <2>2. /\ pc' \in [Workers -> Steps] /\ todo' \in [Workers -> Seq(Dedicated)]
        /\ pc'[w] \in {"ensure", "tearDown"} /\ todo'[w] # <<>>
        /\ \A v \in Workers \ {w} : pc'[v] = pc[v] /\ todo'[v] = todo[v]
    BY <1>1, <2>1, BranchTodo
  <2>3. Busy(w)'
    BY <1>4, <1>6, <2>2, Zenon DEF Busy
  <2>4. Decided(w)'
    BY <1>6, <1>9 DEF Decided
  <2>5. Alone(w)
    BY <1>6, <2>2 DEF Alone, Pass
  <2> QED BY <1>6, <1>7, <2>2, <2>3, <2>4, <2>5 DEF PassTypes, obj
<1> QED BY <1>8, <1>9

\* A pass that has set the flag has it in its copy, too.
LEMMA UpdateSpecPass ==
  ASSUME IInv, NEW w \in Workers, UpdateSpec(w)
  PROVE  /\ PassTypes' /\ Alone(w) /\ Busy(w)' /\ Decided(w)'
         /\ pc'[w] # "idle" /\ pc'[w] # "writeMap" /\ tenant' = tenant
         /\ copy'[w] = [copy[w] EXCEPT !.dedicated = TRUE]
         /\ copy'[w] \in TradingTenants /\ copy'[w].dedicated
<1> DEFINE new == [copy[w] EXCEPT !.dedicated = TRUE]
<1>1. TypeOK
  BY DEF IInv
<1>2. /\ pc[w] = "updateSpec" /\ copy' = [copy EXCEPT ![w] = new] /\ Branch(w, TRUE)
      /\ observed' = observed /\ range' = range /\ mapping' = mapping /\ tenant' = tenant
  BY Zenon DEF UpdateSpec
<1>3. new \in TradingTenants /\ new.dedicated
  BY <1>1, ZenonT(30) DEF TypeOK, TradingTenants
<1> HIDE DEF new
<1>4. /\ pc' \in [Workers -> Steps] /\ todo' \in [Workers -> Seq(Dedicated)]
      /\ pc'[w] \in {"ensure", "tearDown"} /\ todo'[w] # <<>>
      /\ \A v \in Workers \ {w} : pc'[v] = pc[v] /\ todo'[v] = todo[v]
  BY <1>1, <1>2, BranchTodo, Zenon
<1>5. copy'[w] = new /\ \A v \in Workers \ {w} : copy'[v] = copy[v]
  BY <1>1, <1>2 DEF TypeOK
<1>6. tenant[w] \in Tenants /\ observed[w].partitionCount # 0
  BY Parts, <1>2 DEF PassesGood, Busy
<1>7. Busy(w)' /\ Decided(w)'
  BY <1>2, <1>3, <1>4, <1>5, <1>6 DEF Busy, Decided
<1>8. Alone(w)
  BY <1>2, <1>4, <1>5 DEF Alone, Pass
<1>9. PassTypes'
  BY <1>1, <1>2, <1>3, <1>4, Zenon DEF TypeOK, PassTypes
<1> QED BY <1>2, <1>3, <1>4, <1>5, <1>7, <1>8, <1>9, Zenon DEF new

\* The range a pass writes is well typed, although its start and its count
\* were read at different times.
LEMMA ObservedRangeType ==
  ASSUME IInv, NEW w \in Workers, pc[w] = "ensure"
  PROVE  ObservedRange(w) \in PartitionRanges
<1>1. TypeOK
  BY Zenon DEF IInv
<1>2. tenant[w] \in Tenants /\ observed[w].partitionCount # 0
  BY Parts DEF PassesGood, Busy
<1>3. observed[w].partitionCount \in Nat \ {0}
  BY <1>1, <1>2 DEF TypeOK, Signals
<1>4. gauge[tenant[w]].start \in Nat
  BY <1>1, <1>2, Starting DEF TypeOK, PartitionRanges
<1> QED BY <1>1, <1>3, <1>4 DEF ObservedRange, TypeOK, PartitionRanges

\* A pass goes on to the map exactly when no resource is left.
LEMMA ProceedPass ==
  ASSUME IInv, NEW w \in Workers, pc[w] \in {"ensure", "tearDown"}, Proceed(w),
         NEW r \in PartitionRanges, range' = [range EXCEPT ![w] = r]
  PROVE  /\ PassTypes' /\ Alone(w) /\ Busy(w)' /\ Decided(w)'
         /\ pc'[w] # "idle" /\ pc'[w] # "writeMap" /\ tenant' = tenant /\ copy' = copy
<1>1. TypeOK
  BY DEF IInv
<1>2. /\ todo' = [todo EXCEPT ![w] = Tail(todo[w])]
      /\ pc' = [pc EXCEPT ![w] = IF Len(todo[w]) = 1 THEN "getMap" ELSE pc[w]]
      /\ copy' = copy /\ observed' = observed /\ mapping' = mapping /\ tenant' = tenant
  BY <1>1 DEF Proceed, Goto, TypeOK
<1>3. /\ todo[w] \in Seq(Dedicated) /\ todo[w] # <<>>
      /\ tenant[w] \in Tenants /\ observed[w].partitionCount # 0 /\ Decided(w)
  BY Parts, <1>1 DEF PassesGood, Busy, TypeOK
<1>4. /\ Tail(todo[w]) \in Seq(Dedicated)
      /\ Len(todo[w]) # 1 => Tail(todo[w]) # <<>>
  <2>1. Len(todo[w]) \in Nat \ {0}
    BY <1>3
  <2>2. Tail(todo[w]) \in Seq(Dedicated) /\ Len(Tail(todo[w])) = Len(todo[w]) - 1
    BY <1>3, <2>1
  <2>3. Len(todo[w]) # 1 => Len(Tail(todo[w])) # 0
    BY <2>1, <2>2
  <2>4. \A q \in Seq(Dedicated) : Len(q) # 0 => q # <<>>
    OBVIOUS
  <2> QED BY <2>2, <2>3, <2>4, Zenon
<1>5. /\ todo'[w] = Tail(todo[w]) /\ range'[w] = r
      /\ pc'[w] = IF Len(todo[w]) = 1 THEN "getMap" ELSE pc[w]
      /\ \A v \in Workers \ {w} : todo'[v] = todo[v] /\ range'[v] = range[v] /\ pc'[v] = pc[v]
  BY <1>1, <1>2 DEF TypeOK
<1>6. Busy(w)'
  BY <1>2, <1>3, <1>4, <1>5 DEF Busy
<1>7. Decided(w)'
  BY <1>2, <1>3, <1>5 DEF Decided
<1>8. Alone(w)
  BY <1>2, <1>5 DEF Alone, Pass
<1>9. PassTypes'
  BY <1>1, <1>2, <1>4, Zenon DEF TypeOK, PassTypes, Steps
<1> QED BY <1>2, <1>5, <1>6, <1>7, <1>8, <1>9

\* Between the resources and the status the pass keeps what it has decided.
LEMMA MapPass ==
  ASSUME IInv, NEW w \in Workers, pc[w] \in {"getMap", "writeMap"},
         NEW s \in {"getMap", "writeMap", "status"}, Goto(w, s),
         NEW m \in ConfigMaps, mapping' = [mapping EXCEPT ![w] = m],
         UNCHANGED <<tenant, copy, observed, range, todo>>
  PROVE  /\ PassTypes' /\ Alone(w) /\ Busy(w)' /\ Decided(w)' /\ pc'[w] = s /\ mapping'[w] = m
<1>1. TypeOK
  BY DEF IInv
<1>2. /\ pc'[w] = s /\ mapping'[w] = m
      /\ \A v \in Workers \ {w} : pc'[v] = pc[v] /\ mapping'[v] = mapping[v]
  BY <1>1 DEF TypeOK, Goto
<1>3. Busy(w)' /\ Decided(w)'
  BY Parts, <1>2 DEF PassesGood, Busy, Decided
<1>4. Alone(w)
  BY <1>2 DEF Alone, Pass
<1>5. PassTypes'
  BY <1>1 DEF TypeOK, PassTypes, Goto, Steps
<1> QED BY <1>2, <1>3, <1>4, <1>5

\* The entry a pass writes is well typed.
LEMMA MutatedType ==
  ASSUME TypeOK, NEW w \in Workers, NEW old \in ConfigMaps
  PROVE  Mutated(w, old) \in ConfigMaps
BY Zenon DEF TypeOK, Mutated, ConfigMaps

-----------------------------------------------------------------------------
(* Steps that leave parts of the invariant alone *)

\* The other passes stay as good as they were.
LEMMA PassesKept ==
  ASSUME PassesGood, NEW w \in Workers, Alone(w), Busy(w)', Decided(w)'
  PROVE  PassesGood'
<1>1. ASSUME NEW v \in Workers, v # w PROVE Busy(v)' /\ Decided(v)'
  <2>1. Busy(v) /\ Decided(v)
    BY DEF PassesGood
  <2>2. /\ pc'[v] = pc[v] /\ tenant'[v] = tenant[v] /\ copy'[v] = copy[v]
        /\ observed'[v] = observed[v] /\ todo'[v] = todo[v]
    BY <1>1 DEF Alone, Pass
  <2>3. Busy(v)'
    BY <2>1, <2>2, Zenon DEF Busy
  <2>4. Decided(v)'
    BY <2>1, <2>2 DEF Decided
  <2> QED BY <2>3, <2>4
<1> QED BY <1>1, Zenon DEF PassesGood

\* An idle worker has nothing to keep.
LEMMA IdleGood ==
  ASSUME NEW w \in Workers, pc'[w] = "idle"
  PROVE  Busy(w)' /\ Decided(w)'
BY DEF Busy, Decided

\* No TradingTenant is written and the pass of w ends or keeps its copy.
LEMMA CopiesKept ==
  ASSUME TypeOK, CopiesGood, NEW w \in Workers, Alone(w), UNCHANGED <<object, cache>>,
         pc'[w] = "idle" \/ (pc[w] # "idle" /\ copy'[w] = copy[w] /\ tenant'[w] = tenant[w])
  PROVE  CopiesGood'
<1>1. \A v \in copyCurrent' : pc'[v] # "idle" => copy'[v] = tenants'[tenant'[v]]
  <2> SUFFICES ASSUME NEW v \in copyCurrent, pc'[v] # "idle"
               PROVE  copy'[v] = tenants[tenant'[v]]
    BY Zenon DEF object
  <2>1. v \in Workers
    BY DEF TypeOK
  <2>2. pc[v] # "idle" /\ copy'[v] = copy[v] /\ tenant'[v] = tenant[v]
    BY <2>1, Zenon DEF Alone, Pass
  <2> QED BY <2>2 DEF CopiesGood
<1> QED BY <1>1 DEF CopiesGood, object

\* The shared map is not written or read and w is not about to write it.
LEMMA MapsKept ==
  ASSUME TypeOK, MapsGood, NEW w \in Workers, Alone(w), UNCHANGED <<shared, mapCache>>,
         pc'[w] # "writeMap"
  PROVE  MapsGood'
<1>1. /\ Honest(map)' /\ \A v \in Workers : Honest(mapCache[v])'
      /\ \A v \in mapCacheCurrent' : mapCache'[v] = map'
  BY Zenon DEF MapsGood, Honest, shared
<1>2. ASSUME NEW v \in Workers, pc'[v] = "writeMap"
      PROVE  /\ v \in mappingCurrent' => mapping'[v] = Mutated(v, map)'
             /\ ~mapping'[v].exists => mapping'[v] = Mutated(v, NoMap)'
  <2>1. v # w /\ pc[v] = "writeMap" /\ mapping'[v] = mapping[v]
        /\ copy'[v] = copy[v] /\ tenant'[v] = tenant[v] /\ range'[v] = range[v]
    BY <1>2 DEF Alone, Pass
  <2>2. Mutated(v, map)' = Mutated(v, map) /\ Mutated(v, NoMap)' = Mutated(v, NoMap)
    BY <2>1 DEF Mutated, shared, NoMap
  <2> QED BY <2>1, <2>2, Zenon DEF MapsGood, shared
<1> QED BY <1>1, <1>2 DEF MapsGood

\* Steps of users, of the publisher and of the caches leave the passes alone.
LEMMA PassesUntouched ==
  ASSUME PassesGood, UNCHANGED <<locals, pc, tenant>>
  PROVE  PassesGood'
BY DEF PassesGood, Busy, Decided, locals

\* Nor do they touch the shared map.
LEMMA MapsUntouched ==
  ASSUME MapsGood, UNCHANGED <<locals, pc, tenant, shared, mapCache>>
  PROVE  MapsGood'
<1>1. \A v \in Workers : Mutated(v, map)' = Mutated(v, map) /\ Mutated(v, NoMap)' = Mutated(v, NoMap)
  BY DEF Mutated, shared, NoMap, locals
<1> QED BY <1>1 DEF MapsGood, Honest, shared, locals

-----------------------------------------------------------------------------
(* The steps of a pass *)

\* ensureDedicatedPool and tearDownDedicatedPool, resource by resource.
LEMMA ResourceIInv ==
  ASSUME IInv, NEW w \in Workers, Ensure(w) \/ EnsureOutdated(w) \/ TearDown(w)
  PROVE  IInv'
<1>1. TypeOK
  BY DEF IInv
<1>2. pc[w] \in {"ensure", "tearDown"} /\ Proceed(w)
  BY DEF Ensure, EnsureOutdated, TearDown
<1>3. todo[w] \in Seq(Dedicated) /\ todo[w] # <<>> /\ tenant[w] \in Tenants
  BY Parts, <1>1, <1>2, Zenon DEF PassesGood, Busy, TypeOK
<1>4. Head(todo[w]) \in Dedicated
  BY <1>3
<1>5. PICK r \in PartitionRanges : range' = [range EXCEPT ![w] = r]
  <2>1. CASE Ensure(w) \/ EnsureOutdated(w)
    <3>1. ObservedRange(w) \in PartitionRanges
      BY <2>1, ObservedRangeType DEF Ensure, EnsureOutdated
    <3> QED BY <2>1, <3>1, Zenon DEF Ensure, EnsureOutdated
  <2>2. CASE TearDown(w)
    <3>1. range[w] \in PartitionRanges /\ range = [range EXCEPT ![w] = range[w]] /\ range' = range
      BY <1>1, <2>2 DEF TearDown, TypeOK
    <3> QED BY <3>1
  <2> QED BY <2>1, <2>2, Zenon
<1>6. /\ PassTypes' /\ Alone(w) /\ Busy(w)' /\ Decided(w)'
      /\ pc'[w] # "idle" /\ pc'[w] # "writeMap" /\ tenant' = tenant /\ copy' = copy
  BY <1>2, <1>5, ProceedPass, Zenon
<1>7. UNCHANGED <<object, shared, caches, gauge, lives, changes>>
  BY <1>2 DEF Proceed
<1>8. /\ pool' \in [Tenants -> SUBSET Dedicated]
      /\ assigned' \in [Tenants -> PartitionRanges \cup {NoRange}]
      /\ faults' \in Nat
  <2>1. CASE Ensure(w)
    <3>1. ObservedRange(w) \in PartitionRanges
      BY <2>1, ObservedRangeType, Zenon DEF Ensure
    <3> QED BY <1>1, <1>3, <1>4, <2>1, <3>1 DEF Ensure, TypeOK
  <2>2. CASE EnsureOutdated(w)
    BY <1>1, <2>2 DEF EnsureOutdated, Fault, TypeOK
  <2>3. CASE TearDown(w)
    BY <1>1, <1>3, <2>3, Zenon DEF TearDown, TypeOK
  <2> QED BY <2>1, <2>2, <2>3, Zenon
<1>9. TypeOK'
  BY <1>1, <1>6, <1>7, <1>8 DEF TypeOK, PassTypes, object, shared, caches
<1>10. PassesGood'
  BY <1>6, PassesKept DEF IInv
<1>11. CopiesGood'
  BY <1>1, <1>2, <1>6, <1>7, CopiesKept DEF IInv, caches
<1>12. MapsGood'
  BY <1>1, <1>6, <1>7, MapsKept DEF IInv, caches
<1> QED BY <1>9, <1>10, <1>11, <1>12 DEF IInv

\* A pass that fails leaves everything but its own variables as it was.
LEMMA FailureIInv ==
  ASSUME IInv, NEW w \in Workers, Conflict(w) \/ Abort(w)
  PROVE  IInv'
<1>1. TypeOK
  BY DEF IInv
<1>2. End(w) /\ UNCHANGED <<object, shared, caches, pool, assigned, gauge, lives, changes>>
  BY DEF Conflict, Abort
<1>3. faults' \in Nat
  BY <1>1 DEF Conflict, Abort, Fault, TypeOK
<1>4. PassTypes' /\ Alone(w) /\ pc'[w] = "idle"
  BY <1>1, <1>2, EndPass, Zenon
<1>5. TypeOK'
  BY <1>1, <1>2, <1>3, <1>4 DEF TypeOK, PassTypes, object, shared, caches
<1>6. PassesGood'
  BY <1>4, PassesKept, IdleGood DEF IInv
<1>7. CopiesGood'
  BY <1>1, <1>2, <1>4, CopiesKept DEF IInv, caches
<1>8. MapsGood'
  BY <1>1, <1>2, <1>4, MapsKept DEF IInv, caches
<1> QED BY <1>5, <1>6, <1>7, <1>8 DEF IInv

\* mutateTenantPartitionMap up to its write: what it is about to write differs
\* from what it has read in one entry.
LEMMA GetMapIInv ==
  ASSUME IInv, NEW w \in Workers, GetMap(w)
  PROVE  IInv'
<1> DEFINE old == mapCache[w]
           new == Mutated(w, old)
<1>1. TypeOK
  BY DEF IInv
<1>2. /\ pc[w] = "getMap"
      /\ UNCHANGED <<object, map, mapCacheCurrent, caches, copy, observed, range, todo, pool, assigned,
                     gauge, tenant, faults, lives, changes>>
  BY DEF GetMap
<1>3. old \in ConfigMaps /\ new \in ConfigMaps /\ new.exists = old.exists
  <2>1. old \in ConfigMaps
    BY <1>1 DEF TypeOK
  <2>2. new.exists = old.exists
    BY <2>1 DEF Mutated, ConfigMaps
  <2> QED BY <1>1, <2>1, <2>2, MutatedType
<1>4. CASE new = old
  <2>1. /\ Goto(w, "status") /\ UNCHANGED <<mapping, mappingCurrent>>
        /\ mapping' = [mapping EXCEPT ![w] = mapping[w]] /\ mapping[w] \in ConfigMaps
    BY <1>1, <1>4 DEF GetMap, TypeOK
  <2>2. PassTypes' /\ Alone(w) /\ Busy(w)' /\ Decided(w)' /\ pc'[w] = "status"
    BY <1>2, <2>1, MapPass, Zenon
  <2>3. TypeOK'
    BY <1>1, <1>2, <2>1, <2>2 DEF TypeOK, PassTypes, object, caches
  <2>4. PassesGood'
    BY <2>2, PassesKept, Zenon DEF IInv
  <2>5. CopiesGood'
    BY <1>1, <1>2, <2>2, CopiesKept DEF IInv, caches
  <2>6. MapsGood'
    BY <1>1, <1>2, <2>1, <2>2, MapsKept, Zenon DEF IInv, caches, shared
  <2> QED BY <2>3, <2>4, <2>5, <2>6, Zenon DEF IInv
<1>5. CASE new # old
  <2>1. /\ Goto(w, "writeMap") /\ mapping' = [mapping EXCEPT ![w] = new]
        /\ mappingCurrent' = IF w \in mapCacheCurrent THEN mappingCurrent \cup {w} ELSE mappingCurrent \ {w}
    BY <1>5 DEF GetMap
  <2>2. PassTypes' /\ Alone(w) /\ Busy(w)' /\ Decided(w)' /\ pc'[w] = "writeMap" /\ mapping'[w] = new
    BY <1>2, <1>3, <2>1, MapPass, Zenon
  <2>3. TypeOK'
    BY <1>1, <1>2, <2>1, <2>2, Zenon DEF TypeOK, PassTypes, object, caches
  <2>4. PassesGood'
    BY <2>2, PassesKept, Zenon DEF IInv
  <2>5. CopiesGood'
    BY <1>1, <1>2, <2>2, CopiesKept, Zenon DEF IInv, caches
  <2>6. /\ Honest(map)' /\ \A v \in Workers : Honest(mapCache[v])'
        /\ \A v \in mapCacheCurrent' : mapCache'[v] = map'
    BY Parts, <1>2 DEF MapsGood, Honest, caches
  <2>7. ASSUME NEW v \in Workers, pc'[v] = "writeMap"
        PROVE  /\ v \in mappingCurrent' => mapping'[v] = Mutated(v, map)'
               /\ ~mapping'[v].exists => mapping'[v] = Mutated(v, NoMap)'
    <3>1. Mutated(v, map)' = Mutated(v, map) /\ Mutated(v, NoMap)' = Mutated(v, NoMap)
      BY <1>2, Zenon DEF Mutated, NoMap
    <3>2. CASE v = w
      <4>1. w \in mappingCurrent' => old = map
        BY Parts, <2>1, Zenon DEF MapsGood
      <4>2. ~new.exists => old = NoMap
        BY Parts, <1>3, Zenon DEF MapsGood, Honest
      <4> QED BY <2>2, <3>1, <3>2, <4>1, <4>2, Zenon
    <3>3. CASE v # w
      <4>1. pc[v] = "writeMap" /\ mapping'[v] = mapping[v] /\ (v \in mappingCurrent' => v \in mappingCurrent)
        BY <2>1, <2>2, <2>7, <3>3, Zenon DEF Alone, Pass
      <4> QED BY Parts, <3>1, <4>1 DEF MapsGood
    <3> QED BY <3>2, <3>3
  <2> QED BY <2>3, <2>4, <2>5, <2>6, <2>7, Zenon DEF IInv, MapsGood
<1> QED BY <1>4, <1>5, Zenon

\* What a successful write makes of the map: the API server's map, with the
\* entry of the pass's tenant as the pass has decided it.
LEMMA WrittenMap ==
  ASSUME IInv, NEW w \in Workers, pc[w] = "writeMap", NEW m,
         \/ ~mapping[w].exists /\ ~map.exists /\ m = [mapping[w] EXCEPT !.exists = TRUE]
         \/ mapping[w].exists /\ w \in mappingCurrent /\ m = mapping[w]
  PROVE  /\ m \in ConfigMaps /\ m.exists
         /\ m.entries = [map.entries EXCEPT ![tenant[w]] = IF copy[w].dedicated THEN range[w] ELSE NoRange]
<1>1. TypeOK
  BY DEF IInv
<1>2. mapping[w] \in ConfigMaps /\ map \in ConfigMaps
  BY <1>1 DEF TypeOK
<1>3. CASE ~mapping[w].exists /\ ~map.exists /\ m = [mapping[w] EXCEPT !.exists = TRUE]
  <2>1. map = NoMap /\ mapping[w] = Mutated(w, NoMap)
    BY Parts, <1>3 DEF MapsGood, Honest
  <2>2. m \in ConfigMaps /\ m.exists /\ m.entries = mapping[w].entries
    BY <1>2, <1>3, Zenon DEF ConfigMaps
  <2>3. NoMap \in ConfigMaps
    BY Starting
  <2>4. Mutated(w, NoMap).entries
          = [NoMap.entries EXCEPT ![tenant[w]] = IF copy[w].dedicated THEN range[w] ELSE NoRange]
    BY <2>3 DEF Mutated, ConfigMaps
  <2> QED BY <2>1, <2>2, <2>4
<1>4. CASE mapping[w].exists /\ w \in mappingCurrent /\ m = mapping[w]
  <2>1. mapping[w] = Mutated(w, map)
    BY Parts, <1>4 DEF MapsGood
  <2>2. Mutated(w, map).entries
          = [map.entries EXCEPT ![tenant[w]] = IF copy[w].dedicated THEN range[w] ELSE NoRange]
    BY <1>2 DEF Mutated, ConfigMaps
  <2> QED BY <1>2, <1>4, <2>1, <2>2
<1> QED BY <1>3, <1>4

\* The write outdates every copy of the map.
LEMMA WriteMapIInv ==
  ASSUME IInv, NEW w \in Workers, CreateMap(w) \/ UpdateMap(w)
  PROVE  IInv'
<1>1. TypeOK
  BY DEF IInv
<1>2. /\ pc[w] = "writeMap" /\ mapping' = [mapping EXCEPT ![w] = NoMap]
      /\ UNCHANGED <<object, caches, copy, observed, range, todo, pool, assigned, gauge, tenant, faults, lives, changes>>
  BY DEF CreateMap, UpdateMap
<1>3. PICK s \in {"getMap", "status"} : Goto(w, s)
  BY DEF CreateMap, UpdateMap
<1>4. PassTypes' /\ Alone(w) /\ Busy(w)' /\ Decided(w)' /\ pc'[w] = s
  BY <1>2, <1>3, Starting, MapPass, ZenonT(30)
<1>5. PassesGood'
  BY <1>4, PassesKept DEF IInv
<1>6. CopiesGood'
  BY <1>1, <1>2, <1>3, <1>4, CopiesKept, Zenon DEF IInv, caches
<1>7. CASE UNCHANGED shared
  <2>1. TypeOK'
    BY <1>1, <1>2, <1>4, <1>7 DEF TypeOK, PassTypes, object, caches, shared
  <2>2. MapsGood'
    BY <1>1, <1>2, <1>3, <1>4, <1>7, MapsKept, Zenon DEF IInv, caches
  <2> QED BY <1>5, <1>6, <2>1, <2>2, Zenon DEF IInv
<1>8. CASE \E m \in ConfigMaps : m.exists /\ WriteMap(m)
  <2>1. PICK m \in ConfigMaps : m.exists /\ WriteMap(m)
    BY <1>8
  <2>2. map' = m /\ mapCacheCurrent' = {} /\ mappingCurrent' = {}
    BY <2>1, Zenon DEF WriteMap
  <2>3. TypeOK'
    BY <1>1, <1>2, <1>4, <2>2 DEF TypeOK, PassTypes, object, caches
  <2>4. Honest(map)' /\ \A v \in Workers : Honest(mapCache[v])'
    BY Parts, <1>2, <2>1, <2>2, Zenon DEF MapsGood, Honest, caches
  <2>5. ASSUME NEW v \in Workers, pc'[v] = "writeMap", ~mapping'[v].exists
        PROVE  mapping'[v] = Mutated(v, NoMap)'
    <3>1. v # w /\ pc[v] = "writeMap" /\ mapping'[v] = mapping[v]
      BY <1>3, <1>4, <2>5, Zenon DEF Alone, Pass
    <3>2. Mutated(v, NoMap)' = Mutated(v, NoMap)
      BY <1>2 DEF Mutated, NoMap
    <3> QED BY Parts, <2>5, <3>1, <3>2, ZenonT(30) DEF MapsGood
  <2>6. MapsGood'
    BY <2>2, <2>4, <2>5, Zenon DEF MapsGood
  <2> QED BY <1>5, <1>6, <2>3, <2>6 DEF IInv
<1>9. UNCHANGED shared \/ \E m \in ConfigMaps : m.exists /\ WriteMap(m)
  <2>1. CASE UpdateMap(w)
    BY <2>1, WrittenMap, Zenon DEF UpdateMap
  <2>2. CASE CreateMap(w) /\ ~map.exists
    BY <2>2, WrittenMap, Zenon DEF CreateMap
  <2>3. CASE CreateMap(w) /\ map.exists
    BY <2>3, Zenon DEF CreateMap
  <2> QED BY <2>1, <2>2, <2>3
<1> QED BY <1>7, <1>8, <1>9

\* Update with the flag set: the copy stays current, all others are outdated.
LEMMA UpdateSpecIInv ==
  ASSUME IInv, NEW w \in Workers, UpdateSpec(w)
  PROVE  IInv'
<1> DEFINE t == tenant[w]
           new == [copy[w] EXCEPT !.dedicated = TRUE]
<1>1. TypeOK
  BY DEF IInv
<1>2. /\ pc[w] = "updateSpec" /\ w \in copyCurrent /\ Write(t, new, {w})
      /\ UNCHANGED <<shared, caches, pool, assigned, gauge, faults, lives, changes>>
  BY DEF UpdateSpec
<1>3. t \in Tenants
  BY Parts, <1>2 DEF PassesGood, Busy
<1>4. /\ PassTypes' /\ Alone(w) /\ Busy(w)' /\ Decided(w)' /\ pc'[w] # "idle" /\ pc'[w] # "writeMap"
      /\ tenant' = tenant /\ copy'[w] = new /\ new \in TradingTenants
  BY UpdateSpecPass, Zenon
<1> HIDE DEF new, t
<1>5. /\ tenants' = [tenants EXCEPT ![t] = new]
      /\ cacheCurrent' = {x \in cacheCurrent : x[2] # t}
      /\ copyCurrent' = {v \in copyCurrent : tenant[v] # t \/ v \in {w}}
  BY <1>2, Zenon DEF Write
<1>6. TypeOK'
  BY <1>1, <1>2, <1>3, <1>4, <1>5 DEF TypeOK, PassTypes, shared, caches
<1>7. PassesGood'
  BY <1>4, PassesKept, ZenonT(30) DEF IInv
<1>8. \A v \in Workers, u \in Tenants : <<v, u>> \in cacheCurrent' => cache'[v][u] = tenants'[u]
  BY Parts, <1>1, <1>2, <1>5, ZenonT(30) DEF CopiesGood, TypeOK, caches
<1>9. \A v \in copyCurrent' : pc'[v] # "idle" => copy'[v] = tenants'[tenant'[v]]
  <2> SUFFICES ASSUME NEW v \in copyCurrent', pc'[v] # "idle"
               PROVE  copy'[v] = tenants'[tenant'[v]]
    OBVIOUS
  <2>1. CASE v = w
    BY <1>1, <1>3, <1>4, <1>5, <2>1, ZenonT(30) DEF TypeOK, t
  <2>2. CASE v # w
    <3>1. v \in Workers /\ v \in copyCurrent /\ tenant[v] # t
      BY <1>1, <1>5, <2>2 DEF TypeOK
    <3>2. pc[v] # "idle" /\ copy'[v] = copy[v] /\ tenant'[v] = tenant[v]
      BY <1>4, <2>2, <3>1, ZenonT(30) DEF Alone, Pass
    <3>3. tenant[v] \in Tenants
      BY Parts, <3>1, <3>2, Zenon DEF PassesGood, Busy
    <3>4. tenants'[tenant[v]] = tenants[tenant[v]]
      BY <1>1, <1>5, <3>1, <3>3, Zenon DEF TypeOK
    <3> QED BY Parts, <3>1, <3>2, <3>4, Zenon DEF CopiesGood
  <2> QED BY <2>1, <2>2, Zenon
<1>10. MapsGood'
  BY <1>1, <1>2, <1>4, MapsKept, Zenon DEF IInv, caches
<1> QED BY <1>6, <1>7, <1>8, <1>9, <1>10, Zenon DEF IInv, CopiesGood

\* A write by nobody's pass, or by one that ends, outdates the copies of all
\* passes over that tenant.
LEMMA CopiesOutdated ==
  ASSUME TypeOK, PassesGood, CopiesGood, NEW t \in Tenants, NEW new \in TradingTenants,
         Write(t, new, {}), cache' = cache,
         \A v \in Workers : pc'[v] = "idle" \/ (pc[v] # "idle" /\ copy'[v] = copy[v] /\ tenant'[v] = tenant[v])
  PROVE  CopiesGood'
<1>1. /\ tenants' = [tenants EXCEPT ![t] = new]
      /\ cacheCurrent' = {x \in cacheCurrent : x[2] # t}
      /\ copyCurrent' = {v \in copyCurrent : tenant[v] # t \/ v \in {}}
  BY DEF Write
<1>2. \A v \in Workers, u \in Tenants : <<v, u>> \in cacheCurrent' => cache'[v][u] = tenants'[u]
  BY <1>1, ZenonT(30) DEF CopiesGood, TypeOK
<1>3. ASSUME NEW v \in copyCurrent', pc'[v] # "idle"
      PROVE  copy'[v] = tenants'[tenant'[v]]
  <2>1. v \in Workers /\ v \in copyCurrent /\ tenant[v] # t
    BY <1>1, <1>3, Zenon DEF TypeOK
  <2>2. pc[v] # "idle" /\ copy'[v] = copy[v] /\ tenant'[v] = tenant[v]
    BY <1>3, <2>1, Zenon
  <2>3. tenant[v] \in Tenants
    BY <2>1, <2>2 DEF PassesGood, Busy
  <2>4. tenants'[tenant[v]] = tenants[tenant[v]]
    BY <1>1, <2>1, <2>3, Zenon DEF TypeOK
  <2> QED BY <2>1, <2>2, <2>4, ZenonT(30) DEF CopiesGood
<1> QED BY <1>2, <1>3, Zenon DEF CopiesGood

\* Status().Update, after which the pass is over.
LEMMA UpdateStatusIInv ==
  ASSUME IInv, NEW w \in Workers, UpdateStatus(w)
  PROVE  IInv'
<1> DEFINE t == tenant[w]
           new == [copy[w] EXCEPT !.replicas = Classify(copy[w], observed[w]).replicas]
<1>1. TypeOK
  BY DEF IInv
<1>2. /\ pc[w] = "status" /\ Write(t, new, {}) /\ End(w)
      /\ UNCHANGED <<shared, caches, pool, assigned, gauge, faults, lives, changes>>
  BY DEF UpdateStatus
<1>3. t \in Tenants
  BY Parts, <1>2 DEF PassesGood, Busy
<1>4. new \in TradingTenants
  <2>1. copy[w] \in TradingTenants /\ observed[w] \in Signals
    BY <1>1 DEF TypeOK
  <2>2. Classify(copy[w], observed[w]).replicas \in Nat
    BY <2>1, ClassifyType, Zenon
  <2> QED BY <2>1, <2>2 DEF TradingTenants
<1>5. PassTypes' /\ Alone(w) /\ pc'[w] = "idle"
  BY <1>1, <1>2, EndPass, Zenon
<1> HIDE DEF new, t
<1>6. TypeOK'
  BY <1>1, <1>2, <1>3, <1>4, <1>5 DEF TypeOK, PassTypes, Write, shared, caches
<1>7. PassesGood'
  BY <1>5, IdleGood, PassesKept, Zenon DEF IInv
<1>8. \A v \in Workers : pc'[v] = "idle" \/ (pc[v] # "idle" /\ copy'[v] = copy[v] /\ tenant'[v] = tenant[v])
  BY <1>5, Zenon DEF Alone, Pass
<1>9. CopiesGood'
  BY <1>1, <1>2, <1>3, <1>4, <1>8, CopiesOutdated, ZenonT(30) DEF IInv, caches
<1>10. MapsGood'
  BY <1>1, <1>2, <1>5, MapsKept, Zenon DEF IInv, caches
<1> QED BY <1>6, <1>7, <1>9, <1>10 DEF IInv

\* The copy of a new pass is current exactly when the cached one is.
LEMMA StartIInv ==
  ASSUME IInv, NEW w \in Workers, NEW t \in Tenants, Start(w, t)
  PROVE  IInv'
<1>1. TypeOK
  BY DEF IInv
<1>2. /\ copyCurrent' = IF <<w, t>> \in cacheCurrent THEN copyCurrent \cup {w} ELSE copyCurrent \ {w}
      /\ UNCHANGED <<tenants, cacheCurrent, shared, caches, pool, assigned, gauge, faults, lives, changes>>
  BY ZenonT(30) DEF Start
<1>3. /\ PassTypes' /\ Alone(w) /\ Busy(w)' /\ Decided(w)'
      /\ pc'[w] # "idle" /\ pc'[w] # "writeMap" /\ tenant'[w] = t /\ copy'[w] = cache[w][t]
  BY StartPass, ZenonT(30)
<1>4. TypeOK'
  BY <1>1, <1>2, <1>3 DEF TypeOK, PassTypes, shared, caches
<1>5. PassesGood'
  BY <1>3, PassesKept, ZenonT(30) DEF IInv
<1>6. ASSUME NEW v \in copyCurrent', pc'[v] # "idle"
      PROVE  copy'[v] = tenants'[tenant'[v]]
  <2>1. CASE v = w
    BY Parts, <1>1, <1>2, <1>3, <2>1, ZenonT(30) DEF CopiesGood, TypeOK
  <2>2. CASE v # w
    <3>1. v \in copyCurrent /\ v \in Workers
      BY <1>1, <1>2, <2>2 DEF TypeOK
    <3>2. pc[v] # "idle" /\ copy'[v] = copy[v] /\ tenant'[v] = tenant[v]
      BY <1>3, <1>6, <2>2, <3>1, ZenonT(30) DEF Alone, Pass
    <3> QED BY Parts, <1>2, <3>1, <3>2, Zenon DEF CopiesGood
  <2> QED BY <2>1, <2>2
<1>7. CopiesGood'
  BY Parts, <1>2, <1>6, Zenon DEF CopiesGood, caches
<1>8. MapsGood'
  BY <1>1, <1>2, <1>3, MapsKept, Zenon DEF IInv, caches
<1> QED BY <1>4, <1>5, <1>7, <1>8 DEF IInv

-----------------------------------------------------------------------------
(* The caches and the users *)

\* Sync brings a worker's cache up to date with the API server.
LEMMA SyncIInv ==
  ASSUME IInv, NEW w \in Workers, NEW t \in Tenants, Sync(w, t)
  PROVE  IInv'
<1>1. TypeOK
  BY DEF IInv
<1>2. /\ cache' = [cache EXCEPT ![w][t] = tenants[t]]
      /\ cacheCurrent' = cacheCurrent \cup {<<w, t>>}
      /\ UNCHANGED <<tenants, copyCurrent, shared, mapCache, locals, pool, assigned, gauge, pc, tenant, faults, lives, changes>>
  BY Zenon DEF Sync
<1>3. TypeOK'
  BY <1>1, <1>2 DEF TypeOK, shared, locals
<1>4. CopiesGood'
  BY Parts, <1>1, <1>2, Zenon DEF CopiesGood, TypeOK, locals
<1>5. PassesGood' /\ MapsGood'
  BY <1>2, PassesUntouched, MapsUntouched DEF IInv
<1> QED BY <1>3, <1>4, <1>5, Zenon DEF IInv

\* So does SyncMap for the ConfigMap.
LEMMA SyncMapIInv ==
  ASSUME IInv, NEW w \in Workers, SyncMap(w)
  PROVE  IInv'
<1>1. TypeOK
  BY DEF IInv
<1>2. /\ mapCache' = [mapCache EXCEPT ![w] = map]
      /\ mapCacheCurrent' = mapCacheCurrent \cup {w}
      /\ UNCHANGED <<object, map, mappingCurrent, cache, locals, pool, assigned, gauge, pc, tenant, faults, lives, changes>>
  BY Zenon DEF SyncMap
<1>3. TypeOK'
  BY <1>1, <1>2 DEF TypeOK, object, locals
<1>4. PassesGood' /\ CopiesGood'
  BY Parts, <1>2, PassesUntouched, ZenonT(30) DEF CopiesGood, object, locals
<1>5. /\ Honest(map)' /\ \A v \in Workers : Honest(mapCache[v])'
      /\ \A v \in mapCacheCurrent' : mapCache'[v] = map'
  BY Parts, <1>1, <1>2, ZenonT(30) DEF MapsGood, TypeOK, Honest, NoMap
<1>6. \A v \in Workers : Mutated(v, map)' = Mutated(v, map) /\ Mutated(v, NoMap)' = Mutated(v, NoMap)
  BY <1>2 DEF Mutated, NoMap, locals
<1>7. MapsGood'
  BY Parts, <1>2, <1>5, <1>6, Zenon DEF MapsGood, locals
<1> QED BY <1>3, <1>4, <1>7, Zenon DEF IInv

\* A TradingTenant is created, deleted or changed by a user.
LEMMA UserIInv ==
  ASSUME IInv, NEW t \in Tenants, CreateTenant(t) \/ DeleteTenant(t) \/ DeIsolate(t)
  PROVE  IInv'
<1>1. TypeOK
  BY DEF IInv
<1>2. /\ UNCHANGED <<shared, caches, locals, pool, assigned, gauge, pc, tenant, faults>>
      /\ lives' \in Nat /\ changes' \in Nat
  <2>1. lives \in Nat /\ changes \in Nat
    BY <1>1 DEF TypeOK
  <2>2. CASE Life
    BY <2>1, <2>2 DEF Life
  <2>3. CASE Change /\ UNCHANGED gauge
    BY <2>1, <2>3 DEF Change
  <2>4. Life \/ (Change /\ UNCHANGED gauge)
    BY Zenon DEF CreateTenant, DeleteTenant, DeIsolate
  <2> QED BY <2>2, <2>3, <2>4, Zenon
<1>3. PICK new \in TradingTenants : Write(t, new, {})
  <2>1. CASE CreateTenant(t)
    BY <2>1, Zenon DEF CreateTenant, TradingTenants
  <2>2. CASE DeleteTenant(t)
    BY <2>2, Starting DEF DeleteTenant
  <2>3. CASE DeIsolate(t)
    BY <1>1, <2>3, ZenonT(30) DEF DeIsolate, TypeOK, TradingTenants
  <2> QED BY <2>1, <2>2, <2>3
<1>4. TypeOK'
  BY <1>1, <1>2, <1>3 DEF TypeOK, Write, shared, caches, locals
<1>5. CopiesGood'
  BY <1>1, <1>2, <1>3, CopiesOutdated, Zenon DEF IInv, caches, locals
<1>6. PassesGood' /\ MapsGood'
  BY <1>2, PassesUntouched, MapsUntouched DEF IInv, caches
<1> QED BY <1>4, <1>5, <1>6 DEF IInv

\* The publisher, the garbage collector, and nothing at all.
LEMMA OutsideIInv ==
  ASSUME IInv, (\E t \in Tenants : MoveRange(t) \/ CollectGarbage(t)) \/ UNCHANGED vars
  PROVE  IInv'
<1>1. TypeOK
  BY DEF IInv
<1>2. UNCHANGED <<object, shared, caches, locals, pc, tenant>>
  BY Zenon DEF MoveRange, CollectGarbage, Change, vars
<1>3. TypeOK'
  <2>1. /\ gauge' \in [Tenants -> Ranges] /\ pool' \in [Tenants -> SUBSET Dedicated]
        /\ assigned' \in [Tenants -> PartitionRanges \cup {NoRange}]
        /\ faults' \in Nat /\ lives' \in Nat /\ changes' \in Nat
    <3>1. CASE \E t \in Tenants : MoveRange(t)
      BY <1>1, <3>1 DEF MoveRange, Change, TypeOK
    <3>2. CASE \E t \in Tenants : CollectGarbage(t)
      BY <1>1, <3>2, Zenon DEF CollectGarbage, TypeOK
    <3>3. CASE UNCHANGED vars
      BY <1>1, <3>3 DEF vars, TypeOK
    <3> QED BY <3>1, <3>2, <3>3, Zenon
  <2> QED BY <1>1, <1>2, <2>1, Zenon DEF TypeOK, object, shared, caches, locals
<1>4. PassesGood' /\ MapsGood'
  BY <1>2, PassesUntouched, MapsUntouched DEF IInv, caches
<1>5. CopiesGood'
  BY Parts, <1>2, ZenonT(30) DEF CopiesGood, object, caches, locals
<1> QED BY <1>3, <1>4, <1>5 DEF IInv

-----------------------------------------------------------------------------
(* The theorems *)

\* The induction starts: every worker is idle, with an up-to-date cache.
LEMMA InitIInv == Init => IInv
<1> SUFFICES ASSUME Init PROVE IInv
  OBVIOUS
<1>1. PICK isolated \in SUBSET Existing :
        /\ tenants = [t \in Tenants |->
                        IF t \in Existing
                        THEN [exists |-> TRUE, dedicated |-> t \in isolated, replicas |-> MinReplicas]
                        ELSE Absent]
        /\ pool = [t \in Tenants |-> IF t \in isolated THEN Dedicated ELSE {}]
        /\ assigned = [t \in Tenants |-> IF t \in isolated THEN AnyRange ELSE NoRange]
        /\ map = [exists |-> isolated # {}, entries |-> assigned]
  BY ZenonT(30) DEF Init
<1>2. tenants \in [Tenants -> TradingTenants]
  BY <1>1, StartingTenants, Zenon
<1>3. assigned \in [Tenants -> PartitionRanges \cup {NoRange}] /\ map \in ConfigMaps
  BY <1>1, Starting, Zenon DEF ConfigMaps
<1>4. <<>> \in Seq(Dedicated) /\ Workers \X Tenants \subseteq Workers \X Tenants
  OBVIOUS
<1>5. PassTypes
  BY <1>4, Starting DEF Init, PassTypes, Steps
<1>6. TypeOK
  BY <1>1, <1>2, <1>3, <1>5, Starting, ZenonT(30) DEF Init, TypeOK, PassTypes
<1>7. PassesGood
  BY Zenon DEF Init, PassesGood, Busy, Decided
<1>8. CopiesGood
  BY DEF Init, CopiesGood
<1>9. Honest(map)
  <2>1. CASE isolated = {}
    BY <1>1, <2>1, Zenon DEF Honest, NoMap
  <2>2. CASE isolated # {}
    BY <1>1, <2>2, Zenon DEF Honest
  <2> QED BY <2>1, <2>2
<1>10. MapsGood
  BY <1>9, Zenon DEF Init, MapsGood
<1> QED BY <1>6, <1>7, <1>8, <1>10 DEF IInv

\* Every step keeps the invariant.
LEMMA NextIInv == IInv /\ [Next]_vars => IInv'
<1> SUFFICES ASSUME IInv, [Next]_vars PROVE IInv'
  OBVIOUS
<1>1. CASE \E w \in Workers : Step(w) \/ EnsureOutdated(w) \/ Abort(w) \/ SyncMap(w)
  <2>1. PICK w \in Workers : Step(w) \/ EnsureOutdated(w) \/ Abort(w) \/ SyncMap(w)
    BY <1>1
  <2>2. CASE Ensure(w) \/ EnsureOutdated(w) \/ TearDown(w)
    BY <2>2, ResourceIInv
  <2>3. CASE GetMap(w)
    BY <2>3, GetMapIInv
  <2>4. CASE CreateMap(w) \/ UpdateMap(w)
    BY <2>4, WriteMapIInv
  <2>5. CASE UpdateSpec(w)
    BY <2>5, UpdateSpecIInv
  <2>6. CASE UpdateStatus(w)
    BY <2>6, UpdateStatusIInv
  <2>7. CASE Conflict(w) \/ Abort(w)
    BY <2>7, FailureIInv
  <2>8. CASE SyncMap(w)
    BY <2>8, SyncMapIInv
  <2> QED BY <2>1, <2>2, <2>3, <2>4, <2>5, <2>6, <2>7, <2>8 DEF Step
<1>2. CASE \E w \in Workers, t \in Tenants : Start(w, t) \/ Sync(w, t)
  BY <1>2, StartIInv, SyncIInv
<1>3. CASE \E t \in Tenants : CreateTenant(t) \/ DeleteTenant(t) \/ DeIsolate(t)
  BY <1>3, UserIInv
<1>4. CASE (\E t \in Tenants : MoveRange(t) \/ CollectGarbage(t)) \/ UNCHANGED vars
  BY <1>4, OutsideIInv
<1> QED BY <1>1, <1>2, <1>3, <1>4 DEF Next

\* Current copies are the object: the inductive invariant.
THEOREM Invariance == Spec => []IInv
BY InitIInv, NextIInv, PTL DEF Spec

\* Every variable of the operator keeps its type: no pass asks for a negative
\* number of replicas or assigns a range without partitions.
THEOREM TypeCorrect == Spec => []TypeOK
<1>1. IInv => TypeOK
  BY DEF IInv
<1> QED BY <1>1, Invariance, PTL

\* CreateOrUpdate of the shared map writes the entry of the pass's own tenant
\* and keeps all others, whatever other passes write between its read and its
\* write.
THEOREM EntriesKept == Spec => OnlyOwnEntry
<1> DEFINE Own(t) ==
      \E w \in Workers : /\ pc[w] = "writeMap" /\ tenant[w] = t
                         /\ map'.entries[t] = IF copy[w].dedicated THEN range[w] ELSE NoRange
<1>1. ASSUME IInv, [Next]_vars, NEW t \in Tenants, map'.entries[t] # map.entries[t]
      PROVE  Own(t)
  <2>1. PICK w \in Workers : CreateMap(w) \/ UpdateMap(w)
    <3>1. map' # map
      BY <1>1, Zenon
    <3>2. ASSUME NEW w \in Workers, UpdateSpec(w) \/ Ensure(w) \/ EnsureOutdated(w) \/ TearDown(w) PROVE map' = map
      BY <3>2, Zenon DEF UpdateSpec, Ensure, EnsureOutdated, TearDown, Proceed, shared
    <3>3. ASSUME NEW w \in Workers, GetMap(w) \/ UpdateStatus(w) \/ Conflict(w) \/ Abort(w) \/ SyncMap(w) PROVE map' = map
      BY <3>3, Zenon DEF GetMap, UpdateStatus, Conflict, Abort, SyncMap, shared
    <3>4. ASSUME NEW w \in Workers, NEW u \in Tenants, Start(w, u) \/ Sync(w, u) PROVE map' = map
      BY <3>4, Zenon DEF Start, Sync, shared
    <3>5. ASSUME NEW u \in Tenants, CreateTenant(u) \/ DeleteTenant(u) \/ DeIsolate(u) \/ MoveRange(u) \/ CollectGarbage(u)
          PROVE  map' = map
      BY <3>5, Zenon DEF CreateTenant, DeleteTenant, DeIsolate, MoveRange, CollectGarbage, Life, Change, shared
    <3>6. CASE UNCHANGED vars
      BY <3>1, <3>6, Zenon DEF vars, shared
    <3> QED BY <1>1, <3>1, <3>2, <3>3, <3>4, <3>5, <3>6, Zenon DEF Next, Step
  <2>2. PICK m : /\ pc[w] = "writeMap" /\ map' = m
                 /\ \/ ~mapping[w].exists /\ ~map.exists /\ m = [mapping[w] EXCEPT !.exists = TRUE]
                    \/ mapping[w].exists /\ w \in mappingCurrent /\ m = mapping[w]
    BY <1>1, <2>1 DEF CreateMap, UpdateMap, WriteMap, shared
  <2>3. m.entries = [map.entries EXCEPT ![tenant[w]] = IF copy[w].dedicated THEN range[w] ELSE NoRange]
    BY <1>1, <2>2, WrittenMap, Zenon
  <2>4. map.entries \in [Tenants -> PartitionRanges \cup {NoRange}]
    BY Parts, <1>1, Zenon DEF TypeOK, ConfigMaps
  <2>5. tenant[w] = t
    BY <1>1, <2>2, <2>3, <2>4
  <2> QED BY <2>2, <2>3, <2>4, <2>5
<1>2. IInv /\ [Next]_vars => [\A t \in Tenants : map'.entries[t] # map.entries[t] => Own(t)]_vars
  BY <1>1, Zenon
<1> QED BY <1>2, Invariance, PTL DEF Spec, OnlyOwnEntry

\* Status().Update publishes Isolated only where the spec of that moment has
\* the flag, and Stable only where it has not.
THEOREM StatusHonest == Spec => StatusAgreesWithSpec
<1> DEFINE published(w) == Classify(copy[w], observed[w]).state
           dedicated(w) == tenants'[tenant[w]].dedicated
           Agrees(w) == (published(w) = "Isolated" => dedicated(w)) /\ (published(w) = "Stable" => ~dedicated(w))
<1>1. ASSUME IInv, NEW w \in Workers, UpdateStatus(w)
      PROVE  Agrees(w)
  <2>1. TypeOK /\ pc[w] = "status" /\ tenant[w] \in Tenants
    BY Parts, <1>1, Zenon DEF UpdateStatus, PassesGood, Busy
  <2>2. copy[w] \in TradingTenants /\ observed[w] \in Signals
    BY <2>1 DEF TypeOK
  <2>3. dedicated(w) = copy[w].dedicated
    BY <1>1, <2>1, <2>2 DEF UpdateStatus, Write, TypeOK, TradingTenants
  <2>4. Classify(copy[w], observed[w]).setDedicatedNodePool => copy[w].dedicated
    BY Parts, <1>1, <2>1, Zenon DEF PassesGood, Decided
  <2>5. published(w) = "Isolated" => copy[w].dedicated \/ Classify(copy[w], observed[w]).setDedicatedNodePool
    BY <2>2 DEF Classify, TradingTenants, Signals
  <2>6. published(w) = "Stable" => ~copy[w].dedicated
    BY <2>2 DEF Classify, TradingTenants, Signals
  <2> QED BY <2>3, <2>4, <2>5, <2>6, Zenon
<1>2. IInv /\ [Next]_vars => [\A w \in Workers : UpdateStatus(w) => Agrees(w)]_vars
  BY <1>1, Zenon
<1> QED BY <1>2, Invariance, PTL DEF Spec, StatusAgreesWithSpec

\* No pass takes the flag of a tenant away: only a user does.
THEOREM FlagKept == Spec => IsolationPersists
<1>1. ASSUME IInv, [Next]_vars, NEW t \in Tenants, tenants[t].dedicated, ~tenants'[t].dedicated
      PROVE  changes' # changes \/ lives' # lives
  <2>1. TypeOK
    BY <1>1, Zenon DEF IInv
  <2>2. ASSUME NEW w \in Workers, UpdateSpec(w)
        PROVE  FALSE
    BY <1>1, <2>1, <2>2 DEF UpdateSpec, Write, TypeOK, TradingTenants
  <2>3. ASSUME NEW w \in Workers, UpdateStatus(w)
        PROVE  FALSE
    <3>1. copy[w] = tenants[tenant[w]]
      BY Parts, <1>1, <2>3 DEF UpdateStatus, CopiesGood
    <3> QED BY <1>1, <2>1, <2>3, <3>1 DEF UpdateStatus, Write, TypeOK, TradingTenants
  <2>4. tenants' # tenants
    BY <1>1
  <2>5. \E u \in Tenants : CreateTenant(u) \/ DeleteTenant(u) \/ DeIsolate(u)
    <3>1. ASSUME NEW w \in Workers, Ensure(w) \/ EnsureOutdated(w) \/ TearDown(w) PROVE tenants' = tenants
      BY <3>1, Zenon DEF Ensure, EnsureOutdated, TearDown, Proceed, object
    <3>2. ASSUME NEW w \in Workers, GetMap(w) \/ CreateMap(w) \/ UpdateMap(w) \/ Conflict(w) \/ Abort(w) \/ SyncMap(w)
          PROVE  tenants' = tenants
      BY <3>2, Zenon DEF GetMap, CreateMap, UpdateMap, Conflict, Abort, SyncMap, object
    <3>3. ASSUME NEW w \in Workers, NEW u \in Tenants, Start(w, u) \/ Sync(w, u) PROVE tenants' = tenants
      BY <3>3, Zenon DEF Start, Sync, object
    <3>4. ASSUME NEW u \in Tenants, MoveRange(u) \/ CollectGarbage(u) PROVE tenants' = tenants
      BY <3>4, Zenon DEF MoveRange, CollectGarbage, object
    <3>5. CASE UNCHANGED vars
      BY <2>4, <3>5, Zenon DEF vars, object
    <3> QED BY <1>1, <2>2, <2>3, <2>4, <3>1, <3>2, <3>3, <3>4, <3>5, Zenon DEF Next, Step
  <2>6. lives \in Nat /\ changes \in Nat
    BY <2>1 DEF TypeOK
  <2>7. lives' = lives + 1 \/ changes' = changes + 1
    BY <2>5, Zenon DEF CreateTenant, DeleteTenant, DeIsolate, Life, Change
  <2> QED BY <2>6, <2>7
<1>2. IInv /\ [Next]_vars
        => [\A t \in Tenants : tenants[t].dedicated /\ ~tenants'[t].dedicated => changes' # changes \/ lives' # lives]_vars
  BY <1>1
<1> QED BY <1>2, Invariance, PTL DEF Spec, IsolationPersists
=============================================================================
