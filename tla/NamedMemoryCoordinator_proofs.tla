------------------- MODULE NamedMemoryCoordinator_proofs -------------------
(***************************************************************************)
(* Theorems about NamedMemoryCoordinator, for any number of regions,       *)
(* evaluations, calls, failures and retries.                               *)
(***************************************************************************)
EXTENDS NamedMemoryCoordinator, FiniteSetTheorems, TLAPS

-----------------------------------------------------------------------------
(* Type correctness.                                                       *)

\* The operations of the driver keep its state well typed.
LEMMA StageType ==
  ASSUME NEW kind \in {"store", "forget"}, NEW region \in RegionState
  PROVE  StageFor(kind, region) \in Stage
BY DEF StageFor, Stage, RegionState, NextGeneration, Tombstoned

LEMMA MutatedType ==
  ASSUME NEW o \in Ops, NEW kind \in {"store", "forget"}, NEW generation \in Nat,
         NEW region \in RegionState
  PROVE  Mutated(o, kind, generation, region) \in RegionState
<1>1. region.cells \in Seq(Ops) BY DEF RegionState
<1>2. << >> \in Seq(Ops) /\ <<o>> \in Seq(Ops) /\ Append(region.cells, o) \in Seq(Ops)
  BY <1>1
<1> QED BY <1>2 DEF Mutated, RegionState

LEMMA PrepareType ==
  ASSUME DriverTypeOK, NEW o \in Ops, Prepare(o)
  PROVE  DriverTypeOK'
<1>1. OpRegion[o] \in Regions /\ OpKind[o] \in {"store", "forget"} BY OpsAssumption
<1>2. StageFor(OpKind[o], regions[OpRegion[o]]) \in Stage
  BY <1>1, StageType DEF DriverTypeOK
<1> QED BY <1>1, <1>2 DEF Prepare, DriverTypeOK, driverVars

LEMMA FinalizeType ==
  ASSUME DriverTypeOK, NEW o \in Ops, NEW tick \in Nat, Finalize(o, tick)
  PROVE  DriverTypeOK'
<1>1. OpRegion[o] \in Regions /\ OpKind[o] \in {"store", "forget"} BY OpsAssumption
<1>2. opStage[o].generation \in Nat BY DEF DriverTypeOK, Stage
<1>3. Mutated(o, OpKind[o], opStage[o].generation, regions[OpRegion[o]]) \in RegionState
  BY <1>1, <1>2, MutatedType DEF DriverTypeOK
<1> QED BY <1>1, <1>3 DEF Finalize, DriverTypeOK, driverVars, Released

LEMMA AbortType ==
  ASSUME DriverTypeOK, NEW o \in Ops, Abort(o)
  PROVE  DriverTypeOK'
<1>1. OpRegion[o] \in Regions BY OpsAssumption
<1> QED BY <1>1 DEF Abort, DriverTypeOK, driverVars, Released

LEMMA ReconcileType ==
  ASSUME DriverTypeOK, NEW o \in Ops, NEW tick \in Nat, Reconcile(o, tick)
  PROVE  DriverTypeOK'
BY FinalizeType DEF Reconcile, DriverTypeOK, driverVars

\* The state of the calls, the ledger and the pending maps is well typed.
CoordTypeOK ==
  /\ ledger \in Seq(Row)
  /\ pending \in [Regions -> SUBSET Ops]
  /\ binding \in [Ops -> Nat]
  /\ closed \in [Regions -> BOOLEAN]

CallTypeOK ==
  /\ pc \in [Calls -> Control]
  /\ left \in [Calls -> SUBSET Regions]
  /\ member \in [Calls -> Regions]
  /\ todo \in [Calls -> SUBSET Ops]
  /\ view \in [Calls -> [generation : Nat, hits : Seq(Ops)]]
  /\ since \in [Calls -> Nat]
  /\ result \in [Calls -> {"none", "ok", "pending", "reused", "failed"}]
  /\ attempts \in [Calls -> 0..MaxAttempts]

LEMMA TypeParts == TypeOK <=> DriverTypeOK /\ CoordTypeOK /\ CallTypeOK /\ faults \in 0..MaxFaults
BY DEF TypeOK, CoordTypeOK, CallTypeOK

LEMMA FaultType ==
  ASSUME NEW seam, faults \in 0..MaxFaults, Fault(seam)
  PROVE  faults' \in 0..MaxFaults
BY CallsAssumption DEF Fault

LEMMA EndType ==
  ASSUME CallTypeOK, NEW c \in Calls, NEW r \in {"none", "ok", "pending", "reused", "failed"},
         End(c, r)
  PROVE  CallTypeOK'
<1>1. NoView \in [generation : Nat, hits : Seq(Ops)] BY DEF NoView
<1>2. "idle" \in Control BY DEF Control
<1>3. pc' \in [Calls -> Control] BY <1>2 DEF End, Goto, CallTypeOK
<1>4. view' \in [Calls -> [generation : Nat, hits : Seq(Ops)]] BY <1>1 DEF End, CallTypeOK
<1> QED BY <1>3, <1>4 DEF End, CallTypeOK

LEMMA ContinueType ==
  ASSUME CallTypeOK, NEW c \in Calls, NEW label \in Control, Continue(c, label)
  PROVE  CallTypeOK'
BY DEF Continue, Goto, CallTypeOK

LEMMA InvokeType ==
  ASSUME TypeOK, NEW c \in Calls, Invoke(c)
  PROVE  TypeOK'
<1>1. attempts[c] \in 0..MaxAttempts /\ attempts[c] + 1 \in 0..MaxAttempts
  BY CallsAssumption DEF TypeOK, Invoke
<1>2. Len(ledger) \in Nat BY DEF TypeOK
<1>3. Members(c) \in SUBSET Regions BY DEF Members
<1>4. "barrier" \in Control BY DEF Control
<1>5. DriverTypeOK' /\ CoordTypeOK' /\ faults' \in 0..MaxFaults
  BY DEF Invoke, TypeOK, DriverTypeOK, CoordTypeOK, driverVars, coordVars
<1>6. since' \in [Calls -> Nat] /\ attempts' \in [Calls -> 0..MaxAttempts]
  BY <1>1, <1>2 DEF Invoke, TypeOK
<1>7. pc' \in [Calls -> Control] /\ left' \in [Calls -> SUBSET Regions]
  <2>1. CASE UNCHANGED <<pc, left>> BY <2>1 DEF TypeOK
  <2>2. CASE Goto(c, "barrier") /\ left' = [left EXCEPT ![c] = Members(c)]
    BY <1>3, <1>4, <2>2 DEF TypeOK, Goto
  <2> QED BY <2>1, <2>2 DEF Invoke
<1>8. result' \in [Calls -> {"none", "ok", "pending", "reused", "failed"}]
  <2>1. \E r \in {"none", "ok", "failed"} : result' = [result EXCEPT ![c] = r]
    BY DEF Invoke
  <2> QED BY <2>1 DEF TypeOK
<1>9. CallTypeOK' BY <1>6, <1>7, <1>8 DEF Invoke, TypeOK, CallTypeOK
<1> QED BY <1>5, <1>9, TypeParts DEF TypeOK, CoordTypeOK, CallTypeOK

LEMMA VisitType ==
  ASSUME TypeOK, NEW c \in Calls, Visit(c)
  PROVE  TypeOK'
<1>1. DriverTypeOK' /\ CoordTypeOK' /\ faults' \in 0..MaxFaults
  BY DEF Visit, TypeOK, DriverTypeOK, CoordTypeOK, driverVars, coordVars
<1>2. CallTypeOK BY TypeParts
<1>3. PICK r \in Regions :
        \/ /\ left' = Passed(c, r)
           /\ UNCHANGED <<pc, member, todo, view, since, result, attempts>>
        \/ End(c, "failed")
        \/ /\ Goto(c, "reconcile")
           /\ member' = [member EXCEPT ![c] = r]
           /\ todo' = [todo EXCEPT ![c] = pending[r]]
           /\ UNCHANGED <<left, view, since, result, attempts>>
  BY Zenon DEF Visit
<1>4. CallTypeOK'
  <2>1. CASE /\ left' = Passed(c, r)
             /\ UNCHANGED <<pc, member, todo, view, since, result, attempts>>
    BY <1>2, <2>1 DEF CallTypeOK, Passed
  <2>2. CASE End(c, "failed")
    BY <1>2, <2>2, EndType
  <2>3. CASE /\ Goto(c, "reconcile")
             /\ member' = [member EXCEPT ![c] = r]
             /\ todo' = [todo EXCEPT ![c] = pending[r]]
             /\ UNCHANGED <<left, view, since, result, attempts>>
    <3>1. pending[r] \in SUBSET Ops BY DEF TypeOK
    <3>2. "reconcile" \in Control BY DEF Control
    <3> QED BY <1>2, <2>3, <3>1, <3>2 DEF CallTypeOK, Goto
  <2> QED BY <1>3, <2>1, <2>2, <2>3
<1> QED BY <1>1, <1>4, TypeParts DEF TypeOK, CoordTypeOK, CallTypeOK

LEMMA ReconcilePendingType ==
  ASSUME TypeOK, NEW c \in Calls, ReconcilePending(c)
  PROVE  TypeOK'
<1>1. CoordTypeOK' BY DEF ReconcilePending, TypeOK, CoordTypeOK, coordVars
<1>2. CallTypeOK BY TypeParts
<1>3. "reconciled" \in Control BY DEF Control
<1>4. CallTypeOK'
  BY <1>2, <1>3, EndType, ContinueType DEF ReconcilePending
<1>5. DriverTypeOK'
  <2>1. PICK o \in Ops : Reconcile(o, binding[o]) \/ UNCHANGED driverVars
    BY DEF ReconcilePending
  <2>2. binding[o] \in Nat BY DEF TypeOK
  <2>3. CASE Reconcile(o, binding[o]) BY <2>2, <2>3, ReconcileType, TypeParts
  <2>4. CASE UNCHANGED driverVars BY <2>4, TypeParts DEF DriverTypeOK, driverVars
  <2> QED BY <2>1, <2>3, <2>4
<1>6. faults' \in 0..MaxFaults
  BY FaultType, TypeParts DEF ReconcilePending
<1> QED BY <1>1, <1>4, <1>5, <1>6, TypeParts DEF TypeOK, CoordTypeOK, CallTypeOK

LEMMA PendingReconciledType ==
  ASSUME TypeOK, NEW c \in Calls, PendingReconciled(c)
  PROVE  TypeOK'
<1>1. DriverTypeOK' /\ faults' \in 0..MaxFaults
  BY DEF PendingReconciled, TypeOK, DriverTypeOK, driverVars
<1>2. CallTypeOK BY TypeParts
<1>3. CoordTypeOK'
  <2>1. member[c] \in Regions /\ pending[member[c]] \in SUBSET Ops BY DEF TypeOK
  <2>2. PICK S \in SUBSET pending[member[c]] : pending' = [pending EXCEPT ![member[c]] = S]
    BY DEF PendingReconciled
  <2> QED BY <2>1, <2>2 DEF PendingReconciled, TypeOK, CoordTypeOK
<1>4. "reconcile" \in Control /\ "barrier" \in Control BY DEF Control
<1>5. \/ End(c, "failed")
      \/ \E o \in Ops : /\ Goto(c, "reconcile")
                        /\ todo' = [todo EXCEPT ![c] = @ \ {o}]
                        /\ UNCHANGED <<left, member, view, since, result, attempts>>
      \/ /\ Goto(c, "barrier")
         /\ todo' = [todo EXCEPT ![c] = {}]
         /\ left' = Passed(c, member[c])
         /\ UNCHANGED <<member, view, since, result, attempts>>
  BY DEF PendingReconciled
<1>6. CallTypeOK'
  <2>1. CASE End(c, "failed") BY <1>2, <2>1, EndType
  <2>2. CASE \E o \in Ops : /\ Goto(c, "reconcile")
                            /\ todo' = [todo EXCEPT ![c] = @ \ {o}]
                            /\ UNCHANGED <<left, member, view, since, result, attempts>>
    BY <1>2, <1>4, <2>2 DEF CallTypeOK, Goto
  <2>3. CASE /\ Goto(c, "barrier")
             /\ todo' = [todo EXCEPT ![c] = {}]
             /\ left' = Passed(c, member[c])
             /\ UNCHANGED <<member, view, since, result, attempts>>
    BY <1>2, <1>4, <2>3 DEF CallTypeOK, Goto, Passed
  <2> QED BY <1>5, <2>1, <2>2, <2>3
<1> QED BY <1>1, <1>3, <1>6, TypeParts DEF TypeOK, CoordTypeOK, CallTypeOK

LEMMA ControlLabels ==
  {"idle", "barrier", "reconcile", "reconciled", "prepared", "abort", "finalize",
   "finalized", "recheck", "reconcileOwn", "observe", "rank"} \subseteq Control
BY DEF Control

LEMMA MutateType ==
  ASSUME TypeOK, NEW o \in Ops, Mutate(o)
  PROVE  TypeOK'
<1>1. o \in Calls /\ OpRegion[o] \in Regions BY OpsAssumption DEF Calls
<1>2. DriverTypeOK /\ CoordTypeOK /\ CallTypeOK /\ binding[o] \in Nat
  BY TypeParts DEF TypeOK
<1>3. MutationRow(o) \in Row
  <2>1. opStage[o].generation \in Nat BY <1>2 DEF DriverTypeOK, Stage
  <2> QED BY <2>1 DEF MutationRow, Row
<1>4. faults' \in 0..MaxFaults
  <2>1. UNCHANGED faults \/ \E seam \in {"prepare", "prepareAck", "status", "append", "abort",
                                          "finalize", "finalizeAck", "reconcile", "reconcileAck"} :
                              Fault(seam)
    BY DEF Mutate, PrepareMutation, ReturnReplayed, CommitMutation, AppendFails, AbortMutation,
           FinalizeMutation, ReturnFinalized, Recheck, ReconcileOwn, Observe
  <2> QED BY <2>1, FaultType, TypeParts
<1>5. DriverTypeOK'
  <2>1. \/ Prepare(o) \/ Abort(o) \/ Finalize(o, binding[o]) \/ Reconcile(o, binding[o])
        \/ UNCHANGED driverVars
    BY DEF Mutate, PrepareMutation, ReturnReplayed, CommitMutation, AppendFails, AbortMutation,
           FinalizeMutation, ReturnFinalized, Recheck, ReconcileOwn, Observe
  <2>2. UNCHANGED driverVars => DriverTypeOK' BY <1>2 DEF DriverTypeOK, driverVars
  <2> QED BY <1>2, <2>1, <2>2, PrepareType, AbortType, FinalizeType, ReconcileType
<1>6. CoordTypeOK'
  <2>1. CASE UNCHANGED coordVars BY <1>2, <2>1 DEF CoordTypeOK, coordVars
  <2>2. CASE CommitMutation(o)
    <3>1. ledger' \in Seq(Row) /\ AppendedTick \in Nat
      BY <1>2, <1>3, <2>2 DEF CommitMutation, CoordTypeOK, AppendedTick
    <3> QED BY <1>1, <1>2, <2>2, <3>1 DEF CommitMutation, CoordTypeOK, Enlisted
  <2>3. CASE ReturnFinalized(o)
    BY <1>1, <1>2, <2>3 DEF ReturnFinalized, CoordTypeOK
  <2> QED
    BY <2>1, <2>2, <2>3
    DEF Mutate, PrepareMutation, ReturnReplayed, AppendFails, AbortMutation, FinalizeMutation,
        Recheck, ReconcileOwn, Observe, coordVars
<1>7. CallTypeOK'
  <2>1. \/ \E r \in {"ok", "pending", "reused", "failed"} : End(o, r)
        \/ \E label \in Control : Continue(o, label)
    BY ControlLabels
    DEF Mutate, PrepareMutation, ReturnReplayed, CommitMutation, AppendFails, AbortMutation,
        FinalizeMutation, CatchError, ReturnFinalized, Recheck, ReconcileOwn, Observe
  <2> QED BY <1>1, <1>2, <2>1, EndType, ContinueType
<1> QED BY <1>4, <1>5, <1>6, <1>7, TypeParts DEF TypeOK, CoordTypeOK, CallTypeOK

LEMMA RecallType ==
  ASSUME TypeOK, NEW c \in Calls, ReadRegion(c) \/ Consult(c)
  PROVE  TypeOK'
<1>1. DriverTypeOK /\ CoordTypeOK /\ CallTypeOK /\ CallRegion[c] \in Regions
  BY TypeParts, CallsAssumption
<1>2. DriverTypeOK'
  BY <1>1 DEF ReadRegion, Consult, DriverTypeOK, driverVars
<1>3. faults' \in 0..MaxFaults
  BY FaultType, TypeParts DEF ReadRegion, Consult
<1>4. CoordTypeOK'
  <2>1. CASE UNCHANGED coordVars BY <1>1, <2>1 DEF CoordTypeOK, coordVars
  <2>2. CASE /\ c \in Recalls
             /\ ledger' = Append(ledger, [etype |-> "MemoryConsulted", call |-> c,
                                          generation |-> ReadGeneration(c),
                                          hits |-> view[c].hits])
             /\ UNCHANGED <<pending, binding, closed>>
    <3>1. [etype |-> "MemoryConsulted", call |-> c,
           generation |-> ReadGeneration(c), hits |-> view[c].hits] \in Row
      BY <1>1, <2>2 DEF CallTypeOK, Row, ReadGeneration
    <3> QED BY <1>1, <2>2, <3>1 DEF CoordTypeOK
  <2> QED BY <2>1, <2>2 DEF ReadRegion, Consult, coordVars
<1>5. CallTypeOK'
  <2>1. CASE \E r \in {"ok", "failed"} : End(c, r) BY <1>1, <2>1, EndType
  <2>2. CASE /\ Goto(c, "rank")
             /\ view' = [view EXCEPT ![c] =
                           [generation |-> regions[CallRegion[c]].generation,
                            hits |-> RecalledCells(CallRegion[c])]]
             /\ UNCHANGED <<left, member, todo, since, result, attempts>>
    <3>1. [generation |-> regions[CallRegion[c]].generation,
           hits |-> RecalledCells(CallRegion[c])] \in [generation : Nat, hits : Seq(Ops)]
      BY <1>1 DEF DriverTypeOK, RegionState, RecalledCells
    <3>2. "rank" \in Control BY ControlLabels
    <3> QED BY <1>1, <2>2, <3>1, <3>2 DEF CallTypeOK, Goto
  <2> QED BY <2>1, <2>2 DEF ReadRegion, Consult
<1> QED BY <1>2, <1>3, <1>4, <1>5, TypeParts DEF TypeOK, CoordTypeOK, CallTypeOK

LEMMA CloseOrSnapshotType ==
  ASSUME TypeOK, NEW c \in Calls, CloseCoordinator(c) \/ TakeSnapshot(c)
  PROVE  TypeOK'
<1>1. DriverTypeOK /\ CoordTypeOK /\ CallTypeOK
  BY TypeParts
<1>2. DriverTypeOK' /\ CoordTypeOK' /\ faults' \in 0..MaxFaults
  BY <1>1, TypeParts
  DEF CloseCoordinator, TakeSnapshot, DriverTypeOK, CoordTypeOK, driverVars, coordVars
<1>3. CallTypeOK'
  <2>1. End(c, "ok") \/ End(c, "failed") BY DEF CloseCoordinator, TakeSnapshot
  <2> QED BY <1>1, <2>1, EndType
<1> QED BY <1>2, <1>3, TypeParts DEF TypeOK, CoordTypeOK, CallTypeOK

LEMMA NextType == TypeOK /\ [Next]_vars => TypeOK'
<1>1. SUFFICES ASSUME TypeOK, [Next]_vars PROVE TypeOK' OBVIOUS
<1>2. CASE UNCHANGED vars
  BY <1>1, <1>2 DEF TypeOK, DriverTypeOK, vars, driverVars, coordVars, callVars
<1>3. ASSUME NEW c \in Calls, Invoke(c) \/ Proceed(c) PROVE TypeOK'
  <2>1. CASE Invoke(c) BY <1>1, <2>1, InvokeType
  <2>2. CASE Barrier(c)
    BY <1>1, <2>2, VisitType, ReconcilePendingType, PendingReconciledType DEF Barrier
  <2>3. CASE c \in Ops /\ Mutate(c) BY <1>1, <2>3, MutateType
  <2>4. CASE ReadRegion(c) \/ Consult(c) BY <1>1, <2>4, RecallType
  <2>5. CASE CloseCoordinator(c) \/ TakeSnapshot(c) BY <1>1, <2>5, CloseOrSnapshotType
  <2> QED BY <1>3, <2>1, <2>2, <2>3, <2>4, <2>5 DEF Proceed
<1> QED BY <1>1, <1>2, <1>3 DEF Next

-----------------------------------------------------------------------------
(* The inductive invariant.                                                *)

\* The ledger holds the row the operation is to be finalized with.
Bound(o) == binding[o] \in DOMAIN ledger /\ IsRowOf(o, binding[o])

PendingBound == \A r \in Regions : \A o \in pending[r] : OpRegion[o] = r /\ Bound(o)

DataInv ==
  /\ RegionLock
  /\ StagedAgainstCurrent
  /\ AtMostOneCommit
  /\ FinalizedIsCommitted
  /\ CommittedIsRecoverable
  /\ PendingBound

InBarrier == {"barrier", "reconcile", "reconciled"}

PastCommit == {"finalize", "finalized", "recheck", "reconcileOwn", "observe"}

\* What an evaluation knows about its own operation at each await: before the
\* prepare nothing is committed that the barrier has not seen, between prepare
\* and commit nothing at all, afterwards the row it finalizes with.
MutationInv(o) ==
  /\ pc[o] \in InBarrier => \A i \in DOMAIN ledger : IsRowOf(o, i) => i <= since[o]
  /\ pc[o] = "prepared" => opStatus[o] = "finalized" \/ (opStatus[o] = "prepared" /\ ~CommittedOp(o))
  /\ pc[o] = "abort" => ~CommittedOp(o)
  /\ pc[o] \in PastCommit => Bound(o)
  /\ pc[o] \in {"finalized", "observe"} => opStatus[o] = "finalized"
  /\ result[o] \in {"ok", "reused"} => opStatus[o] = "finalized"
  /\ result[o] = "pending" => CommittedOp(o)

Settled(c) ==
  \A o \in Ops : \A i \in DOMAIN ledger :
    /\ pc[c] # "idle" /\ OpRegion[o] \notin left[c]
    /\ i <= since[c] /\ IsRowOf(o, i)
    => opStatus[o] = "finalized"

CallCore(c) ==
  /\ since[c] <= Len(ledger)
  /\ \A o \in todo[c] : Bound(o)
  /\ Settled(c)

CallInv(c) == CallCore(c) /\ (c \in Ops => MutationInv(c))

IInv == TypeOK /\ DataInv /\ \A c \in Calls : CallInv(c)

-----------------------------------------------------------------------------
(* How the ledger, the driver and the pending maps may change.             *)

LEMMA LedgerDomain == TypeOK => DOMAIN ledger = 1..Len(ledger) /\ Len(ledger) \in Nat
BY DEF TypeOK

LEMMA AppendedRow ==
  ASSUME TypeOK, NEW row \in Row, ledger' = Append(ledger, row)
  PROVE  /\ DOMAIN ledger' = 1..(Len(ledger) + 1)
         /\ Len(ledger') = Len(ledger) + 1
         /\ \A i \in DOMAIN ledger : ledger'[i] = ledger[i]
         /\ ledger'[Len(ledger) + 1] = row
BY DEF TypeOK

\* A prepare stages an operation of a free region.
LEMMA DataPrepare ==
  ASSUME TypeOK, DataInv, NEW o \in Ops, Prepare(o), UNCHANGED <<ledger, pending, binding>>
  PROVE  DataInv'
<1> USE DEF IsRowOf, IsMutation, CommittedOp, Bound
<1>1. CASE UNCHANGED driverVars
  BY <1>1 DEF DataInv, RegionLock, StagedAgainstCurrent, AtMostOneCommit, FinalizedIsCommitted,
              CommittedIsRecoverable, PendingBound, driverVars
<1>2. CASE opStatus[o] = "unknown"
  <2> DEFINE r == OpRegion[o]
  <2>1. /\ opStatus' = [opStatus EXCEPT ![o] = "prepared"]
        /\ opStage' = [opStage EXCEPT ![o] = StageFor(OpKind[o], regions[r])]
        /\ active' = [active EXCEPT ![r] = o]
        /\ UNCHANGED <<regions, opLedger>>
        /\ active[r] \in {NoOp, o}
        /\ r \in Regions
    BY <1>2, OpsAssumption DEF Prepare, PrepareThrows, RegionBusy
  <2>2. active[r] = NoOp
    BY <1>2, <2>1 DEF DataInv, RegionLock
  <2>3. RegionLock'
    BY <2>1, <2>2, OpsAssumption DEF DataInv, RegionLock, TypeOK, DriverTypeOK
  <2>4. StagedAgainstCurrent'
    BY <2>1 DEF DataInv, StagedAgainstCurrent, TypeOK, DriverTypeOK, StageFor, NextGeneration, Tombstoned
  <2>5. AtMostOneCommit' /\ PendingBound'
    BY DEF DataInv, AtMostOneCommit, PendingBound
  <2>6. FinalizedIsCommitted'
    BY <2>1 DEF DataInv, FinalizedIsCommitted, TypeOK, DriverTypeOK
  <2>7. CommittedIsRecoverable'
    BY <1>2, <2>1 DEF DataInv, CommittedIsRecoverable, TypeOK, DriverTypeOK
  <2> QED BY <2>3, <2>4, <2>5, <2>6, <2>7 DEF DataInv
<1> QED BY <1>1, <1>2 DEF Prepare

\* A finalization with the row of the operation exposes what was committed.
LEMMA DataFinalize ==
  ASSUME TypeOK, DataInv, NEW o \in Ops, Bound(o), Finalize(o, binding[o]),
         UNCHANGED <<ledger, pending, binding>>
  PROVE  DataInv'
<1> USE DEF IsRowOf, IsMutation, CommittedOp, Bound
<1>1. CASE UNCHANGED driverVars
  BY <1>1 DEF DataInv, RegionLock, StagedAgainstCurrent, AtMostOneCommit, FinalizedIsCommitted,
              CommittedIsRecoverable, PendingBound, driverVars
<1>2. CASE opStatus[o] = "prepared"
  <2> DEFINE r == OpRegion[o]
             after == Mutated(o, OpKind[o], opStage[o].generation, regions[r])
  <2>1. /\ regions' = [regions EXCEPT ![r] = after]
        /\ opStatus' = [opStatus EXCEPT ![o] = "finalized"]
        /\ opLedger' = [opLedger EXCEPT ![o] = binding[o]]
        /\ active' = [active EXCEPT ![r] = NoOp]
        /\ UNCHANGED opStage
        /\ r \in Regions
    BY <1>2, OpsAssumption DEF Finalize, Released
  <2>2. active[r] = o
    BY <1>2, <2>1 DEF DataInv, RegionLock
  <2> HIDE DEF after
  <2>3. RegionLock'
    BY <2>1, <2>2, OpsAssumption DEF DataInv, RegionLock, TypeOK, DriverTypeOK
  <2>4. StagedAgainstCurrent'
    <3>1. SUFFICES ASSUME NEW p \in Ops, opStatus'[p] = "prepared"
                   PROVE  opStage'[p] = StageFor(OpKind[p], regions'[OpRegion[p]])
      BY DEF StagedAgainstCurrent, StageFor, NextGeneration, Tombstoned
    <3>2. p # o /\ opStatus[p] = "prepared"
      BY <2>1, <3>1 DEF TypeOK, DriverTypeOK
    <3>3. OpRegion[p] # r
      BY <2>1, <2>2, <3>2 DEF DataInv, RegionLock
    <3>4. regions'[OpRegion[p]] = regions[OpRegion[p]] /\ opStage'[p] = opStage[p]
      BY <2>1, <3>3, OpsAssumption DEF TypeOK, DriverTypeOK
    <3> QED BY <3>2, <3>4 DEF DataInv, StagedAgainstCurrent
  <2>5. AtMostOneCommit' /\ PendingBound'
    BY DEF DataInv, AtMostOneCommit, PendingBound
  <2>6. FinalizedIsCommitted'
    BY <2>1 DEF DataInv, FinalizedIsCommitted, TypeOK, DriverTypeOK
  <2>7. CommittedIsRecoverable'
    BY <1>2, <2>1 DEF DataInv, CommittedIsRecoverable, TypeOK, DriverTypeOK
  <2> QED BY <2>3, <2>4, <2>5, <2>6, <2>7 DEF DataInv
<1> QED BY <1>1, <1>2 DEF Finalize

LEMMA DataReconcile ==
  ASSUME TypeOK, DataInv, NEW o \in Ops, Bound(o), Reconcile(o, binding[o]),
         UNCHANGED <<ledger, pending, binding>>
  PROVE  DataInv'
<1>1. CASE opStatus[o] = "prepared" BY <1>1, DataFinalize DEF Reconcile
<1>2. CASE UNCHANGED driverVars
  BY <1>2 DEF DataInv, RegionLock, StagedAgainstCurrent, AtMostOneCommit, FinalizedIsCommitted,
              CommittedIsRecoverable, PendingBound, driverVars, IsRowOf, IsMutation, CommittedOp, Bound
<1> QED BY <1>1, <1>2 DEF Reconcile

\* Only what is not committed may be aborted.
LEMMA DataAbort ==
  ASSUME TypeOK, DataInv, NEW o \in Ops, ~CommittedOp(o), Abort(o),
         UNCHANGED <<ledger, pending, binding>>
  PROVE  DataInv'
<1> USE DEF IsRowOf, IsMutation, CommittedOp, Bound
<1>1. CASE UNCHANGED driverVars
  BY <1>1 DEF DataInv, RegionLock, StagedAgainstCurrent, AtMostOneCommit, FinalizedIsCommitted,
              CommittedIsRecoverable, PendingBound, driverVars
<1>2. CASE opStatus[o] = "prepared"
  <2>1. /\ opStatus' = [opStatus EXCEPT ![o] = "aborted"]
        /\ active' = [active EXCEPT ![OpRegion[o]] = NoOp]
        /\ UNCHANGED <<regions, opStage, opLedger>>
        /\ OpRegion[o] \in Regions
    BY <1>2, OpsAssumption DEF Abort, Released
  <2>2. active[OpRegion[o]] = o
    BY <1>2, <2>1 DEF DataInv, RegionLock
  <2>3. RegionLock'
    BY <2>1, <2>2, OpsAssumption DEF DataInv, RegionLock, TypeOK, DriverTypeOK
  <2>4. StagedAgainstCurrent'
    BY <2>1 DEF DataInv, StagedAgainstCurrent, TypeOK, DriverTypeOK, StageFor, NextGeneration, Tombstoned
  <2>5. AtMostOneCommit' /\ PendingBound'
    BY DEF DataInv, AtMostOneCommit, PendingBound
  <2>6. FinalizedIsCommitted'
    BY <2>1 DEF DataInv, FinalizedIsCommitted, TypeOK, DriverTypeOK
  <2>7. CommittedIsRecoverable'
    BY <1>2, <2>1 DEF DataInv, CommittedIsRecoverable, TypeOK, DriverTypeOK
  <2> QED BY <2>3, <2>4, <2>5, <2>6, <2>7 DEF DataInv
<1> QED BY <1>1, <1>2 DEF Abort

\* The commit row of a staged operation is its first.
LEMMA CommitRows ==
  ASSUME TypeOK, NEW o \in Ops, CommitMutation(o)
  PROVE  /\ DOMAIN ledger' = 1..(Len(ledger) + 1)
         /\ DOMAIN ledger = 1..Len(ledger)
         /\ Len(ledger) \in Nat /\ Len(ledger') = Len(ledger) + 1
         /\ binding' = [binding EXCEPT ![o] = Len(ledger) + 1]
         /\ \A p \in Ops : \A i \in DOMAIN ledger : IsRowOf(p, i)' <=> IsRowOf(p, i)
         /\ \A p \in Ops, k \in Nat : k = Len(ledger) + 1 => (IsRowOf(p, k)' <=> p = o)
<1>1. ledger' = Append(ledger, MutationRow(o)) /\ binding' = [binding EXCEPT ![o] = Len(ledger) + 1]
  BY DEF CommitMutation, AppendedTick
<1>2. MutationRow(o) \in Row
  BY DEF MutationRow, Row, TypeOK, DriverTypeOK, Stage
<1>3. MutationRow(o).call = o /\ MutationRow(o).etype # "MemoryConsulted"
  BY DEF MutationRow
<1> QED BY <1>1, <1>2, <1>3, AppendedRow, LedgerDomain DEF IsRowOf, IsMutation

LEMMA DataCommit ==
  ASSUME TypeOK, DataInv, NEW o \in Ops, CommitMutation(o),
         opStatus[o] = "prepared", ~CommittedOp(o)
  PROVE  DataInv'
<1>1. /\ UNCHANGED <<regions, opStatus, opStage, opLedger, active>>
      /\ pending' = [pending EXCEPT ![OpRegion[o]] = @ \cup {o}]
      /\ OpRegion[o] \in Regions
  BY OpsAssumption DEF CommitMutation, driverVars, Enlisted
<1>2. RegionLock' /\ StagedAgainstCurrent'
  BY <1>1 DEF DataInv, RegionLock, StagedAgainstCurrent, StageFor, NextGeneration, Tombstoned
<1>3. \A i \in DOMAIN ledger : ~IsRowOf(o, i)
  BY DEF CommittedOp
<1>4. AtMostOneCommit'
  BY <1>3, CommitRows DEF DataInv, AtMostOneCommit
<1>5. FinalizedIsCommitted'
  <2>1. \A p \in Ops : opStatus[p] = "finalized" =>
          opLedger[p] \in DOMAIN ledger /\ IsRowOf(p, opLedger[p])
    BY DEF DataInv, FinalizedIsCommitted
  <2>2. \A i \in DOMAIN ledger : i \in DOMAIN ledger'
    BY CommitRows
  <2>3. \A p \in Ops : \A i \in DOMAIN ledger : IsRowOf(p, i)' <=> IsRowOf(p, i)
    BY CommitRows
  <2> QED BY <1>1, <2>1, <2>2, <2>3 DEF FinalizedIsCommitted
<1>6. \A p \in Ops : Bound(p) => Bound(p)'
  <2>1. SUFFICES ASSUME NEW p \in Ops, Bound(p) PROVE Bound(p)'
    OBVIOUS
  <2>2. p # o BY <1>3, <2>1 DEF Bound
  <2>3. binding'[p] = binding[p] /\ binding[p] \in DOMAIN ledger
    BY <2>1, <2>2, CommitRows DEF Bound, TypeOK
  <2> QED BY <2>1, <2>3, CommitRows DEF Bound, IsRowOf, IsMutation
<1>7. Bound(o)'
  <2>1. binding'[o] = Len(ledger) + 1 /\ binding'[o] \in Nat
    BY CommitRows DEF TypeOK
  <2> QED BY <2>1, CommitRows DEF Bound, IsRowOf, IsMutation
<1>8. PendingBound'
  BY <1>1, <1>6, <1>7 DEF DataInv, PendingBound, TypeOK
<1>9. CommittedIsRecoverable'
  <2>1. SUFFICES ASSUME NEW p \in Ops, CommittedOp(p)', opStatus'[p] # "finalized"
                 PROVE  opStatus'[p] = "prepared" /\ p \in pending'[OpRegion[p]] /\ Bound(p)'
    BY DEF CommittedIsRecoverable, Bound, CommittedOp, IsRowOf, IsMutation
  <2>2. CASE p = o BY <1>1, <1>7, <2>2 DEF TypeOK
  <2>3. CASE p # o
    <3>1. CommittedOp(p)
      BY <2>1, <2>3, CommitRows DEF CommittedOp
    <3>2. opStatus[p] = "prepared" /\ p \in pending[OpRegion[p]] /\ Bound(p)
      BY <1>1, <2>1, <3>1 DEF DataInv, CommittedIsRecoverable, Bound
    <3> QED BY <1>1, <1>6, <3>2, OpsAssumption DEF TypeOK
  <2> QED BY <2>2, <2>3
<1> QED BY <1>2, <1>4, <1>5, <1>8, <1>9 DEF DataInv

\* A consultation is not a mutation row.
LEMMA ConsultRows ==
  ASSUME TypeOK, NEW c \in Calls, Consult(c), ledger' # ledger
  PROVE  /\ DOMAIN ledger' = 1..(Len(ledger) + 1)
         /\ DOMAIN ledger = 1..Len(ledger)
         /\ Len(ledger) \in Nat /\ Len(ledger') = Len(ledger) + 1
         /\ \A p \in Ops : \A i \in DOMAIN ledger : IsRowOf(p, i)' <=> IsRowOf(p, i)
         /\ \A p \in Ops, k \in Nat : k = Len(ledger) + 1 => ~IsRowOf(p, k)'
<1> DEFINE row == [etype |-> "MemoryConsulted", call |-> c,
                   generation |-> ReadGeneration(c), hits |-> view[c].hits]
<1>1. ledger' = Append(ledger, row) BY DEF Consult
<1>2. row \in Row BY DEF Consult, Row, ReadGeneration, TypeOK
<1>3. row.etype = "MemoryConsulted" OBVIOUS
<1> HIDE DEF row
<1> QED BY <1>1, <1>2, <1>3, AppendedRow, LedgerDomain DEF IsRowOf, IsMutation

LEMMA DataConsult ==
  ASSUME TypeOK, DataInv, NEW c \in Calls, Consult(c)
  PROVE  DataInv'
<1>1. UNCHANGED <<regions, opStatus, opStage, opLedger, active, pending, binding>>
  BY DEF Consult, driverVars
<1>2. CASE ledger' = ledger
  BY <1>1, <1>2 DEF DataInv, RegionLock, StagedAgainstCurrent, AtMostOneCommit, FinalizedIsCommitted,
              CommittedIsRecoverable, PendingBound, IsRowOf, IsMutation, CommittedOp, Bound
<1>3. CASE ledger' # ledger
  <2>1. RegionLock' /\ StagedAgainstCurrent'
    BY <1>1 DEF DataInv, RegionLock, StagedAgainstCurrent, StageFor, NextGeneration, Tombstoned
  <2>2. AtMostOneCommit'
    BY <1>3, ConsultRows DEF DataInv, AtMostOneCommit
  <2>3. FinalizedIsCommitted'
    BY <1>1, <1>3, ConsultRows DEF DataInv, FinalizedIsCommitted
  <2>4. \A p \in Ops : Bound(p) => Bound(p)'
    BY <1>1, <1>3, ConsultRows DEF Bound
  <2>5. \A p \in Ops : CommittedOp(p)' => CommittedOp(p)
    BY <1>3, ConsultRows DEF CommittedOp
  <2>6. PendingBound'
    BY <1>1, <2>4 DEF DataInv, PendingBound, TypeOK
  <2>7. CommittedIsRecoverable'
    BY <1>1, <2>4, <2>5 DEF DataInv, CommittedIsRecoverable, Bound
  <2> QED BY <2>1, <2>2, <2>3, <2>6, <2>7 DEF DataInv
<1> QED BY <1>2, <1>3

\* A finalized operation may leave the pending map.
LEMMA DataDrop ==
  ASSUME TypeOK, DataInv, NEW r \in Regions, NEW S, S \subseteq pending[r],
         pending' = [pending EXCEPT ![r] = S],
         \A p \in pending[r] \ S : opStatus[p] = "finalized",
         UNCHANGED <<driverVars, ledger, binding>>
  PROVE  DataInv'
<1> USE DEF driverVars
<1>1. RegionLock' /\ StagedAgainstCurrent'
  BY DEF DataInv, RegionLock, StagedAgainstCurrent, StageFor, NextGeneration, Tombstoned
<1>2. AtMostOneCommit' /\ FinalizedIsCommitted'
  BY DEF DataInv, AtMostOneCommit, FinalizedIsCommitted, IsRowOf, IsMutation
<1>3. PendingBound'
  BY DEF DataInv, PendingBound, Bound, IsRowOf, IsMutation, TypeOK
<1>4. CommittedIsRecoverable'
  BY DEF DataInv, CommittedIsRecoverable, CommittedOp, IsRowOf, IsMutation, TypeOK
<1> QED BY <1>1, <1>2, <1>3, <1>4 DEF DataInv

-----------------------------------------------------------------------------
(* What a step of call c never takes away from the other calls.            *)

Advance(c) ==
  /\ Len(ledger') >= Len(ledger)
  /\ \A o \in Ops : opStatus[o] = "finalized" => opStatus'[o] = "finalized"
  /\ \A o \in Ops \ {c} : opStatus[o] = "prepared" => opStatus'[o] \in {"prepared", "finalized"}
  /\ \A o \in Ops : Bound(o) => Bound(o)'
  /\ \A o \in Ops : CommittedOp(o) => CommittedOp(o)'
  /\ \A o \in Ops : \A i \in DOMAIN ledger' :
       IsRowOf(o, i)' => \/ i \in DOMAIN ledger /\ IsRowOf(o, i)
                         \/ i = Len(ledger) + 1 /\ o = c

LEMMA DriverAdvance ==
  ASSUME TypeOK, NEW c \in Calls, UNCHANGED <<ledger, binding>>,
         \/ UNCHANGED driverVars
         \/ c \in Ops /\ (Prepare(c) \/ Abort(c))
         \/ \E o \in Ops : Reconcile(o, binding[o]) \/ Finalize(o, binding[o])
  PROVE  Advance(c)
<1>1. \A o \in Ops : (Bound(o) <=> Bound(o)') /\ (CommittedOp(o) <=> CommittedOp(o)')
  BY DEF Bound, CommittedOp, IsRowOf, IsMutation
<1>2. /\ \A o \in Ops : opStatus[o] = "finalized" => opStatus'[o] = "finalized"
      /\ \A o \in Ops \ {c} : opStatus[o] = "prepared" => opStatus'[o] \in {"prepared", "finalized"}
  <2>1. CASE UNCHANGED driverVars BY <2>1 DEF driverVars
  <2>2. CASE c \in Ops /\ Prepare(c)
    BY <2>2 DEF Prepare, driverVars, TypeOK, DriverTypeOK
  <2>3. CASE c \in Ops /\ Abort(c)
    BY <2>3 DEF Abort, AbortThrows, driverVars, TypeOK, DriverTypeOK
  <2>4. ASSUME NEW o \in Ops, Finalize(o, binding[o])
        PROVE /\ \A p \in Ops : opStatus[p] = "finalized" => opStatus'[p] = "finalized"
              /\ \A p \in Ops \ {c} : opStatus[p] = "prepared" => opStatus'[p] \in {"prepared", "finalized"}
    BY <2>4 DEF Finalize, driverVars, TypeOK, DriverTypeOK
  <2>5. ASSUME NEW o \in Ops, Reconcile(o, binding[o])
        PROVE Finalize(o, binding[o]) \/ UNCHANGED driverVars
    BY <2>5 DEF Reconcile
  <2> QED BY <2>1, <2>2, <2>3, <2>4, <2>5
<1>3. Len(ledger') >= Len(ledger)
  BY LedgerDomain
<1>4. \A o \in Ops : \A i \in DOMAIN ledger' : IsRowOf(o, i)' => i \in DOMAIN ledger /\ IsRowOf(o, i)
  BY DEF IsRowOf, IsMutation
<1> QED BY <1>1, <1>2, <1>3, <1>4 DEF Advance

LEMMA CommitAdvance ==
  ASSUME TypeOK, NEW o \in Ops, CommitMutation(o), ~CommittedOp(o)
  PROVE  Advance(o)
<1>1. UNCHANGED opStatus BY DEF CommitMutation, driverVars
<1>2. \A i \in DOMAIN ledger : ~IsRowOf(o, i)
  BY DEF CommittedOp
<1>3. \A p \in Ops : Bound(p) => Bound(p)'
  <2>1. SUFFICES ASSUME NEW p \in Ops, Bound(p) PROVE Bound(p)'
    OBVIOUS
  <2>2. p # o BY <1>2, <2>1 DEF Bound
  <2>3. binding'[p] = binding[p] /\ binding[p] \in DOMAIN ledger
    BY <2>1, <2>2, CommitRows DEF Bound, TypeOK
  <2> QED BY <2>1, <2>3, CommitRows DEF Bound, IsRowOf, IsMutation
<1>4. \A p \in Ops : CommittedOp(p) => CommittedOp(p)'
  BY CommitRows DEF CommittedOp
<1>5. \A p \in Ops : \A i \in DOMAIN ledger' :
        IsRowOf(p, i)' => \/ i \in DOMAIN ledger /\ IsRowOf(p, i)
                          \/ i = Len(ledger) + 1 /\ p = o
  BY CommitRows
<1>6. Len(ledger') >= Len(ledger) BY CommitRows
<1> QED BY <1>1, <1>3, <1>4, <1>5, <1>6 DEF Advance

LEMMA ConsultAdvance ==
  ASSUME TypeOK, NEW c \in Calls, Consult(c)
  PROVE  Advance(c)
<1>1. UNCHANGED <<driverVars, binding>> BY DEF Consult
<1>2. CASE ledger' = ledger BY <1>1, <1>2, DriverAdvance
<1>3. CASE ledger' # ledger
  <2>1. \A p \in Ops : Bound(p) => Bound(p)'
    BY <1>1, <1>3, ConsultRows DEF Bound, IsRowOf, IsMutation
  <2>2. \A p \in Ops : CommittedOp(p) => CommittedOp(p)'
    BY <1>3, ConsultRows DEF CommittedOp
  <2>3. \A p \in Ops : \A i \in DOMAIN ledger' : IsRowOf(p, i)' => i \in DOMAIN ledger /\ IsRowOf(p, i)
    BY <1>3, ConsultRows
  <2>4. Len(ledger') >= Len(ledger) /\ UNCHANGED opStatus
    BY <1>1, <1>3, ConsultRows DEF driverVars
  <2> QED BY <2>1, <2>2, <2>3, <2>4 DEF Advance
<1> QED BY <1>2, <1>3

\* A call keeps what it knows while it stays where it is, gives up members or
\* pending operations it has dealt with, or ends.
LEMMA CoreKept ==
  ASSUME TypeOK, TypeOK', NEW c \in Calls, Advance(c), NEW d \in Calls, CallCore(d),
         since'[d] = since[d], todo'[d] \subseteq todo[d],
         pc'[d] = "idle" \/ (pc[d] # "idle" /\ left'[d] = left[d])
  PROVE  CallCore(d)'
<1>1. since'[d] <= Len(ledger')
  <2>1. since[d] \in Nat /\ Len(ledger) \in Nat /\ since[d] <= Len(ledger)
    BY LedgerDomain DEF CallCore, TypeOK
  <2>2. Len(ledger') >= Len(ledger) /\ Len(ledger') \in Nat
    BY DEF Advance, TypeOK
  <2> QED BY <2>1, <2>2
<1>2. \A o \in todo'[d] : Bound(o)'
  BY DEF CallCore, Advance, TypeOK
<1>3. Settled(d)'
  <2>1. SUFFICES ASSUME NEW o \in Ops, NEW i \in DOMAIN ledger',
                        pc'[d] # "idle", OpRegion[o] \notin left'[d],
                        i <= since'[d], IsRowOf(o, i)'
                 PROVE  opStatus'[o] = "finalized"
    BY DEF Settled
  <2>2. i # Len(ledger) + 1
    <3>1. since[d] \in Nat /\ Len(ledger) \in Nat
      BY LedgerDomain DEF TypeOK
    <3> QED BY <2>1, <3>1 DEF CallCore
  <2>3. i \in DOMAIN ledger /\ IsRowOf(o, i)
    BY <2>1, <2>2 DEF Advance
  <2> QED BY <2>1, <2>3 DEF CallCore, Settled, Advance
<1> QED BY <1>1, <1>2, <1>3 DEF CallCore

LEMMA OtherCallsKept ==
  ASSUME TypeOK, TypeOK', NEW c \in Calls, Advance(c), NEW d \in Calls \ {c}, CallInv(d),
         pc'[d] = pc[d], left'[d] = left[d], todo'[d] = todo[d], since'[d] = since[d],
         result'[d] = result[d]
  PROVE  CallInv(d)'
<1>1. CallCore(d)'
  <2>1. CASE pc[d] = "idle" BY <2>1, CoreKept DEF CallInv
  <2>2. CASE pc[d] # "idle" BY <2>2, CoreKept DEF CallInv
  <2> QED BY <2>1, <2>2
<1>2. ASSUME d \in Ops PROVE MutationInv(d)'
  <2>1. \A i \in DOMAIN ledger' : IsRowOf(d, i)' => i \in DOMAIN ledger /\ IsRowOf(d, i)
    BY <1>2 DEF Advance
  <2>2. CommittedOp(d)' => CommittedOp(d)
    BY <2>1 DEF CommittedOp
  <2>3. opStatus[d] \in {"unknown", "prepared", "finalized", "aborted"}
    BY <1>2 DEF TypeOK, DriverTypeOK
  <2>4. MutationInv(d) BY <1>2 DEF CallInv
  <2>5. /\ opStatus[d] = "finalized" => opStatus'[d] = "finalized"
        /\ opStatus[d] = "prepared" => opStatus'[d] \in {"prepared", "finalized"}
        /\ Bound(d) => Bound(d)'
        /\ CommittedOp(d) => CommittedOp(d)'
    BY <1>2 DEF Advance
  <2>6. pc'[d] \in InBarrier => \A i \in DOMAIN ledger' : IsRowOf(d, i)' => i <= since'[d]
    BY <2>1, <2>4 DEF MutationInv
  <2> QED BY <2>2, <2>4, <2>5, <2>6 DEF MutationInv
<1> QED BY <1>1, <1>2 DEF CallInv

\* The call of a step that ends it.
LEMMA EndKept ==
  ASSUME TypeOK, TypeOK', NEW c \in Calls, Advance(c), CallInv(c),
         NEW r \in {"ok", "pending", "reused", "failed"}, End(c, r),
         c \in Ops /\ r \in {"ok", "reused"} => opStatus'[c] = "finalized",
         c \in Ops /\ r = "pending" => CommittedOp(c)'
  PROVE  CallInv(c)'
<1>1. pc'[c] = "idle" /\ result'[c] = r /\ since'[c] = since[c] /\ todo'[c] = {}
  BY DEF End, Goto, TypeOK
<1>2. CallCore(c)' BY <1>1, CoreKept DEF CallInv
<1>3. c \in Ops => MutationInv(c)'
  BY <1>1 DEF MutationInv, InBarrier, PastCommit
<1> QED BY <1>2, <1>3 DEF CallInv

LEMMA EndOthers ==
  ASSUME TypeOK, NEW c \in Calls, NEW r, End(c, r), NEW d \in Calls \ {c}
  PROVE  pc'[d] = pc[d] /\ left'[d] = left[d] /\ todo'[d] = todo[d] /\ since'[d] = since[d]
         /\ result'[d] = result[d]
BY DEF End, Goto, TypeOK

LEMMA ContinueOthers ==
  ASSUME TypeOK, NEW c \in Calls, NEW label, Continue(c, label), NEW d \in Calls \ {c}
  PROVE  pc'[d] = pc[d] /\ left'[d] = left[d] /\ todo'[d] = todo[d] /\ since'[d] = since[d]
         /\ result'[d] = result[d]
BY DEF Continue, Goto, TypeOK

\* The call of a step that goes on to its next await.
LEMMA ContinueKept ==
  ASSUME TypeOK, TypeOK', NEW c \in Calls, Advance(c), CallInv(c), pc[c] # "idle",
         NEW label, Continue(c, label), label # "idle",
         c \in Ops =>
           /\ label \in InBarrier => \A i \in DOMAIN ledger' : IsRowOf(c, i)' => i <= since[c]
           /\ label = "prepared" =>
                opStatus'[c] = "finalized" \/ (opStatus'[c] = "prepared" /\ ~CommittedOp(c)')
           /\ label = "abort" => ~CommittedOp(c)'
           /\ label \in PastCommit => Bound(c)'
           /\ label \in {"finalized", "observe"} => opStatus'[c] = "finalized"
  PROVE  CallInv(c)'
<1>1. pc'[c] = label /\ UNCHANGED <<left, todo, since, result>>
  BY DEF Continue, Goto, TypeOK
<1>2. CallCore(c)' BY <1>1, CoreKept DEF CallInv
<1>3. ASSUME c \in Ops PROVE MutationInv(c)'
  <2>1. result'[c] \in {"ok", "reused"} => opStatus'[c] = "finalized"
    BY <1>1, <1>3 DEF CallInv, MutationInv, Advance
  <2>2. result'[c] = "pending" => CommittedOp(c)'
    BY <1>1, <1>3 DEF CallInv, MutationInv, Advance
  <2> QED BY <1>1, <1>3, <2>1, <2>2 DEF MutationInv
<1> QED BY <1>2, <1>3 DEF CallInv

LEMMA DataSame ==
  ASSUME DataInv, UNCHANGED <<driverVars, coordVars>>
  PROVE  DataInv'
BY DEF DataInv, RegionLock, StagedAgainstCurrent, AtMostOneCommit, FinalizedIsCommitted,
       CommittedIsRecoverable, PendingBound, IsRowOf, IsMutation, CommittedOp, Bound,
       driverVars, coordVars

-----------------------------------------------------------------------------
(* The invariant is kept by every action.                                  *)

\* What a step shows, once the other calls are out of the way.
Kept == DataInv' /\ \A d \in Calls : CallInv(d)'

LEMMA EndStep ==
  ASSUME IInv, TypeOK', DataInv', NEW c \in Calls, Advance(c),
         NEW r \in {"ok", "pending", "reused", "failed"}, End(c, r),
         c \in Ops /\ r \in {"ok", "reused"} => opStatus'[c] = "finalized",
         c \in Ops /\ r = "pending" => CommittedOp(c)'
  PROVE  Kept
<1>1. CallInv(c)' BY EndKept DEF IInv
<1>2. \A d \in Calls \ {c} : CallInv(d)' BY EndOthers, OtherCallsKept DEF IInv
<1> QED BY <1>1, <1>2 DEF Kept

LEMMA ContinueStep ==
  ASSUME IInv, TypeOK', DataInv', NEW c \in Calls, Advance(c), pc[c] # "idle",
         NEW label, Continue(c, label), label # "idle",
         c \in Ops =>
           /\ label \in InBarrier => \A i \in DOMAIN ledger' : IsRowOf(c, i)' => i <= since[c]
           /\ label = "prepared" =>
                opStatus'[c] = "finalized" \/ (opStatus'[c] = "prepared" /\ ~CommittedOp(c)')
           /\ label = "abort" => ~CommittedOp(c)'
           /\ label \in PastCommit => Bound(c)'
           /\ label \in {"finalized", "observe"} => opStatus'[c] = "finalized"
  PROVE  Kept
<1>1. CallInv(c)' BY ContinueKept DEF IInv
<1>2. \A d \in Calls \ {c} : CallInv(d)' BY ContinueOthers, OtherCallsKept DEF IInv
<1> QED BY <1>1, <1>2 DEF Kept

LEMMA InvokeKept ==
  ASSUME IInv, TypeOK', NEW c \in Calls, Invoke(c)
  PROVE  Kept
<1> USE DEF IInv
<1>1. UNCHANGED <<driverVars, coordVars>> BY DEF Invoke
<1>2. DataInv' BY <1>1, DataSame
<1>3. Advance(c) BY <1>1, DriverAdvance DEF coordVars
<1>4. \A d \in Calls \ {c} : CallInv(d)'
  <2>1. SUFFICES ASSUME NEW d \in Calls \ {c} PROVE CallInv(d)' OBVIOUS
  <2>2. /\ pc'[d] = pc[d] /\ left'[d] = left[d] /\ todo'[d] = todo[d] /\ since'[d] = since[d]
        /\ result'[d] = result[d]
    <3>1. todo'[d] = todo[d] /\ since'[d] = since[d] BY DEF Invoke, TypeOK
    <3>2. pc'[d] = pc[d] /\ left'[d] = left[d]
      <4>1. CASE UNCHANGED <<pc, left>> BY <4>1
      <4>2. CASE Goto(c, "barrier") /\ left' = [left EXCEPT ![c] = Members(c)]
        BY <4>2 DEF Goto, TypeOK
      <4> QED BY <4>1, <4>2 DEF Invoke
    <3>3. result'[d] = result[d]
      <4>1. PICK r : result' = [result EXCEPT ![c] = r] BY DEF Invoke
      <4> QED BY <4>1 DEF TypeOK
    <3> QED BY <3>1, <3>2, <3>3
  <2> QED BY <1>3, <2>2, OtherCallsKept
<1>5. since'[c] = Len(ledger') /\ Len(ledger) \in Nat /\ todo' = todo /\ pc[c] = "idle"
      /\ DOMAIN ledger' = 1..Len(ledger)
  BY <1>1, LedgerDomain DEF Invoke, TypeOK, coordVars
<1>6. since'[c] <= Len(ledger') /\ \A o \in todo'[c] : Bound(o)'
  BY <1>3, <1>5 DEF CallInv, CallCore, Advance, TypeOK
<1>7. CASE closed[CallRegion[c]] /\ c \notin Snapshots
  <2>1. pc'[c] = "idle" /\ result'[c] = IF c \in Closes THEN "ok" ELSE "failed"
    BY <1>5, <1>7 DEF Invoke, TypeOK
  <2>2. Settled(c)' BY <2>1 DEF Settled
  <2>3. c \in Ops => result'[c] = "failed" BY <2>1, CallsAssumption
  <2>4. c \in Ops => MutationInv(c)'
    BY <2>1, <2>3 DEF MutationInv, InBarrier, PastCommit
  <2> QED BY <1>2, <1>4, <1>6, <2>2, <2>4 DEF Kept, CallInv, CallCore
<1>8. CASE ~(closed[CallRegion[c]] /\ c \notin Snapshots)
  <2>1. pc'[c] = "barrier" /\ result'[c] = "none" /\ left'[c] = Regions
    BY <1>8 DEF Invoke, Goto, Members, TypeOK
  <2>2. Settled(c)' BY <2>1, OpsAssumption DEF Settled
  <2>3. c \in Ops => MutationInv(c)'
    BY <1>1, <1>5, <2>1 DEF MutationInv, PastCommit, coordVars
  <2> QED BY <1>2, <1>4, <1>6, <2>2, <2>3 DEF Kept, CallInv, CallCore
<1> QED BY <1>7, <1>8

LEMMA VisitKept ==
  ASSUME IInv, TypeOK', NEW c \in Calls, Visit(c)
  PROVE  Kept
<1> USE DEF IInv
<1>1. UNCHANGED <<driverVars, coordVars>> /\ pc[c] = "barrier" BY DEF Visit
<1>2. DataInv' BY <1>1, DataSame
<1>3. Advance(c) BY <1>1, DriverAdvance DEF coordVars
<1>4. PICK r \in Regions :
        \/ /\ pending[r] = {}
           /\ left' = Passed(c, r)
           /\ UNCHANGED <<pc, member, todo, view, since, result, attempts>>
        \/ End(c, "failed")
        \/ /\ Goto(c, "reconcile")
           /\ todo' = [todo EXCEPT ![c] = pending[r]]
           /\ UNCHANGED <<left, view, since, result, attempts>>
  BY Zenon DEF Visit
<1>5. CASE End(c, "failed") BY <1>2, <1>3, <1>5, EndStep
<1>6. c \in Ops => MutationInv(c)' \/ End(c, "failed")
  <2>1. SUFFICES ASSUME c \in Ops, ~End(c, "failed") PROVE MutationInv(c)' OBVIOUS
  <2>2. pc'[c] \in {"barrier", "reconcile"} /\ UNCHANGED <<since, result>>
    BY <1>1, <1>4, <2>1 DEF Goto, TypeOK
  <2>3. UNCHANGED <<opStatus, ledger>> /\ MutationInv(c)
    BY <1>1, <2>1 DEF driverVars, coordVars, CallInv
  <2> QED BY <1>1, <2>2, <2>3
          DEF MutationInv, InBarrier, PastCommit, IsRowOf, IsMutation, CommittedOp
<1>7. CASE /\ pending[r] = {}
           /\ left' = Passed(c, r)
           /\ UNCHANGED <<pc, member, todo, view, since, result, attempts>>
  <2>1. left' = [left EXCEPT ![c] = @ \ {r}] BY <1>7 DEF Passed
  <2>2. \A d \in Calls \ {c} : CallInv(d)'
    BY <1>3, <1>7, <2>1, OtherCallsKept DEF TypeOK
  <2>3. Settled(c)'
    <3>1. SUFFICES ASSUME NEW o \in Ops, NEW i \in DOMAIN ledger,
                          OpRegion[o] \notin left'[c], i <= since[c], IsRowOf(o, i)
                   PROVE  opStatus[o] = "finalized"
      BY <1>1, <1>7 DEF Settled, IsRowOf, IsMutation, coordVars, driverVars
    <3>2. CASE OpRegion[o] = r
      BY <1>7, <3>1, <3>2 DEF DataInv, CommittedIsRecoverable, CommittedOp
    <3>3. CASE OpRegion[o] # r
      BY <1>1, <2>1, <3>1, <3>3 DEF CallInv, CallCore, Settled, TypeOK
    <3> QED BY <3>2, <3>3
  <2>4. since'[c] <= Len(ledger') /\ \A o \in todo'[c] : Bound(o)'
    BY <1>1, <1>7 DEF CallInv, CallCore, coordVars, Bound, IsRowOf, IsMutation
  <2>5. CallCore(c)' BY <2>3, <2>4 DEF CallCore
  <2>6. c \in Ops => MutationInv(c)'
    BY <1>1, <1>6, <1>7 DEF End, Goto, TypeOK
  <2> QED BY <1>2, <2>2, <2>5, <2>6 DEF Kept, CallInv
<1>8. CASE /\ Goto(c, "reconcile")
           /\ todo' = [todo EXCEPT ![c] = pending[r]]
           /\ UNCHANGED <<left, view, since, result, attempts>>
  <2>1. \A d \in Calls \ {c} : CallInv(d)'
    BY <1>3, <1>8, OtherCallsKept DEF Goto, TypeOK
  <2>2. pc'[c] = "reconcile" /\ todo'[c] = pending[r]
    BY <1>8 DEF Goto, TypeOK
  <2>3. Settled(c)'
    BY <1>1, <1>8, <2>2 DEF CallInv, CallCore, Settled, IsRowOf, IsMutation, coordVars, driverVars
  <2>4. since'[c] <= Len(ledger') /\ \A o \in todo'[c] : Bound(o)'
    <3>1. \A o \in pending[r] : Bound(o) BY DEF DataInv, PendingBound
    <3> QED BY <1>1, <1>8, <2>2, <3>1 DEF CallInv, CallCore, coordVars, Bound, IsRowOf, IsMutation
  <2>5. CallCore(c)' BY <2>3, <2>4 DEF CallCore
  <2>6. c \in Ops => MutationInv(c)'
    BY <1>6, <2>2 DEF End, Goto, TypeOK
  <2> QED BY <1>2, <2>1, <2>5, <2>6 DEF Kept, CallInv
<1> QED BY <1>4, <1>5, <1>7, <1>8

LEMMA ReconcilePendingKept ==
  ASSUME IInv, TypeOK', NEW c \in Calls, ReconcilePending(c)
  PROVE  Kept
<1> USE DEF IInv
<1>1. UNCHANGED <<ledger, pending, binding>> /\ pc[c] = "reconcile"
  BY DEF ReconcilePending, coordVars
<1>2. PICK o \in Ops :
        /\ o \in todo[c]
        /\ Reconcile(o, binding[o]) \/ UNCHANGED driverVars
        /\ Continue(c, "reconciled") \/ End(c, "failed")
  BY DEF ReconcilePending, Oldest
<1>3. Bound(o) BY <1>2 DEF CallInv, CallCore
<1>4. Advance(c) BY <1>1, <1>2, DriverAdvance
<1>5. DataInv'
  <2>1. CASE Reconcile(o, binding[o]) BY <1>1, <1>3, <2>1, DataReconcile
  <2>2. CASE UNCHANGED driverVars
    BY <2>2, DataSame DEF ReconcilePending
  <2> QED BY <1>2, <2>1, <2>2
<1>6. CASE End(c, "failed") BY <1>4, <1>5, <1>6, EndStep
<1>7. CASE Continue(c, "reconciled")
  <2>1. c \in Ops => \A i \in DOMAIN ledger' : IsRowOf(c, i)' => i <= since[c]
    BY <1>1 DEF CallInv, MutationInv, InBarrier, IsRowOf, IsMutation
  <2> QED BY <1>1, <1>4, <1>5, <1>7, <2>1, ContinueStep DEF PastCommit
<1> QED BY <1>2, <1>6, <1>7

LEMMA PendingReconciledKept ==
  ASSUME IInv, TypeOK', NEW c \in Calls, PendingReconciled(c)
  PROVE  Kept
<1> USE DEF IInv
<1> DEFINE r == member[c]
<1>1. UNCHANGED <<driverVars, ledger, binding, closed>> /\ pc[c] = "reconciled" /\ r \in Regions
  BY DEF PendingReconciled, TypeOK
<1>2. PICK o \in Ops :
        LET remaining == IF opStatus[o] = "finalized" THEN pending[r] \ {o} ELSE pending[r]
        IN  /\ pending' = [pending EXCEPT ![r] = remaining]
            /\ \/ /\ Goto(c, "reconcile")
                  /\ todo' = [todo EXCEPT ![c] = @ \ {o}]
                  /\ UNCHANGED <<left, member, view, since, result, attempts>>
               \/ End(c, "failed")
               \/ /\ remaining = {}
                  /\ Goto(c, "barrier")
                  /\ todo' = [todo EXCEPT ![c] = {}]
                  /\ left' = Passed(c, r)
                  /\ UNCHANGED <<member, view, since, result, attempts>>
  BY Zenon DEF PendingReconciled
<1> DEFINE remaining == IF opStatus[o] = "finalized" THEN pending[r] \ {o} ELSE pending[r]
<1>3. /\ remaining \subseteq pending[r] /\ pending' = [pending EXCEPT ![r] = remaining]
      /\ \A p \in pending[r] \ remaining : opStatus[p] = "finalized"
  BY <1>2
<1>4. DataInv' BY <1>1, <1>3, DataDrop
<1>5. Advance(c) BY <1>1, DriverAdvance
<1>6. ASSUME c \in Ops, pc'[c] \in InBarrier, since'[c] = since[c], result'[c] = result[c]
      PROVE  MutationInv(c)'
  <2>1. MutationInv(c) /\ UNCHANGED <<opStatus, ledger>>
    BY <1>1, <1>6 DEF CallInv, driverVars
  <2> QED BY <1>1, <1>6, <2>1
          DEF MutationInv, InBarrier, PastCommit, IsRowOf, IsMutation, CommittedOp
<1>7. CASE End(c, "failed") BY <1>4, <1>5, <1>7, EndStep
<1>8. CASE /\ Goto(c, "reconcile")
           /\ todo' = [todo EXCEPT ![c] = @ \ {o}]
           /\ UNCHANGED <<left, member, view, since, result, attempts>>
  <2>1. \A d \in Calls \ {c} : CallInv(d)'
    BY <1>5, <1>8, OtherCallsKept DEF Goto, TypeOK
  <2>2. pc'[c] = "reconcile" /\ todo'[c] \subseteq todo[c]
    BY <1>8 DEF Goto, TypeOK
  <2>3. CallCore(c)' BY <1>1, <1>5, <1>8, <2>2, CoreKept DEF CallInv
  <2>4. c \in Ops => MutationInv(c)' BY <1>6, <1>8, <2>2 DEF InBarrier
  <2> QED BY <1>4, <2>1, <2>3, <2>4 DEF Kept, CallInv
<1>9. CASE /\ remaining = {}
           /\ Goto(c, "barrier")
           /\ todo' = [todo EXCEPT ![c] = {}]
           /\ left' = Passed(c, r)
           /\ UNCHANGED <<member, view, since, result, attempts>>
  <2>1. left' = [left EXCEPT ![c] = @ \ {r}] BY <1>9 DEF Passed
  <2>2. \A d \in Calls \ {c} : CallInv(d)'
    BY <1>5, <1>9, <2>1, OtherCallsKept DEF Goto, TypeOK
  <2>3. pc'[c] = "barrier" /\ todo'[c] = {}
    BY <1>9 DEF Goto, TypeOK
  <2>4. Settled(c)'
    <3>1. SUFFICES ASSUME NEW p \in Ops, NEW i \in DOMAIN ledger,
                          OpRegion[p] \notin left'[c], i <= since[c], IsRowOf(p, i)
                   PROVE  opStatus[p] = "finalized"
      BY <1>1, <1>9 DEF Settled, IsRowOf, IsMutation, driverVars
    <3>2. CASE OpRegion[p] = r
      <4>1. opStatus[p] # "finalized" => p \in pending[r]
        BY <3>1, <3>2 DEF DataInv, CommittedIsRecoverable, CommittedOp
      <4> QED BY <1>3, <1>9, <4>1
    <3>3. CASE OpRegion[p] # r
      BY <1>1, <2>1, <3>1, <3>3 DEF CallInv, CallCore, Settled, TypeOK
    <3> QED BY <3>2, <3>3
  <2>5. since'[c] <= Len(ledger')
    BY <1>1, <1>9 DEF CallInv, CallCore
  <2>6. CallCore(c)' BY <2>3, <2>4, <2>5 DEF CallCore
  <2>7. c \in Ops => MutationInv(c)' BY <1>6, <1>9, <2>3 DEF InBarrier
  <2> QED BY <1>4, <2>2, <2>6, <2>7 DEF Kept, CallInv
<1> QED BY <1>2, <1>7, <1>8, <1>9

\* An evaluation whose barrier has passed has no row that is not finalized.
LEMMA PreparedIsUncommitted ==
  ASSUME IInv, NEW o \in Ops, BarrierPassed(o), opStatus[o] # "finalized"
  PROVE  ~CommittedOp(o)
<1>1. o \in Calls /\ pc[o] = "barrier" /\ left[o] = {}
  BY DEF Calls, BarrierPassed
<1>2. CallInv(o) BY <1>1 DEF IInv
<1>3. \A i \in DOMAIN ledger : IsRowOf(o, i) => i <= since[o]
  BY <1>1, <1>2 DEF CallInv, MutationInv, InBarrier
<1>4. \A i \in DOMAIN ledger : i <= since[o] => ~IsRowOf(o, i)
  BY <1>1, <1>2 DEF CallInv, CallCore, Settled
<1> QED BY <1>3, <1>4 DEF CommittedOp

LEMMA PrepareMutationKept ==
  ASSUME IInv, TypeOK', NEW o \in Ops, PrepareMutation(o)
  PROVE  Kept
<1> USE DEF IInv
<1>1. UNCHANGED <<ledger, pending, binding>> /\ pc[o] = "barrier" /\ o \in Calls
  BY DEF PrepareMutation, coordVars, BarrierPassed, Calls
<1>2. \/ Prepare(o) /\ (Continue(o, "prepared") \/ End(o, "failed"))
      \/ UNCHANGED driverVars /\ End(o, "failed")
  BY DEF PrepareMutation
<1>3. Advance(o) BY <1>1, <1>2, DriverAdvance
<1>4. DataInv'
  <2>1. CASE Prepare(o) BY <1>1, <2>1, DataPrepare
  <2>2. CASE UNCHANGED driverVars BY <2>2, DataSame DEF PrepareMutation
  <2> QED BY <1>2, <2>1, <2>2
<1>5. CASE End(o, "failed") BY <1>1, <1>3, <1>4, <1>5, EndStep
<1>6. CASE Prepare(o) /\ Continue(o, "prepared")
  <2>1. opStatus'[o] \in {"finalized", "prepared"}
    BY <1>6 DEF Prepare, PrepareThrows, driverVars, TypeOK, DriverTypeOK
  <2>2. opStatus'[o] = "prepared" => opStatus[o] # "finalized"
    BY <1>3 DEF Advance
  <2>3. opStatus[o] # "finalized" => ~CommittedOp(o)'
    BY <1>1, PreparedIsUncommitted DEF PrepareMutation, CommittedOp, IsRowOf, IsMutation
  <2> QED BY <1>1, <1>3, <1>4, <1>6, <2>1, <2>2, <2>3, ContinueStep DEF InBarrier, PastCommit
<1> QED BY <1>2, <1>5, <1>6

LEMMA CommitMutationKept ==
  ASSUME IInv, TypeOK', NEW o \in Ops, CommitMutation(o)
  PROVE  Kept
<1> USE DEF IInv
<1>1. o \in Calls /\ pc[o] = "prepared" /\ opStatus[o] # "finalized"
  BY DEF CommitMutation, Uncommitted, Calls
<1>2. opStatus[o] = "prepared" /\ ~CommittedOp(o)
  BY <1>1 DEF CallInv, MutationInv
<1>3. DataInv' BY <1>2, DataCommit
<1>4. Advance(o) BY <1>2, CommitAdvance
<1>5. Continue(o, "finalize") BY DEF CommitMutation
<1>6. Bound(o)'
  <2>1. binding'[o] = Len(ledger) + 1 /\ binding'[o] \in Nat
    BY CommitRows DEF TypeOK
  <2> QED BY <2>1, CommitRows DEF Bound, IsRowOf, IsMutation
<1> QED BY <1>1, <1>3, <1>4, <1>5, <1>6, ContinueStep DEF InBarrier

\* The actions of an evaluation that only look at its operation.
LEMMA LookKept ==
  ASSUME IInv, TypeOK', NEW o \in Ops,
         ReturnReplayed(o) \/ AppendFails(o) \/ Recheck(o) \/ Observe(o)
  PROVE  Kept
<1> USE DEF IInv
<1>1. UNCHANGED <<driverVars, coordVars>> /\ o \in Calls
  BY DEF ReturnReplayed, AppendFails, Recheck, Observe, Calls
<1>2. DataInv' BY <1>1, DataSame
<1>3. Advance(o) BY <1>1, DriverAdvance DEF coordVars
<1>4. MutationInv(o) BY <1>1 DEF CallInv
<1>5. opStatus' = opStatus /\ (CommittedOp(o)' <=> CommittedOp(o)) /\ (Bound(o)' <=> Bound(o))
  BY <1>1 DEF driverVars, coordVars, CommittedOp, Bound, IsRowOf, IsMutation
<1>6. CASE End(o, "failed") BY <1>1, <1>2, <1>3, <1>6, EndStep
<1>7. CASE ReturnReplayed(o)
  <2>1. (opStatus[o] = "finalized" /\ End(o, "reused")) \/ End(o, "failed")
    BY <1>7 DEF ReturnReplayed
  <2> QED BY <1>1, <1>2, <1>3, <1>5, <1>6, <2>1, EndStep
<1>8. CASE AppendFails(o)
  <2>1. pc[o] = "prepared" /\ opStatus[o] # "finalized" /\ Continue(o, "abort")
    BY <1>8 DEF AppendFails, Uncommitted
  <2> QED BY <1>1, <1>2, <1>3, <1>4, <1>5, <2>1, ContinueStep DEF MutationInv, InBarrier, PastCommit
<1>9. CASE Recheck(o)
  <2>1. pc[o] = "recheck" BY <1>9 DEF Recheck
  <2>2. \/ opStatus[o] = "finalized" /\ Continue(o, "observe")
        \/ Continue(o, "reconcileOwn")
        \/ End(o, "failed")
    BY <1>9 DEF Recheck
  <2>3. Bound(o)' BY <1>4, <1>5, <2>1 DEF MutationInv, PastCommit
  <2> QED BY <1>1, <1>2, <1>3, <1>5, <1>6, <2>1, <2>2, <2>3, ContinueStep DEF InBarrier, PastCommit
<1>10. CASE Observe(o)
  <2>1. pc[o] = "observe" /\ (End(o, "pending") \/ End(o, "failed"))
    BY <1>10 DEF Observe
  <2>2. CommittedOp(o)' BY <1>4, <1>5, <2>1 DEF MutationInv, PastCommit, Bound, CommittedOp
  <2> QED BY <1>1, <1>2, <1>3, <1>6, <2>1, <2>2, EndStep
<1> QED BY <1>7, <1>8, <1>9, <1>10

LEMMA AbortMutationKept ==
  ASSUME IInv, TypeOK', NEW o \in Ops, AbortMutation(o)
  PROVE  Kept
<1> USE DEF IInv
<1>1. UNCHANGED <<ledger, pending, binding>> /\ pc[o] = "abort" /\ o \in Calls
      /\ End(o, "failed") /\ (Abort(o) \/ UNCHANGED driverVars)
  BY DEF AbortMutation, coordVars, Calls
<1>2. ~CommittedOp(o) BY <1>1 DEF CallInv, MutationInv
<1>3. Advance(o) BY <1>1, DriverAdvance
<1>4. DataInv'
  <2>1. CASE Abort(o) BY <1>1, <1>2, <2>1, DataAbort
  <2>2. CASE UNCHANGED driverVars BY <2>2, DataSame DEF AbortMutation
  <2> QED BY <1>1, <2>1, <2>2
<1> QED BY <1>1, <1>3, <1>4, EndStep

LEMMA FinalizeMutationKept ==
  ASSUME IInv, TypeOK', NEW o \in Ops, FinalizeMutation(o) \/ ReconcileOwn(o)
  PROVE  Kept
<1> USE DEF IInv
<1>1. /\ UNCHANGED <<ledger, pending, binding>> /\ UNCHANGED coordVars /\ o \in Calls
      /\ pc[o] \in {"finalize", "reconcileOwn"}
  BY DEF FinalizeMutation, ReconcileOwn, coordVars, Calls
<1>2. Finalize(o, binding[o]) \/ Reconcile(o, binding[o]) \/ UNCHANGED driverVars
  BY DEF FinalizeMutation, ReconcileOwn
<1>3. Bound(o) /\ Bound(o)'
  BY <1>1 DEF CallInv, MutationInv, PastCommit, Bound, IsRowOf, IsMutation
<1>4. Advance(o) BY <1>1, <1>2, DriverAdvance
<1>5. DataInv' BY <1>1, <1>2, <1>3, DataFinalize, DataReconcile, DataSame
<1>6. \/ End(o, "failed")
      \/ Continue(o, "recheck")
      \/ Continue(o, "finalized") /\ opStatus'[o] = "finalized"
  <2>1. Finalize(o, binding[o]) => opStatus'[o] = "finalized"
    BY DEF Finalize, FinalizeThrows, driverVars, TypeOK, DriverTypeOK
  <2> QED BY <2>1 DEF FinalizeMutation, ReconcileOwn, CatchError
<1>7. CASE End(o, "failed") BY <1>1, <1>4, <1>5, <1>7, EndStep
<1>8. CASE Continue(o, "recheck") \/ (Continue(o, "finalized") /\ opStatus'[o] = "finalized")
  BY <1>1, <1>3, <1>4, <1>5, <1>8, ContinueStep DEF InBarrier
<1> QED BY <1>6, <1>7, <1>8

LEMMA ReturnFinalizedKept ==
  ASSUME IInv, TypeOK', NEW o \in Ops, ReturnFinalized(o)
  PROVE  Kept
<1> USE DEF IInv
<1>1. /\ UNCHANGED <<driverVars, ledger, binding>> /\ o \in Calls /\ OpRegion[o] \in Regions
      /\ pc[o] = "finalized" /\ End(o, "ok")
      /\ pending' = [pending EXCEPT ![OpRegion[o]] = @ \ {o}]
  BY OpsAssumption DEF ReturnFinalized, Calls
<1>2. opStatus[o] = "finalized" BY <1>1 DEF CallInv, MutationInv
<1>3. DataInv'
  <2> DEFINE S == pending[OpRegion[o]] \ {o}
  <2>1. S \subseteq pending[OpRegion[o]] /\ \A p \in pending[OpRegion[o]] \ S : opStatus[p] = "finalized"
    BY <1>2
  <2>2. pending' = [pending EXCEPT ![OpRegion[o]] = S] BY <1>1
  <2> HIDE DEF S
  <2> QED BY <1>1, <2>1, <2>2, DataDrop
<1>4. Advance(o) BY <1>1, DriverAdvance
<1>5. opStatus'[o] = "finalized" BY <1>1, <1>2 DEF driverVars
<1> QED BY <1>1, <1>3, <1>4, <1>5, EndStep

LEMMA ReadOrCloseKept ==
  ASSUME IInv, TypeOK', NEW c \in Calls,
         ReadRegion(c) \/ Consult(c) \/ CloseCoordinator(c) \/ TakeSnapshot(c)
  PROVE  Kept
<1> USE DEF IInv
<1>1. c \notin Ops
  BY CallsAssumption DEF ReadRegion, Consult, CloseCoordinator, TakeSnapshot
<1>2. DataInv' /\ Advance(c)
  <2>1. CASE Consult(c) BY <2>1, DataConsult, ConsultAdvance
  <2>2. CASE CloseCoordinator(c)
    <3>1. UNCHANGED <<driverVars, ledger, pending, binding>> BY <2>2 DEF CloseCoordinator
    <3>2. DataInv'
      BY <3>1 DEF DataInv, RegionLock, StagedAgainstCurrent, AtMostOneCommit, FinalizedIsCommitted,
              CommittedIsRecoverable, PendingBound, driverVars, IsRowOf, IsMutation, CommittedOp, Bound
    <3> QED BY <3>1, <3>2, DriverAdvance
  <2>3. CASE UNCHANGED <<driverVars, coordVars>>
    BY <2>3, DataSame, DriverAdvance DEF coordVars
  <2> QED BY <2>1, <2>2, <2>3 DEF ReadRegion, TakeSnapshot
<1>3. CASE \E r \in {"ok", "failed"} : End(c, r) BY <1>1, <1>2, <1>3, EndStep
<1>4. CASE BarrierPassed(c) /\ Goto(c, "rank") /\ UNCHANGED <<left, member, todo, since, result>>
  <2>1. \A d \in Calls \ {c} : CallInv(d)'
    BY <1>2, <1>4, OtherCallsKept DEF Goto, TypeOK
  <2>2. CallCore(c)' BY <1>2, <1>4, CoreKept DEF CallInv, BarrierPassed
  <2> QED BY <1>1, <1>2, <2>1, <2>2 DEF Kept, CallInv
<1> QED BY <1>3, <1>4 DEF ReadRegion, Consult, CloseCoordinator, TakeSnapshot

-----------------------------------------------------------------------------
(* The theorems.                                                           *)

LEMMA InitIInv == Init => IInv
<1>1. SUFFICES ASSUME Init PROVE IInv OBVIOUS
<1>2. TypeOK
  <2>1. DriverTypeOK
    BY <1>1 DEF Init, DriverInit, DriverTypeOK, EmptyRegion, EmptyStage, RegionState, Stage
  <2>2. CoordTypeOK BY <1>1 DEF Init, CoordTypeOK
  <2>3. CallTypeOK /\ faults \in 0..MaxFaults
    BY <1>1, CallsAssumption DEF Init, CallTypeOK, NoView, Control
  <2> QED BY <2>1, <2>2, <2>3, TypeParts
<1>3. ledger = << >> /\ DOMAIN ledger = {} /\ Len(ledger) = 0
  BY <1>1 DEF Init
<1>4. \A o \in Ops : ~CommittedOp(o)
  BY <1>3 DEF CommittedOp
<1>5. DataInv
  BY <1>1, <1>3, <1>4, OpsAssumption
  DEF Init, DriverInit, DataInv, RegionLock, StagedAgainstCurrent, AtMostOneCommit,
      FinalizedIsCommitted, CommittedIsRecoverable, PendingBound
<1>6. \A c \in Calls : CallInv(c)
  <2>1. SUFFICES ASSUME NEW c \in Calls PROVE CallInv(c) OBVIOUS
  <2>2. pc[c] = "idle" /\ since[c] = 0 /\ todo[c] = {} /\ result[c] = "none"
    BY <1>1 DEF Init
  <2> QED BY <1>3, <2>2 DEF CallInv, CallCore, Settled, MutationInv, InBarrier, PastCommit
<1> QED BY <1>2, <1>5, <1>6 DEF IInv

LEMMA NextIInv == IInv /\ [Next]_vars => IInv'
<1>1. SUFFICES ASSUME IInv, [Next]_vars PROVE IInv' OBVIOUS
<1>2. TypeOK' BY <1>1, NextType DEF IInv
<1>3. CASE UNCHANGED vars
  <2>1. DataInv' BY <1>1, <1>3, DataSame DEF IInv, vars
  <2>2. \A c \in Calls : CallInv(c)'
    BY <1>1, <1>3
    DEF IInv, CallInv, CallCore, Settled, MutationInv, CommittedOp, Bound, IsRowOf, IsMutation,
        vars, driverVars, coordVars, callVars
  <2> QED BY <1>2, <2>1, <2>2 DEF IInv
<1>4. ASSUME NEW c \in Calls, Invoke(c) \/ Proceed(c) PROVE Kept
  <2>1. CASE Invoke(c) BY <1>1, <1>2, <2>1, InvokeKept
  <2>2. CASE Barrier(c)
    BY <1>1, <1>2, <2>2, VisitKept, ReconcilePendingKept, PendingReconciledKept DEF Barrier
  <2>3. CASE c \in Ops /\ Mutate(c)
    BY <1>1, <1>2, <2>3, PrepareMutationKept, LookKept, CommitMutationKept, AbortMutationKept,
       FinalizeMutationKept, ReturnFinalizedKept
    DEF Mutate
  <2>4. CASE ReadRegion(c) \/ Consult(c) \/ CloseCoordinator(c) \/ TakeSnapshot(c)
    BY <1>1, <1>2, <2>4, ReadOrCloseKept
  <2> QED BY <1>4, <2>1, <2>2, <2>3, <2>4 DEF Proceed
<1> QED BY <1>1, <1>2, <1>3, <1>4 DEF Next, Kept, IInv

\* The state never leaves its type, whatever the calls and the failures: in
\* particular every count, tick and generation is a natural number.
THEOREM TypeCorrect == Spec => []TypeOK
<1>1. IInv => TypeOK BY DEF IInv
<1> QED BY <1>1, InitIInv, NextIInv, PTL DEF Spec

\* The inductive invariant holds in every reachable state.
THEOREM Invariance == Spec => []IInv
BY InitIInv, NextIInv, PTL DEF Spec

\* Two mutations of one region are never staged at once, and a mutation is
\* applied to the region it was staged against.
THEOREM Locking == Spec => []RegionSerial
<1>1. IInv => RegionSerial BY DEF IInv, DataInv, RegionSerial
<1> QED BY <1>1, Invariance, PTL

\* One evaluation commits at most one row, whatever is retried, reconciled or
\* acknowledged late.
THEOREM CommitsOnce == Spec => []AtMostOneCommit
<1>1. IInv => AtMostOneCommit BY DEF IInv, DataInv
<1> QED BY <1>1, Invariance, PTL

\* The ledger decides for good: one row per evaluation, nothing exposed without
\* its row, and every row's mutation exposed or staged and pending.
THEOREM LedgerDecides == Spec => []CommitsForGood
<1>1. IInv => CommitsForGood BY DEF IInv, DataInv, CommitsForGood
<1> QED BY <1>1, Invariance, PTL

\* A barrier leaves nothing behind that was committed before it was entered.
THEOREM BarrierIsSound == Spec => []BarrierSettles
<1>1. IInv => BarrierSettles BY DEF IInv, CallInv, CallCore, Settled, BarrierSettles
<1> QED BY <1>1, Invariance, PTL

\* The answer to a mutation is the truth.
THEOREM ReportsTruth == Spec => []ReportsAreTrue
<1>1. IInv => ReportsAreTrue BY DEF IInv, CallInv, MutationInv, ReportsAreTrue, Calls
<1> QED BY <1>1, Invariance, PTL

\* Only a snapshot that met no prepared mutation ends well.
LEMMA SnapshotStep ==
  ASSUME IInv, [Next]_vars, NEW s \in Snapshots, result[s] # "ok", result'[s] = "ok"
  PROVE  TakeSnapshot(s) /\ ~SnapshotThrows
<1>1. s \in Calls /\ s \notin Ops \cup Recalls \cup Closes
  BY CallsAssumption DEF Calls
<1>2. result \in [Calls -> {"none", "ok", "pending", "reused", "failed"}] BY DEF IInv, TypeOK
<1>3. \A c \in Calls \ {s} : \A r : ~End(c, r)
  BY <1>1, <1>2 DEF End
<1>4. \A r : End(s, r) => r = "ok"
  BY <1>1, <1>2 DEF End
<1>5. PICK c \in Calls : Invoke(c) \/ Proceed(c)
  BY DEF Next, vars, callVars
<1>6. ~Invoke(c)
  <2>1. SUFFICES ASSUME Invoke(c) PROVE FALSE OBVIOUS
  <2>2. PICK r : result' = [result EXCEPT ![c] = r] /\ (r = "ok" => c \in Closes)
    <3>1. CASE closed[CallRegion[c]] /\ c \notin Snapshots
      BY <2>1, <3>1 DEF Invoke
    <3>2. CASE ~(closed[CallRegion[c]] /\ c \notin Snapshots)
      BY <2>1, <3>2 DEF Invoke
    <3> QED BY <3>1, <3>2
  <2> QED BY <1>1, <1>2, <2>2
<1>7. ~Visit(c) /\ ~ReconcilePending(c) /\ ~PendingReconciled(c)
  BY <1>3, <1>4 DEF Visit, ReconcilePending, PendingReconciled, Continue
<1>8. ~(c \in Ops /\ Mutate(c))
  BY <1>1, <1>3
  DEF Mutate, PrepareMutation, ReturnReplayed, CommitMutation, AppendFails, AbortMutation,
      FinalizeMutation, CatchError, ReturnFinalized, Recheck, ReconcileOwn, Observe, Continue
<1>9. ~ReadRegion(c) /\ ~Consult(c) /\ ~CloseCoordinator(c)
  BY <1>1, <1>3 DEF ReadRegion, Consult, CloseCoordinator
<1>10. TakeSnapshot(c) BY <1>5, <1>6, <1>7, <1>8, <1>9 DEF Proceed, Barrier
<1> QED BY <1>3, <1>4, <1>10 DEF TakeSnapshot

\* A snapshot never misses a committed mutation.
THEOREM SnapshotIsComplete == Spec => SnapshotComplete
<1> DEFINE P == \A c \in Snapshots : result[c] # "ok" /\ result'[c] = "ok" =>
                  \A o \in Ops : CommittedOp(o) => opStatus[o] = "finalized"
<1>1. IInv /\ [Next]_vars => P
  <2>1. SUFFICES ASSUME IInv, [Next]_vars, NEW c \in Snapshots,
                        result[c] # "ok", result'[c] = "ok", NEW o \in Ops, CommittedOp(o)
                 PROVE  opStatus[o] = "finalized"
    OBVIOUS
  <2>2. opStatus[o] # "prepared" BY <2>1, SnapshotStep DEF SnapshotThrows
  <2> QED BY <2>1, <2>2 DEF IInv, DataInv, CommittedIsRecoverable
<1>2. [](IInv) /\ [][Next]_vars => [][P]_vars
  BY <1>1, PTL
<1> QED BY <1>2, Invariance, PTL DEF Spec, SnapshotComplete
-----------------------------------------------------------------------------
(* What a recall reports.  The cells of a region are stores whose rows name *)
(* its generation, and so are those a recall has read: rows are never taken *)
(* back, and an operation with a row is never staged anew.                  *)

\* Each of the cells has a row of that generation in the ledger.
StoredIn(hits, generation) ==
  \A k \in DOMAIN hits : \E j \in DOMAIN ledger :
    /\ IsRowOf(hits[k], j)
    /\ ledger[j].etype = "Internalized"
    /\ ledger[j].generation = generation

\* A row tells what its operation was staged with.
RowsMatch ==
  \A o \in Ops : \A i \in DOMAIN ledger :
    IsRowOf(o, i) =>
      /\ ledger[i].generation = opStage[o].generation
      /\ OpKind[o] = "store" => ledger[i].etype = "Internalized"

ShownIsStored == \A r \in Regions : StoredIn(regions[r].cells, regions[r].generation)

ViewIsStored ==
  \A c \in Recalls : pc[c] = "rank" => StoredIn(view[c].hits, view[c].generation)

ConsultInv == RowsMatch /\ ShownIsStored /\ ViewIsStored /\ ConsultsOnlyCommitted

\* No recall comes by a new view.
Calm == \A d \in Recalls : pc'[d] = "rank" => pc[d] = "rank" /\ view'[d] = view[d]

LEMMA CalmEnd ==
  ASSUME TypeOK, NEW c \in Calls, NEW r, End(c, r)
  PROVE  Calm
BY DEF Calm, End, Goto, TypeOK, Calls

LEMMA CalmContinue ==
  ASSUME TypeOK, NEW c \in Calls, NEW label, label # "rank", Continue(c, label)
  PROVE  Calm
BY DEF Calm, Continue, Goto, TypeOK, Calls

\* A step that leaves the ledger, the regions and the stages alone.
LEMMA QuietKeeps ==
  ASSUME ConsultInv, UNCHANGED <<ledger, regions, opStage>>, Calm
  PROVE  ConsultInv'
<1>1. RowsMatch' BY DEF ConsultInv, RowsMatch, IsRowOf, IsMutation
<1>2. ShownIsStored' BY DEF ConsultInv, ShownIsStored, StoredIn, IsRowOf, IsMutation
<1>3. ViewIsStored' BY DEF ConsultInv, ViewIsStored, StoredIn, IsRowOf, IsMutation, Calm
<1>4. ConsultsOnlyCommitted' BY DEF ConsultInv, ConsultsOnlyCommitted, IsRowOf, IsMutation
<1> QED BY <1>1, <1>2, <1>3, <1>4 DEF ConsultInv

\* An operation is staged once, before it has a row.
LEMMA PrepareKeeps ==
  ASSUME TypeOK, DataInv, ConsultInv, NEW o \in Ops, Prepare(o), UNCHANGED ledger, Calm
  PROVE  ConsultInv'
<1>1. CASE UNCHANGED driverVars BY <1>1, QuietKeeps DEF driverVars
<1>2. CASE opStatus[o] = "unknown"
  <2>1. /\ UNCHANGED regions
        /\ \A p \in Ops \ {o} : opStage'[p] = opStage[p]
    BY <1>2 DEF Prepare, TypeOK, DriverTypeOK
  <2>2. \A i \in DOMAIN ledger : ~IsRowOf(o, i)
    BY <1>2 DEF DataInv, CommittedIsRecoverable, CommittedOp
  <2>3. RowsMatch'
    BY <2>1, <2>2 DEF ConsultInv, RowsMatch, IsRowOf, IsMutation
  <2>4. ShownIsStored' BY <2>1 DEF ConsultInv, ShownIsStored, StoredIn, IsRowOf, IsMutation
  <2>5. ViewIsStored' BY DEF ConsultInv, ViewIsStored, StoredIn, IsRowOf, IsMutation, Calm
  <2>6. ConsultsOnlyCommitted' BY DEF ConsultInv, ConsultsOnlyCommitted, IsRowOf, IsMutation
  <2> QED BY <2>3, <2>4, <2>5, <2>6 DEF ConsultInv
<1> QED BY <1>1, <1>2 DEF Prepare

\* A finalized store adds its own cell, of the generation of its row.
LEMMA FinalizeKeeps ==
  ASSUME TypeOK, DataInv, ConsultInv, NEW o \in Ops, Bound(o), Finalize(o, binding[o]),
         UNCHANGED ledger, Calm
  PROVE  ConsultInv'
<1>1. CASE UNCHANGED driverVars BY <1>1, QuietKeeps DEF driverVars
<1>2. CASE opStatus[o] = "prepared"
  <2> DEFINE r == OpRegion[o]
             g == opStage[o].generation
             after == Mutated(o, OpKind[o], g, regions[r])
  <2>1. /\ regions' = [regions EXCEPT ![r] = after]
        /\ UNCHANGED opStage
        /\ r \in Regions /\ regions[r] \in RegionState /\ OpKind[o] \in {"store", "forget"}
    BY <1>2, OpsAssumption DEF Finalize, TypeOK, DriverTypeOK
  <2>2. g = NextGeneration(OpKind[o], regions[r])
    <3>1. opStage[o] = StageFor(OpKind[o], regions[r])
      BY <1>2 DEF DataInv, StagedAgainstCurrent
    <3> QED BY <3>1 DEF StageFor
  <2>3. OpKind[o] = "store" =>
          \E j \in DOMAIN ledger : /\ IsRowOf(o, j)
                                   /\ ledger[j].etype = "Internalized"
                                   /\ ledger[j].generation = g
    BY DEF ConsultInv, RowsMatch, Bound
  <2>4. StoredIn(after.cells, after.generation)
    <3>1. CASE OpKind[o] = "forget"
      <4>1. after.cells = << >> BY <3>1 DEF Mutated
      <4> QED BY <4>1 DEF StoredIn
    <3>2. CASE OpKind[o] = "store" /\ regions[r].state = "closed"
      <4>1. after.cells = <<o>> /\ after.generation = g BY <3>2 DEF Mutated
      <4> HIDE DEF after, g
      <4> QED BY <2>3, <3>2, <4>1 DEF StoredIn
    <3>3. CASE OpKind[o] = "store" /\ regions[r].state = "open"
      <4>1. after.cells = Append(regions[r].cells, o) /\ after.generation = g
        BY <3>3 DEF Mutated
      <4>2. g = regions[r].generation BY <2>2, <3>3 DEF NextGeneration
      <4>3. StoredIn(regions[r].cells, g) BY <2>1, <4>2 DEF ConsultInv, ShownIsStored
      <4>4. regions[r].cells \in Seq(Ops) BY <2>1 DEF RegionState
      <4>5. \A k \in DOMAIN Append(regions[r].cells, o) :
              \/ k \in DOMAIN regions[r].cells /\ Append(regions[r].cells, o)[k] = regions[r].cells[k]
              \/ Append(regions[r].cells, o)[k] = o
        BY <4>4
      <4> HIDE DEF after, g
      <4> QED BY <2>3, <3>3, <4>1, <4>3, <4>5 DEF StoredIn
    <3> QED BY <2>1, <3>1, <3>2, <3>3 DEF RegionState
  <2> HIDE DEF after
  <2>5. ShownIsStored'
    <3>1. SUFFICES ASSUME NEW q \in Regions
                   PROVE  StoredIn(regions'[q].cells, regions'[q].generation)
      BY DEF ShownIsStored, StoredIn, IsRowOf, IsMutation
    <3>2. CASE q = r BY <2>1, <2>4, <3>2 DEF TypeOK, DriverTypeOK
    <3>3. CASE q # r
      <4>1. regions'[q] = regions[q] BY <2>1, <3>3 DEF TypeOK, DriverTypeOK
      <4> QED BY <4>1 DEF ConsultInv, ShownIsStored
    <3> QED BY <3>2, <3>3
  <2>6. RowsMatch' BY <2>1 DEF ConsultInv, RowsMatch, IsRowOf, IsMutation
  <2>7. ViewIsStored' BY DEF ConsultInv, ViewIsStored, StoredIn, IsRowOf, IsMutation, Calm
  <2>8. ConsultsOnlyCommitted' BY DEF ConsultInv, ConsultsOnlyCommitted, IsRowOf, IsMutation
  <2> QED BY <2>5, <2>6, <2>7, <2>8 DEF ConsultInv
<1> QED BY <1>1, <1>2 DEF Finalize

\* Every operation a driver call finalizes is bound to its row.
LEMMA DriverKeeps ==
  ASSUME TypeOK, DataInv, ConsultInv, NEW o \in Ops, UNCHANGED ledger, Calm,
         \/ Prepare(o) \/ Abort(o) \/ UNCHANGED driverVars
         \/ Bound(o) /\ (Finalize(o, binding[o]) \/ Reconcile(o, binding[o]))
  PROVE  ConsultInv'
<1>1. UNCHANGED driverVars => ConsultInv' BY QuietKeeps DEF driverVars
<1>2. Abort(o) => ConsultInv' BY <1>1, QuietKeeps DEF Abort
<1>3. Reconcile(o, binding[o]) => Finalize(o, binding[o]) \/ UNCHANGED driverVars
  BY DEF Reconcile
<1> QED BY <1>1, <1>2, <1>3, PrepareKeeps, FinalizeKeeps

\* A row is appended: what was in the ledger stays in it.
LEMMA GrownLedgerKeeps ==
  ASSUME TypeOK, ConsultInv, UNCHANGED <<regions, opStage>>, Calm,
         NEW row \in Row, ledger' = Append(ledger, row),
         \/ /\ row.etype # "MemoryConsulted" /\ row.hits = << >>
            /\ row.call \in Ops /\ row.generation = opStage[row.call].generation
            /\ OpKind[row.call] = "store" => row.etype = "Internalized"
         \/ row.etype = "MemoryConsulted" /\ StoredIn(row.hits, row.generation)
  PROVE  ConsultInv'
<1>1. /\ DOMAIN ledger = 1..Len(ledger) /\ Len(ledger) \in Nat
      /\ DOMAIN ledger' = 1..(Len(ledger) + 1)
      /\ \A i \in DOMAIN ledger : ledger'[i] = ledger[i]
      /\ ledger'[Len(ledger) + 1] = row
  BY AppendedRow, LedgerDomain
<1>2. \A i \in DOMAIN ledger' : i \in DOMAIN ledger \/ i = Len(ledger) + 1
  BY <1>1
<1>3. \A i \in DOMAIN ledger : i \in DOMAIN ledger' BY <1>1
<1>4. ASSUME NEW hits, NEW generation, StoredIn(hits, generation)
      PROVE  \A k \in DOMAIN hits : \E j \in DOMAIN ledger :
               /\ ledger'[j].etype # "MemoryConsulted" /\ ledger'[j].call = hits[k]
               /\ ledger'[j].etype = "Internalized"
               /\ ledger'[j].generation = generation
  BY <1>1, <1>4 DEF StoredIn, IsRowOf, IsMutation
<1>5. RowsMatch' BY <1>1, <1>2 DEF ConsultInv, RowsMatch, IsRowOf, IsMutation
<1>6. ShownIsStored'
  BY <1>3, <1>4 DEF ConsultInv, ShownIsStored, StoredIn, IsRowOf, IsMutation
<1>7. ViewIsStored'
  BY <1>3, <1>4 DEF ConsultInv, ViewIsStored, StoredIn, IsRowOf, IsMutation, Calm
<1>8. ConsultsOnlyCommitted'
  <2>1. SUFFICES ASSUME NEW i \in DOMAIN ledger', NEW k \in DOMAIN ledger'[i].hits
                 PROVE  \E j \in 1..(i - 1) :
                          /\ ledger'[j].etype # "MemoryConsulted"
                          /\ ledger'[j].call = ledger'[i].hits[k]
                          /\ ledger'[j].etype = "Internalized"
                          /\ ledger'[j].generation = ledger'[i].generation
    BY DEF ConsultsOnlyCommitted, IsRowOf, IsMutation
  <2>2. CASE i \in DOMAIN ledger
    <3>1. PICK j \in 1..(i - 1) : /\ IsRowOf(ledger[i].hits[k], j)
                                  /\ ledger[j].etype = "Internalized"
                                  /\ ledger[j].generation = ledger[i].generation
      BY <1>1, <2>1, <2>2 DEF ConsultInv, ConsultsOnlyCommitted
    <3>2. j \in DOMAIN ledger BY <1>1, <2>2
    <3> QED BY <1>1, <2>2, <3>1, <3>2 DEF IsRowOf, IsMutation
  <2>3. CASE i = Len(ledger) + 1
    <3>1. ledger'[i] = row BY <1>1, <2>3
    <3>2. StoredIn(row.hits, row.generation)
      BY <2>1, <3>1
    <3>3. 1..(i - 1) = DOMAIN ledger BY <1>1, <2>3
    <3>4. k \in DOMAIN row.hits BY <2>1, <3>1
    <3>5. PICK j \in DOMAIN ledger :
            /\ ledger'[j].etype # "MemoryConsulted" /\ ledger'[j].call = row.hits[k]
            /\ ledger'[j].etype = "Internalized"
            /\ ledger'[j].generation = row.generation
      BY <1>4, <3>2, <3>4
    <3> QED BY <3>1, <3>3, <3>5
  <2> QED BY <1>2, <2>2, <2>3
<1> QED BY <1>5, <1>6, <1>7, <1>8 DEF ConsultInv

LEMMA MutateKeeps ==
  ASSUME IInv, ConsultInv, NEW o \in Ops, Mutate(o)
  PROVE  ConsultInv'
<1>1. o \in Calls /\ TypeOK /\ DataInv /\ MutationInv(o)
  BY DEF IInv, CallInv, Calls
<1>2. Calm
  <2>1. \/ \E r \in {"ok", "pending", "reused", "failed"} : End(o, r)
        \/ \E label \in Control \ {"rank"} : Continue(o, label)
    BY ControlLabels
    DEF Mutate, PrepareMutation, ReturnReplayed, CommitMutation, AppendFails, AbortMutation,
        FinalizeMutation, CatchError, ReturnFinalized, Recheck, ReconcileOwn, Observe
  <2> QED BY <1>1, <2>1, CalmEnd, CalmContinue
<1>3. CASE CommitMutation(o)
  <2> DEFINE row == MutationRow(o)
  <2>1. row \in Row /\ row.hits = << >> /\ row.call = o /\ row.etype # "MemoryConsulted"
        /\ row.generation = opStage[o].generation
        /\ (OpKind[o] = "store" => row.etype = "Internalized")
    BY <1>1 DEF MutationRow, Row, TypeOK, DriverTypeOK, Stage
  <2>2. ledger' = Append(ledger, row) /\ UNCHANGED <<regions, opStage>>
    BY <1>3 DEF CommitMutation, driverVars
  <2> HIDE DEF row
  <2> QED BY <1>1, <1>2, <2>1, <2>2, GrownLedgerKeeps
<1>4. CASE ~CommitMutation(o)
  <2>1. UNCHANGED ledger
    BY <1>4 DEF Mutate, PrepareMutation, ReturnReplayed, AppendFails, AbortMutation,
                FinalizeMutation, ReturnFinalized, Recheck, ReconcileOwn, Observe, coordVars
  <2>2. CASE FinalizeMutation(o) \/ ReconcileOwn(o)
    <3>1. Bound(o) BY <1>1, <2>2 DEF FinalizeMutation, ReconcileOwn, MutationInv, PastCommit
    <3>2. Finalize(o, binding[o]) \/ Reconcile(o, binding[o]) \/ UNCHANGED driverVars
      BY <2>2 DEF FinalizeMutation, ReconcileOwn
    <3> QED BY <1>1, <1>2, <2>1, <3>1, <3>2, DriverKeeps
  <2>3. CASE ~(FinalizeMutation(o) \/ ReconcileOwn(o))
    <3>1. Prepare(o) \/ Abort(o) \/ UNCHANGED driverVars
      BY <1>4, <2>3
      DEF Mutate, PrepareMutation, ReturnReplayed, AppendFails, AbortMutation,
          ReturnFinalized, Recheck, Observe
    <3> QED BY <1>1, <1>2, <2>1, <3>1, DriverKeeps
  <2> QED BY <2>2, <2>3
<1> QED BY <1>3, <1>4

LEMMA BarrierKeeps ==
  ASSUME IInv, ConsultInv, NEW c \in Calls, Barrier(c)
  PROVE  ConsultInv'
<1>1. TypeOK /\ DataInv /\ CallCore(c) BY DEF IInv, CallInv
<1>2. CASE Visit(c)
  <2>1. Calm BY <1>1, <1>2, CalmEnd DEF Visit, Calm, Goto, TypeOK, Calls
  <2> QED BY <1>2, <2>1, QuietKeeps DEF Visit, driverVars, coordVars
<1>3. CASE ReconcilePending(c)
  <2>1. Calm BY <1>1, <1>3, CalmEnd, CalmContinue DEF ReconcilePending
  <2>2. PICK o \in Ops : o \in todo[c] /\ (Reconcile(o, binding[o]) \/ UNCHANGED driverVars)
    BY <1>3 DEF ReconcilePending, Oldest
  <2>3. Bound(o) BY <1>1, <2>2 DEF CallCore
  <2> QED BY <1>1, <1>3, <2>1, <2>2, <2>3, DriverKeeps DEF ReconcilePending, coordVars
<1>4. CASE PendingReconciled(c)
  <2>1. \/ End(c, "failed")
        \/ Goto(c, "reconcile") /\ UNCHANGED view
        \/ Goto(c, "barrier") /\ UNCHANGED view
    BY <1>4 DEF PendingReconciled
  <2>2. Calm BY <1>1, <2>1, CalmEnd DEF Calm, Goto, TypeOK, Calls
  <2> QED BY <1>4, <2>2, QuietKeeps DEF PendingReconciled, driverVars
<1> QED BY <1>2, <1>3, <1>4 DEF Barrier

LEMMA ReadKeeps ==
  ASSUME IInv, ConsultInv, NEW c \in Calls, ReadRegion(c)
  PROVE  ConsultInv'
<1>1. TypeOK /\ UNCHANGED <<ledger, regions, opStage>> /\ c \in Recalls /\ CallRegion[c] \in Regions
  BY CallsAssumption DEF IInv, ReadRegion, driverVars, coordVars
<1>2. CASE End(c, "failed") BY <1>1, <1>2, CalmEnd, QuietKeeps
<1>3. CASE /\ Goto(c, "rank")
           /\ view' = [view EXCEPT ![c] = [generation |-> regions[CallRegion[c]].generation,
                                           hits |-> RecalledCells(CallRegion[c])]]
  <2> DEFINE r == CallRegion[c]
  <2>1. StoredIn(RecalledCells(r), regions[r].generation)
    BY <1>1 DEF ConsultInv, ShownIsStored, StoredIn, RecalledCells
  <2>2. view'[c].hits = RecalledCells(r) /\ view'[c].generation = regions[r].generation
        /\ \A d \in Recalls \ {c} : pc'[d] = pc[d] /\ view'[d] = view[d]
    BY <1>1, <1>3 DEF Goto, TypeOK, Calls
  <2>3. ViewIsStored'
    <3>1. SUFFICES ASSUME NEW d \in Recalls, pc'[d] = "rank"
                   PROVE  StoredIn(view'[d].hits, view'[d].generation)
      BY <1>1 DEF ViewIsStored, StoredIn, IsRowOf, IsMutation
    <3>2. CASE d = c BY <2>1, <2>2, <3>2
    <3>3. CASE d # c BY <2>2, <3>1, <3>3 DEF ConsultInv, ViewIsStored
    <3> QED BY <3>2, <3>3
  <2>4. RowsMatch' /\ ShownIsStored' /\ ConsultsOnlyCommitted'
    BY <1>1 DEF ConsultInv, RowsMatch, ShownIsStored, ConsultsOnlyCommitted, StoredIn, IsRowOf, IsMutation
  <2> QED BY <2>3, <2>4 DEF ConsultInv
<1> QED BY <1>2, <1>3 DEF ReadRegion

LEMMA ConsultKeeps ==
  ASSUME IInv, ConsultInv, NEW c \in Calls, Consult(c)
  PROVE  ConsultInv'
<1>1. TypeOK /\ UNCHANGED <<regions, opStage>> /\ c \in Recalls /\ pc[c] = "rank"
  BY DEF IInv, Consult, driverVars
<1>2. Calm BY <1>1, CalmEnd DEF Consult
<1>3. CASE UNCHANGED ledger BY <1>1, <1>2, <1>3, QuietKeeps
<1> DEFINE row == [etype |-> "MemoryConsulted", call |-> c,
                   generation |-> ReadGeneration(c), hits |-> view[c].hits]
<1>4. CASE ledger' = Append(ledger, row)
  <2>1. row \in Row BY <1>1 DEF TypeOK, Row, ReadGeneration, Calls
  <2>2. row.etype = "MemoryConsulted" /\ StoredIn(row.hits, row.generation)
    BY <1>1 DEF ConsultInv, ViewIsStored, ReadGeneration
  <2> HIDE DEF row
  <2> QED BY <1>1, <1>2, <1>4, <2>1, <2>2, GrownLedgerKeeps
<1> QED BY <1>3, <1>4 DEF Consult

LEMMA ConsultStep == IInv /\ ConsultInv /\ [Next]_vars => ConsultInv'
<1>1. SUFFICES ASSUME IInv, ConsultInv, [Next]_vars PROVE ConsultInv' OBVIOUS
<1>2. CASE UNCHANGED vars
  <2>1. Calm BY <1>2 DEF Calm, vars, callVars
  <2> QED BY <1>1, <1>2, <2>1, QuietKeeps DEF vars, driverVars, coordVars
<1>3. ASSUME NEW c \in Calls, Invoke(c) \/ Proceed(c) PROVE ConsultInv'
  <2>1. CASE Invoke(c)
    <3>1. Calm BY <1>1, <2>1 DEF Invoke, Calm, Goto, IInv, TypeOK, Calls
    <3> QED BY <1>1, <2>1, <3>1, QuietKeeps DEF Invoke, driverVars, coordVars
  <2>2. CASE CloseCoordinator(c) \/ TakeSnapshot(c)
    <3>1. Calm BY <1>1, <2>2, CalmEnd DEF CloseCoordinator, TakeSnapshot, IInv
    <3> QED BY <1>1, <2>2, <3>1, QuietKeeps
            DEF CloseCoordinator, TakeSnapshot, driverVars, coordVars
  <2> QED BY <1>1, <1>3, <2>1, <2>2, BarrierKeeps, MutateKeeps, ReadKeeps, ConsultKeeps DEF Proceed
<1> QED BY <1>1, <1>2, <1>3 DEF Next

\* A recall reports committed cells of the generation it names, whatever
\* commits while it is ranked and however the driver failed before.
THEOREM RecallsWhatIsCommitted == Spec => []ConsultsOnlyCommitted
<1>1. Init => ConsultInv
  BY DEF Init, DriverInit, EmptyRegion, ConsultInv, RowsMatch, ShownIsStored, StoredIn,
         ViewIsStored, ConsultsOnlyCommitted, Calls
<1>2. ConsultInv => ConsultsOnlyCommitted BY DEF ConsultInv
<1> QED BY <1>1, <1>2, Invariance, ConsultStep, PTL DEF Spec
-----------------------------------------------------------------------------
(* The protocol implements the abstract named memory, step by step: the     *)
(* append of a row is Commit, a finalization is Show, and nothing else       *)
(* changes what named memory promises.                                       *)

\* The mutation rows are counted without a gap, and are those of the abstract
\* memory.
RowsCounted ==
  /\ \A k \in 1..Cardinality(MutationTicks) : \E i \in MutationTicks : RankOf(i) = k
  /\ Abstract!Committed = {o \in Ops : CommittedOp(o)}

LEMMA TicksFinite ==
  ASSUME TypeOK
  PROVE  /\ IsFiniteSet(MutationTicks)
         /\ Cardinality(MutationTicks) \in Nat
         /\ \A i \in MutationTicks : RankOf(i) \in Nat /\ RankOf(i) <= Cardinality(MutationTicks)
<1>1. DOMAIN ledger = 1..Len(ledger) /\ Len(ledger) \in Nat BY LedgerDomain
<1>2. IsFiniteSet(1..Len(ledger)) BY <1>1, FS_Interval
<1>3. IsFiniteSet(MutationTicks) BY <1>1, <1>2, FS_Subset DEF MutationTicks
<1>4. \A i \in MutationTicks : {j \in MutationTicks : j <= i} \subseteq MutationTicks
  OBVIOUS
<1> QED BY <1>3, <1>4, FS_Subset, FS_CardinalityType DEF RankOf

\* A mutation row is counted last, and leaves the ranks of the others.
LEMMA CountedRow ==
  ASSUME TypeOK, RowsCounted, NEW row \in Row, row.etype # "MemoryConsulted",
         ledger' = Append(ledger, row)
  PROVE  /\ CommittedRows' = Append(CommittedRows, row.call)
         /\ \A k \in 1..Cardinality(MutationTicks)' : \E i \in MutationTicks' : RankOf(i)' = k
<1> PICK n \in Nat : n = Len(ledger) + 1 BY LedgerDomain
<1> PICK size \in Nat : size = Cardinality(MutationTicks) BY TicksFinite
<1> DEFINE T == MutationTicks
<1>1. /\ DOMAIN ledger = 1..Len(ledger) /\ Len(ledger) \in Nat
      /\ DOMAIN ledger' = 1..n /\ ledger'[n] = row
      /\ \A i \in DOMAIN ledger : ledger'[i] = ledger[i]
  BY AppendedRow, LedgerDomain
<1>2. T' = T \cup {n} /\ n \notin T /\ T \subseteq DOMAIN ledger
  BY <1>1 DEF MutationTicks, IsMutation
<1>3. IsFiniteSet(T) /\ size \in Nat /\ \A i \in T : RankOf(i) \in Nat /\ RankOf(i) <= size
  BY TicksFinite
<1>4. Cardinality(T') = size + 1
  BY <1>2, <1>3, FS_AddElement
<1>5. \A i \in T : RankOf(i)' = RankOf(i)
  <2>1. SUFFICES ASSUME NEW i \in T PROVE Cardinality({j \in T' : j <= i}) = Cardinality({j \in T : j <= i})
    BY DEF RankOf
  <2>2. {j \in T' : j <= i} = {j \in T : j <= i}
    <3>1. i \in DOMAIN ledger BY <1>2
    <3>2. ~(n <= i) BY <1>1, <3>1
    <3> HIDE DEF T
    <3> QED BY <1>2, <3>2
  <2> QED BY <2>2
<1>6. RankOf(n)' = size + 1
  <2>1. {j \in T' : j <= n} = T'
    <3>1. \A j \in DOMAIN ledger : j <= n BY <1>1
    <3>2. n <= n BY <1>1
    <3> HIDE DEF T
    <3> QED BY <1>2, <3>1, <3>2
  <2>2. RankOf(n)' = Cardinality(T') BY <2>1 DEF RankOf
  <2> QED BY <1>4, <2>2
<1>7. ASSUME NEW k \in 1..size
      PROVE  RowTick(k)' = RowTick(k) /\ RowTick(k) \in T
  <2>1. \E i \in T : RankOf(i) = k BY DEF RowsCounted
  <2>2. RowTick(k) \in T BY <2>1 DEF RowTick
  <2>3. \A i : (i \in T' /\ RankOf(i)' = k) <=> (i \in T /\ RankOf(i) = k)
    <3>1. k # size + 1 BY <1>3
    <3> HIDE DEF T
    <3> QED BY <1>2, <1>5, <1>6, <3>1
  <2>4. RowTick(k)' = CHOOSE i : i \in T' /\ RankOf(i)' = k
    BY DEF RowTick
  <2>5. RowTick(k) = CHOOSE i : i \in T /\ RankOf(i) = k
    BY DEF RowTick
  <2> QED BY <2>2, <2>3, <2>4, <2>5
<1>8. RowTick(size + 1)' = n
  <2>1. \A i \in T' : RankOf(i)' = size + 1 <=> i = n
    <3>1. \A i \in T : RankOf(i) # size + 1 BY <1>3
    <3> HIDE DEF T
    <3> QED BY <1>2, <1>5, <1>6, <3>1
  <2>2. n \in T' BY <1>2
  <2>3. RowTick(size + 1)' = CHOOSE i \in T' : RankOf(i)' = size + 1
    BY DEF RowTick
  <2> QED BY <2>1, <2>2, <2>3
<1>9. CommittedRows' = Append(CommittedRows, row.call)
  <2> PICK after : after = CommittedRows' OBVIOUS
  <2>1. CommittedRows = [k \in 1..size |-> ledger[RowTick(k)].call] BY DEF CommittedRows
  <2>2. after = [k \in 1..(size + 1) |-> ledger'[RowTick(k)'].call]
    BY <1>4 DEF CommittedRows
  <2>3. after = [k \in 1..(size + 1) |-> after[k]]
    BY <2>2
  <2>4. \A k \in 1..(size + 1) : k \in 1..size \/ k = size + 1
    OBVIOUS
  <2>5. \A k \in 1..size : after[k] = CommittedRows[k]
    <3>1. SUFFICES ASSUME NEW k \in 1..size PROVE after[k] = CommittedRows[k]
      OBVIOUS
    <3>2. k \in 1..(size + 1) OBVIOUS
    <3>3. after[k] = ledger'[RowTick(k)'].call
      BY <2>2, <3>2, Zenon
    <3>4. CommittedRows[k] = ledger[RowTick(k)].call BY <2>1
    <3>5. ledger'[RowTick(k)'].call = ledger[RowTick(k)].call
      BY <1>1, <1>2, <1>7
    <3> QED BY <3>3, <3>4, <3>5
  <2>6. after[size + 1] = row.call
    <3> PICK k : k = size + 1 /\ k \in 1..(size + 1) OBVIOUS
    <3>1. after[k] = ledger'[RowTick(k)'].call
      BY <2>2, Zenon
    <3> QED BY <1>1, <1>8, <3>1
  <2>7. \A i \in DOMAIN ledger : ledger[i].call \in Ops \cup Recalls
    <3>1. SUFFICES ASSUME NEW i \in DOMAIN ledger PROVE ledger[i].call \in Ops \cup Recalls
      OBVIOUS
    <3>2. ledger[i] \in Row BY <1>1 DEF TypeOK
    <3> QED BY <3>2 DEF Row
  <2>8. \A k \in 1..size : ledger[RowTick(k)].call \in Ops \cup Recalls
    BY <1>2, <1>7, <2>7
  <2>9. row.call \in Ops \cup Recalls BY DEF Row
  <2> HIDE DEF T
  <2> DEFINE S == Ops \cup Recalls
  <2>10. CommittedRows \in Seq(S) /\ Len(CommittedRows) = size
         /\ \A k \in 1..size : CommittedRows[k] \in S
    BY <2>1, <2>8
  <2> HIDE DEF S
  <2>11. row.call \in S BY <2>9 DEF S
  <2>12. after \in [1..(size + 1) -> S]
    BY <2>3, <2>4, <2>5, <2>6, <2>10, <2>11
  <2> QED BY <2>5, <2>6, <2>10, <2>11, <2>12
<1>10. \A k \in 1..Cardinality(T') : \E i \in T' : RankOf(i)' = k
  <2>1. SUFFICES ASSUME NEW k \in 1..(size + 1) PROVE \E i \in T' : RankOf(i)' = k
    BY <1>4
  <2>2. CASE k = size + 1 BY <1>2, <1>6, <2>2
  <2>3. CASE k \in 1..size
    <3>1. PICK i \in T : RankOf(i) = k BY <2>3 DEF RowsCounted
    <3> QED BY <1>2, <1>5, <3>1
  <2> QED BY <1>3, <2>2, <2>3
<1> QED BY <1>9, <1>10

\* Any other step leaves the mutation rows as they are.
LEMMA SameRows ==
  ASSUME RowsCounted, MutationTicks' = MutationTicks,
         \A i \in MutationTicks : ledger'[i] = ledger[i]
  PROVE  /\ CommittedRows' = CommittedRows
         /\ \A k \in 1..Cardinality(MutationTicks)' : \E i \in MutationTicks' : RankOf(i)' = k
<1> DEFINE T == MutationTicks
<1>1. \A i : RankOf(i)' = RankOf(i) BY DEF RankOf
<1>2. ASSUME NEW k \in 1..Cardinality(T)
      PROVE  ledger'[RowTick(k)'].call = ledger[RowTick(k)].call
  <2>1. \E i \in T : RankOf(i) = k BY DEF RowsCounted
  <2>2. RowTick(k) \in T BY <2>1 DEF RowTick
  <2>3. \A i : (i \in T' /\ RankOf(i)' = k) <=> (i \in T /\ RankOf(i) = k)
    BY <1>1
  <2>4. RowTick(k)' = CHOOSE i : i \in T' /\ RankOf(i)' = k
    BY DEF RowTick
  <2>5. RowTick(k) = CHOOSE i : i \in T /\ RankOf(i) = k
    BY DEF RowTick
  <2> QED BY <2>2, <2>3, <2>4, <2>5
<1>3. CommittedRows' = CommittedRows
  <2>1. CommittedRows' = [k \in 1..Cardinality(T) |-> ledger'[RowTick(k)'].call]
    BY DEF CommittedRows
  <2>2. CommittedRows = [k \in 1..Cardinality(T) |-> ledger[RowTick(k)].call]
    BY DEF CommittedRows
  <2> QED BY <1>2, <2>1, <2>2, Zenon
<1>4. \A k \in 1..Cardinality(T') : \E i \in T' : RankOf(i)' = k
  BY <1>1 DEF RowsCounted
<1> QED BY <1>3, <1>4

LEMMA RowsType ==
  ASSUME TypeOK, RowsCounted
  PROVE  CommittedRows \in Seq(Ops \cup Recalls)
<1> PICK size \in Nat : size = Cardinality(MutationTicks) BY TicksFinite
<1>1. \A k \in 1..size : RowTick(k) \in MutationTicks BY DEF RowsCounted, RowTick
<1>2. \A i \in MutationTicks : ledger[i].call \in Ops \cup Recalls
  <2>1. SUFFICES ASSUME NEW i \in MutationTicks PROVE ledger[i].call \in Ops \cup Recalls
    OBVIOUS
  <2>2. ledger[i] \in Row BY LedgerDomain DEF TypeOK, MutationTicks
  <2> QED BY <2>2 DEF Row
<1>3. \A k \in 1..size : ledger[RowTick(k)].call \in Ops \cup Recalls BY <1>1, <1>2
<1>4. CommittedRows = [k \in 1..size |-> ledger[RowTick(k)].call] BY DEF CommittedRows
<1> QED BY <1>3, <1>4

\* The effects a step has on the ledger and on the driver.
LEMMA StepEffect ==
  ASSUME IInv, [Next]_vars
  PROVE  \/ UNCHANGED <<ledger, driverVars>>
         \/ \E o \in Ops : /\ UNCHANGED ledger
                           /\ \/ Prepare(o) \/ Abort(o)
                              \/ Bound(o) /\ Finalize(o, binding[o])
         \/ \E o \in Ops : CommitMutation(o)
         \/ \E c \in Calls : Consult(c)
<1>1. CASE UNCHANGED vars BY <1>1 DEF vars, driverVars, coordVars
<1>2. ASSUME NEW c \in Calls, Invoke(c) \/ Proceed(c)
      PROVE  \/ UNCHANGED <<ledger, driverVars>>
             \/ \E o \in Ops : /\ UNCHANGED ledger
                               /\ \/ Prepare(o) \/ Abort(o)
                                  \/ Bound(o) /\ Finalize(o, binding[o])
             \/ \E o \in Ops : CommitMutation(o)
             \/ \E d \in Calls : Consult(d)
  <2>1. CASE Invoke(c) \/ Visit(c) \/ PendingReconciled(c)
    BY <2>1 DEF Invoke, Visit, PendingReconciled, coordVars
  <2>2. CASE ReconcilePending(c)
    <3>1. PICK o \in Ops : o \in todo[c] /\ (Reconcile(o, binding[o]) \/ UNCHANGED driverVars)
      BY <2>2 DEF ReconcilePending, Oldest
    <3>2. Bound(o) /\ UNCHANGED ledger
      BY <2>2, <3>1 DEF IInv, CallInv, CallCore, ReconcilePending, coordVars
    <3> QED BY <3>1, <3>2 DEF Reconcile
  <2>3. CASE c \in Ops /\ Mutate(c)
    <3>1. CASE FinalizeMutation(c) \/ ReconcileOwn(c)
      <4>1. Bound(c) /\ UNCHANGED ledger
        BY <2>3, <3>1
        DEF IInv, CallInv, MutationInv, PastCommit, FinalizeMutation, ReconcileOwn, coordVars
      <4>2. Finalize(c, binding[c]) \/ Reconcile(c, binding[c]) \/ UNCHANGED driverVars
        BY <3>1 DEF FinalizeMutation, ReconcileOwn
      <4> QED BY <2>3, <4>1, <4>2 DEF Reconcile
    <3>2. CASE CommitMutation(c) BY <2>3, <3>2
    <3>3. CASE ~(FinalizeMutation(c) \/ ReconcileOwn(c) \/ CommitMutation(c))
      <4>1. UNCHANGED ledger /\ (Prepare(c) \/ Abort(c) \/ UNCHANGED driverVars)
        BY <2>3, <3>3
        DEF Mutate, PrepareMutation, ReturnReplayed, AppendFails, AbortMutation,
            ReturnFinalized, Recheck, Observe, coordVars
      <4> QED BY <2>3, <4>1
    <3> QED BY <3>1, <3>2, <3>3
  <2>4. CASE Consult(c) BY <2>4
  <2>5. CASE ReadRegion(c) \/ CloseCoordinator(c) \/ TakeSnapshot(c)
    BY <2>5 DEF ReadRegion, CloseCoordinator, TakeSnapshot, coordVars
  <2> QED BY <1>2, <2>1, <2>2, <2>3, <2>4, <2>5 DEF Proceed, Barrier
<1> QED BY <1>1, <1>2 DEF Next

\* The operations the live projection shows.
ShownOps == {o \in Ops : opStatus[o] = "finalized"}

LEMMA SameCommitted ==
  ASSUME RowsCounted, CommittedRows' = CommittedRows,
         \A k \in 1..Cardinality(MutationTicks)' : \E i \in MutationTicks' : RankOf(i)' = k,
         \A o \in Ops : CommittedOp(o)' <=> CommittedOp(o)
  PROVE  RowsCounted'
<1>1. Abstract!Committed' = Abstract!Committed BY DEF Abstract!Committed
<1> QED BY <1>1 DEF RowsCounted

\* The row of a mutation is a commit of the abstract memory.
LEMMA CommitIsCommit ==
  ASSUME IInv, RowsCounted, NEW o \in Ops, CommitMutation(o)
  PROVE  RowsCounted' /\ Abstract!Commit(o)
<1>1. TypeOK /\ DataInv /\ o \in Calls /\ opStatus[o] = "prepared" /\ ~CommittedOp(o)
  BY DEF IInv, CallInv, MutationInv, CommitMutation, Uncommitted, Calls
<1>2. MutationRow(o) \in Row /\ MutationRow(o).call = o
      /\ MutationRow(o).etype # "MemoryConsulted" /\ ledger' = Append(ledger, MutationRow(o))
  BY <1>1 DEF CommitMutation, MutationRow, Row, TypeOK, DriverTypeOK, Stage
<1>3. /\ CommittedRows' = Append(CommittedRows, o)
      /\ \A k \in 1..Cardinality(MutationTicks)' : \E i \in MutationTicks' : RankOf(i)' = k
  BY <1>1, <1>2, CountedRow
<1>4. CommittedRows \in Seq(Ops \cup Recalls) BY <1>1, RowsType
<1>5. \A p : p \in Abstract!Committed' <=> p \in Abstract!Committed \/ p = o
  BY <1>3, <1>4 DEF Abstract!Committed
<1>6. \A p \in Ops : CommittedOp(p)' <=> CommittedOp(p) \/ p = o
  BY <1>1, CommitRows DEF CommittedOp
<1>7. RowsCounted' BY <1>3, <1>5, <1>6 DEF RowsCounted
<1>8. \A p \in Abstract!Committed \ ShownOps : OpRegion[p] # OpRegion[o]
  <2>1. SUFFICES ASSUME NEW p \in Abstract!Committed, p \notin ShownOps, OpRegion[p] = OpRegion[o]
                 PROVE  FALSE
    OBVIOUS
  <2>2. p \in Ops /\ CommittedOp(p) BY DEF RowsCounted
  <2>3. opStatus[p] = "prepared"
    BY <1>1, <2>1, <2>2 DEF DataInv, CommittedIsRecoverable, ShownOps
  <2>4. p = o
    BY <1>1, <2>1, <2>2, <2>3, OpsAssumption DEF DataInv, RegionLock
  <2> QED BY <1>1, <2>2, <2>4
<1>9. o \notin Abstract!Committed BY <1>1 DEF RowsCounted
<1>10. ShownOps' = ShownOps /\ regions' = regions BY DEF CommitMutation, driverVars, ShownOps
<1> QED BY <1>3, <1>7, <1>8, <1>9, <1>10 DEF Abstract!Commit, ShownOps

\* A finalization shows a committed mutation, and applies it.
LEMMA FinalizeIsShow ==
  ASSUME IInv, RowsCounted, NEW o \in Ops, Bound(o), Finalize(o, binding[o]),
         opStatus[o] = "prepared", UNCHANGED ledger, CommittedRows' = CommittedRows
  PROVE  Abstract!Show(o)
<1> DEFINE r == OpRegion[o]
           g == opStage[o].generation
<1>1. TypeOK /\ DataInv BY DEF IInv
<1>2. /\ regions' = [regions EXCEPT ![r] = Mutated(o, OpKind[o], g, @)]
      /\ opStatus' = [opStatus EXCEPT ![o] = "finalized"]
      /\ r \in Regions /\ regions[r] \in RegionState /\ OpKind[o] \in {"store", "forget"}
  BY <1>1, OpsAssumption DEF Finalize, TypeOK, DriverTypeOK
<1>3. g = NextGeneration(OpKind[o], regions[r])
  <2>1. opStage[o] = StageFor(OpKind[o], regions[r])
    BY <1>1 DEF DataInv, StagedAgainstCurrent
  <2> QED BY <2>1 DEF StageFor
<1>4. o \in Abstract!Committed \ ShownOps
  BY DEF RowsCounted, Bound, CommittedOp, ShownOps
<1>5. ShownOps' = ShownOps \cup {o}
  BY <1>1, <1>2 DEF ShownOps, TypeOK, DriverTypeOK
<1>6. Mutated(o, OpKind[o], g, regions[r]) = Abstract!Apply(o, regions[r])
  <2> DEFINE region == regions[r]
  <2>1. region = [generation |-> region.generation, state |-> region.state, cells |-> region.cells]
    BY <1>2 DEF RegionState
  <2>2. CASE OpKind[o] = "forget"
    <3>1. g = region.generation BY <1>3, <2>2 DEF NextGeneration
    <3> QED BY <2>1, <2>2, <3>1 DEF Mutated, Abstract!Apply
  <2>3. CASE OpKind[o] = "store" /\ region.state = "closed"
    BY <1>3, <2>3 DEF Mutated, Abstract!Apply, NextGeneration
  <2>4. CASE OpKind[o] = "store" /\ region.state = "open"
    <3>1. g = region.generation BY <1>3, <2>4 DEF NextGeneration
    <3> QED BY <2>1, <2>4, <3>1 DEF Mutated, Abstract!Apply
  <2> QED BY <1>2, <2>2, <2>3, <2>4 DEF RegionState
<1> QED BY <1>2, <1>4, <1>5, <1>6 DEF Abstract!Show, ShownOps

\* Every step of the protocol is one of the abstract memory, or changes nothing
\* it promises.
LEMMA RefinementStep ==
  ASSUME IInv, RowsCounted, [Next]_vars
  PROVE  RowsCounted' /\ [Abstract!Next]_(Abstract!memoryVars)
<1>1. TypeOK /\ DataInv BY DEF IInv
<1>2. CASE \E o \in Ops : CommitMutation(o)
  BY <1>2, CommitIsCommit DEF Abstract!Next
<1>3. CASE ~\E o \in Ops : CommitMutation(o)
  <2>1. /\ MutationTicks' = MutationTicks
        /\ \A i \in MutationTicks : ledger'[i] = ledger[i]
        /\ \A o \in Ops : CommittedOp(o)' <=> CommittedOp(o)
    <3>1. CASE UNCHANGED ledger
      BY <3>1 DEF MutationTicks, IsMutation, CommittedOp, IsRowOf
    <3>2. CASE ledger' # ledger
      <4>1. PICK c \in Calls : Consult(c)
        BY <1>3, <3>2, StepEffect
      <4> DEFINE row == [etype |-> "MemoryConsulted", call |-> c,
                         generation |-> ReadGeneration(c), hits |-> view[c].hits]
      <4>2. row \in Row /\ ledger' = Append(ledger, row)
        BY <1>1, <3>2, <4>1 DEF Consult, TypeOK, Row, ReadGeneration, Calls
      <4>3. row.etype = "MemoryConsulted" OBVIOUS
      <4> HIDE DEF row
      <4>4. /\ DOMAIN ledger' = 1..(Len(ledger) + 1)
            /\ DOMAIN ledger = 1..Len(ledger) /\ Len(ledger) \in Nat
            /\ \A i \in DOMAIN ledger : ledger'[i] = ledger[i]
            /\ ledger'[Len(ledger) + 1] = row
        BY <1>1, <4>2, AppendedRow, LedgerDomain
      <4>5. \A i : i \in DOMAIN ledger' <=> i \in DOMAIN ledger \/ i = Len(ledger) + 1
        BY <4>4
      <4> QED BY <4>3, <4>4, <4>5 DEF MutationTicks, IsMutation, CommittedOp, IsRowOf
    <3> QED BY <3>1, <3>2
  <2>2. /\ CommittedRows' = CommittedRows
        /\ \A k \in 1..Cardinality(MutationTicks)' : \E i \in MutationTicks' : RankOf(i)' = k
    BY <2>1, SameRows
  <2>3. RowsCounted' BY <2>1, <2>2, SameCommitted
  <2>4. CASE ShownOps' = ShownOps /\ regions' = regions
    BY <2>2, <2>3, <2>4 DEF Abstract!memoryVars, ShownOps
  <2>5. CASE \E o \in Ops : UNCHANGED ledger /\ Bound(o) /\ Finalize(o, binding[o])
    <3>1. PICK o \in Ops : UNCHANGED ledger /\ Bound(o) /\ Finalize(o, binding[o])
      BY <2>5
    <3>2. CASE opStatus[o] = "prepared"
      BY <2>2, <3>1, <3>2, FinalizeIsShow, <2>3 DEF Abstract!Next
    <3>3. CASE opStatus[o] # "prepared"
      <4>1. UNCHANGED driverVars BY <3>1, <3>3 DEF Finalize
      <4> QED BY <2>3, <2>4, <4>1 DEF driverVars, ShownOps
    <3> QED BY <3>2, <3>3
  <2>6. ASSUME NEW o \in Ops, Prepare(o) \/ Abort(o)
        PROVE  ShownOps' = ShownOps /\ regions' = regions
    BY <1>1, <2>6 DEF Prepare, PrepareThrows, Abort, AbortThrows, ShownOps, TypeOK, DriverTypeOK, driverVars
  <2>7. UNCHANGED driverVars => ShownOps' = ShownOps /\ regions' = regions
    BY DEF driverVars, ShownOps
  <2>8. ASSUME NEW c \in Calls, Consult(c) PROVE UNCHANGED driverVars
    BY <2>8 DEF Consult
  <2> QED BY <1>3, <2>3, <2>4, <2>5, <2>6, <2>7, <2>8, StepEffect
<1> QED BY <1>2, <1>3

LEMMA RefinementInit == Init => RowsCounted /\ Abstract!Init
<1> SUFFICES ASSUME Init PROVE RowsCounted /\ Abstract!Init OBVIOUS
<1>1. ledger = << >> /\ DOMAIN ledger = {} BY DEF Init
<1>2. MutationTicks = {} BY <1>1 DEF MutationTicks
<1>3. Cardinality(MutationTicks) = 0 BY <1>2, FS_EmptySet
<1>4. CommittedRows = << >> BY <1>3 DEF CommittedRows
<1>5. Abstract!Committed = {} BY <1>4 DEF Abstract!Committed
<1>6. RowsCounted BY <1>1, <1>3, <1>5 DEF RowsCounted, CommittedOp
<1>7. ShownOps = {} BY DEF Init, DriverInit, ShownOps
<1> QED BY <1>4, <1>6, <1>7 DEF Init, DriverInit, EmptyRegion, Abstract!Init, ShownOps

\* The commit protocol, the driver behind it and every failure between them
\* keep what named memory promises: one row per mutation, and a live projection
\* that is the replay of the committed rows, at most one behind per region.
THEOREM Implements == Spec => ImplementsNamedMemory
<1>1. IInv /\ RowsCounted /\ [Next]_vars => RowsCounted' /\ [Abstract!Next]_(Abstract!memoryVars)
  BY RefinementStep
<1> QED BY <1>1, RefinementInit, Invariance, PTL DEF Spec, ImplementsNamedMemory, Abstract!Spec
=============================================================================
