----------------------- MODULE NamedMemoryCoordinator -----------------------
(***************************************************************************)
(* The transaction protocol of named memory (named_memory_coordinator.ts). *)
(* One coordinator per region commits mutations in three places that fail  *)
(* separately: it prepares in the driver, appends the Internalized or      *)
(* Forgotten row that is the commit decision, and finalizes in the driver. *)
(* What is committed and not known to be finalized stays in the            *)
(* coordinator's pending map, and every operation of the session first     *)
(* passes a barrier that reconciles the pending map of every coordinator.  *)
(*                                                                         *)
(* The calls run as asynchronous functions of one event loop: everything   *)
(* between two awaits is one step, and any other call may run at an await. *)
(* Calls overlap in a `|>` fan-out (interp.ts evalPipe) and in concurrent  *)
(* background deliveries.                                                  *)
(*                                                                         *)
(* A driver call may throw before it takes effect, or after (its           *)
(* acknowledgement is lost); Faults names the calls that may and           *)
(* MaxFaults bounds how often.                                             *)
(***************************************************************************)
EXTENDS NamedMemoryDriver, FiniteSets

CONSTANTS
  Recalls, Closes, Snapshots,  (* calls of recall, close and snapshot      *)
  CallRegion,                  (* the coordinator each call is made on     *)
  Registered,                  (* order in which the barrier met each one  *)
  Faults,                      (* seams that may fail                      *)
  MaxFaults,                   (* bound: failures in one behaviour         *)
  MaxAttempts                  (* bound: invocations of one call           *)

Calls == Ops \cup Recalls \cup Closes \cup Snapshots

ASSUME CallsAssumption ==
  /\ CallRegion \in [Calls -> Regions]
  /\ \A o \in Ops : CallRegion[o] = OpRegion[o]
  /\ Registered \in [Regions -> Nat]
  /\ Recalls \cap (Ops \cup Closes \cup Snapshots) = {}
  /\ Closes \cap (Ops \cup Snapshots) = {}
  /\ Snapshots \cap Ops = {}
  /\ MaxFaults \in Nat
  /\ MaxAttempts \in Nat

VARIABLES
  ledger,     (* the ledger: rows in tick order, ticks counted from 1       *)
  pending,    (* #pending of each coordinator                               *)
  binding,    (* the tick a committed mutation must be finalized with       *)
  closed,     (* #closed of each coordinator                                *)
  pc,         (* the await each call is suspended at                        *)
  left,       (* barrier members a call has still to visit                  *)
  member,     (* the barrier member whose pending map it is reconciling     *)
  todo,       (* the copy of that map it still has to go through            *)
  view,       (* what a recall read from the driver                         *)
  since,      (* length of the ledger when the call was invoked             *)
  result,     (* how the last invocation of the call ended                  *)
  attempts,   (* invocations so far                                         *)
  faults      (* failures so far                                            *)

coordVars == <<ledger, pending, binding, closed>>
callVars == <<pc, left, member, todo, view, since, result, attempts>>
vars == <<driverVars, coordVars, callVars, faults>>

NoView == [generation |-> 0, hits |-> << >>]

Row == [etype : {"Internalized", "Forgotten", "MemoryConsulted"},
        call : Ops \cup Recalls, generation : Nat, hits : Seq(Ops)]

Control == {"idle", "barrier", "reconcile", "reconciled", "prepared", "abort",
            "finalize", "finalized", "recheck", "reconcileOwn", "observe", "rank"}

TypeOK ==
  /\ DriverTypeOK
  /\ ledger \in Seq(Row)
  /\ pending \in [Regions -> SUBSET Ops]
  /\ binding \in [Ops -> Nat]
  /\ closed \in [Regions -> BOOLEAN]
  /\ pc \in [Calls -> Control]
  /\ left \in [Calls -> SUBSET Regions]
  /\ member \in [Calls -> Regions]
  /\ todo \in [Calls -> SUBSET Ops]
  /\ view \in [Calls -> [generation : Nat, hits : Seq(Ops)]]
  /\ since \in [Calls -> Nat]
  /\ result \in [Calls -> {"none", "ok", "pending", "reused", "failed"}]
  /\ attempts \in [Calls -> 0..MaxAttempts]
  /\ faults \in 0..MaxFaults

Init ==
  /\ DriverInit
  /\ ledger = << >>
  /\ pending = [r \in Regions |-> {}]
  /\ binding = [o \in Ops |-> 0]
  /\ closed = [r \in Regions |-> FALSE]
  /\ pc = [c \in Calls |-> "idle"]
  /\ left = [c \in Calls |-> {}]
  /\ member = CallRegion
  /\ todo = [c \in Calls |-> {}]
  /\ view = [c \in Calls |-> NoView]
  /\ since = [c \in Calls |-> 0]
  /\ result = [c \in Calls |-> "none"]
  /\ attempts = [c \in Calls |-> 0]
  /\ faults = 0

-----------------------------------------------------------------------------
Goto(c, label) == pc' = [pc EXCEPT ![c] = label]

\* The call returns, or its promise rejects: r = "failed".
End(c, r) ==
  /\ Goto(c, "idle")
  /\ result' = [result EXCEPT ![c] = r]
  /\ left' = [left EXCEPT ![c] = {}]
  /\ todo' = [todo EXCEPT ![c] = {}]
  /\ view' = [view EXCEPT ![c] = NoView]
  /\ UNCHANGED <<member, since, attempts>>

Continue(c, label) ==
  /\ Goto(c, label)
  /\ UNCHANGED <<left, member, todo, view, since, result, attempts>>

Fault(seam) ==
  /\ seam \in Faults
  /\ faults < MaxFaults
  /\ faults' = faults + 1

IsMutation(row) == row.etype # "MemoryConsulted"

IsRowOf(o, i) == IsMutation(ledger[i]) /\ ledger[i].call = o

CommittedOp(o) == \E i \in DOMAIN ledger : IsRowOf(o, i)

-----------------------------------------------------------------------------
(* Entry of every call, and the session barrier.                           *)

OwnMember(c) == {CallRegion[c]}   \* mutant

Members(c) == Regions

\* assertOpenAndScoped, then the first synchronous part of reconcileAll.
\* Closing a closed coordinator returns at once; snapshot has no such check.
\* A failed call may be invoked again: the retry of one evaluation.
Invoke(c) ==
  /\ pc[c] = "idle"
  /\ result[c] \in {"none", "failed"}
  /\ attempts[c] < MaxAttempts
  /\ attempts' = [attempts EXCEPT ![c] = @ + 1]
  /\ since' = [since EXCEPT ![c] = Len(ledger)]
  /\ IF closed[CallRegion[c]] /\ c \notin Snapshots
     THEN /\ result' = [result EXCEPT ![c] = IF c \in Closes THEN "ok" ELSE "failed"]
          /\ UNCHANGED <<pc, left>>
     ELSE /\ Goto(c, "barrier")
          /\ left' = [left EXCEPT ![c] = Members(c)]
          /\ result' = [result EXCEPT ![c] = "none"]
  /\ UNCHANGED <<driverVars, coordVars, member, todo, view, faults>>

\* The barrier visits its members in the order they registered in.
NextMember(c, r) ==
  r \in left[c] /\ \A q \in left[c] : Registered[r] <= Registered[q]

Passed(c, r) == [left EXCEPT ![c] = @ \ {r}]

\* reconcileOwnPending of one member, up to its first await: an empty map is
\* passed over, a closed coordinator that still has one throws.
Visit(c) ==
  /\ pc[c] = "barrier"
  /\ \E r \in Regions :
       /\ NextMember(c, r)
       /\ IF pending[r] = {}
          THEN /\ left' = Passed(c, r)
               /\ UNCHANGED <<pc, member, todo, view, since, result, attempts>>
          ELSE IF closed[r]
          THEN End(c, "failed")
          ELSE /\ Goto(c, "reconcile")
               /\ member' = [member EXCEPT ![c] = r]
               /\ todo' = [todo EXCEPT ![c] = pending[r]]
               /\ UNCHANGED <<left, view, since, result, attempts>>
  /\ UNCHANGED <<driverVars, coordVars, faults>>

\* The pending map is iterated in insertion order, which is commit order.
Oldest(c, o) == o \in todo[c] /\ \A p \in todo[c] : binding[o] <= binding[p]

\* The driver reconciles one pending operation.
ReconcilePending(c) ==
  /\ pc[c] = "reconcile"
  /\ \E o \in Ops :
       /\ Oldest(c, o)
       /\ \/ /\ Reconcile(o, binding[o])
             /\ Continue(c, "reconciled")
             /\ UNCHANGED faults
          \/ /\ ReconcileThrows(o, binding[o])
             /\ End(c, "failed")
             /\ UNCHANGED <<driverVars, faults>>
          \/ /\ Fault("reconcile")
             /\ End(c, "failed")
             /\ UNCHANGED driverVars
          \/ /\ Fault("reconcileAck")
             /\ Reconcile(o, binding[o])
             /\ End(c, "failed")
  /\ UNCHANGED coordVars

\* Its answer drops the operation from the pending map.  After the last one
\* of the copy, a map that is not empty fails the barrier.
PendingReconciled(c) ==
  /\ pc[c] = "reconciled"
  /\ \E o \in Ops :
       /\ Oldest(c, o)
       /\ LET r == member[c]
              remaining == IF opStatus[o] = "finalized" THEN pending[r] \ {o} ELSE pending[r]
          IN  /\ pending' = [pending EXCEPT ![r] = remaining]
              /\ IF todo[c] # {o}
                 THEN /\ Goto(c, "reconcile")
                      /\ todo' = [todo EXCEPT ![c] = @ \ {o}]
                      /\ UNCHANGED <<left, member, view, since, result, attempts>>
                 ELSE IF remaining # {}
                 THEN End(c, "failed")
                 ELSE /\ Goto(c, "barrier")
                      /\ todo' = [todo EXCEPT ![c] = {}]
                      /\ left' = Passed(c, r)
                      /\ UNCHANGED <<member, view, since, result, attempts>>
  /\ UNCHANGED <<driverVars, ledger, binding, closed, faults>>

BarrierPassed(c) == pc[c] = "barrier" /\ left[c] = {}

-----------------------------------------------------------------------------
(* store and forget.                                                       *)

PrepareMutation(o) ==
  /\ BarrierPassed(o)
  /\ \/ Prepare(o) /\ Continue(o, "prepared") /\ UNCHANGED faults
     \/ PrepareThrows(o) /\ End(o, "failed") /\ UNCHANGED <<driverVars, faults>>
     \/ Fault("prepare") /\ End(o, "failed") /\ UNCHANGED driverVars
     \/ Fault("prepareAck") /\ Prepare(o) /\ End(o, "failed")
  /\ UNCHANGED coordVars

\* preparedReplay: a retry that finds its operation finalized returns the
\* first receipt and commits nothing.
ReturnReplayed(o) ==
  /\ pc[o] = "prepared"
  /\ \/ opStatus[o] = "finalized" /\ End(o, "reused") /\ UNCHANGED faults
     \/ Fault("status") /\ End(o, "failed")
  /\ UNCHANGED <<driverVars, coordVars>>

MutationRow(o) ==
  [etype |-> IF OpKind[o] = "store" THEN "Internalized" ELSE "Forgotten",
   call |-> o, generation |-> opStage[o].generation, hits |-> << >>]

AlwaysCommits(o) == TRUE   \* mutant

\* preparedReplay found no receipt.
Uncommitted(o) == opStatus[o] # "finalized"

AppendedTick == Len(ledger) + 1

Enlisted(o) == [pending EXCEPT ![OpRegion[o]] = @ \cup {o}]

\* The commit decision: row, binding and pending entry in one step.
CommitMutation(o) ==
  /\ pc[o] = "prepared"
  /\ Uncommitted(o)
  /\ ledger' = Append(ledger, MutationRow(o))
  /\ binding' = [binding EXCEPT ![o] = AppendedTick]
  /\ pending' = Enlisted(o)
  /\ Continue(o, "finalize")
  /\ UNCHANGED <<driverVars, closed, faults>>

\* The row cannot be encoded: nothing is committed and the stage is aborted.
AppendFails(o) ==
  /\ pc[o] = "prepared"
  /\ Uncommitted(o)
  /\ Fault("append")
  /\ Continue(o, "abort")
  /\ UNCHANGED <<driverVars, coordVars>>

AbortMutation(o) ==
  /\ pc[o] = "abort"
  /\ \/ Abort(o) /\ UNCHANGED faults
     \/ AbortThrows(o) /\ UNCHANGED <<driverVars, faults>>
     \/ Fault("abort") /\ UNCHANGED driverVars
  /\ End(o, "failed")
  /\ UNCHANGED coordVars

Swallow(o) == Continue(o, "finalized")   \* mutant

\* The error of finalize is caught, whatever it is.
CatchError(o) == Continue(o, "recheck")

FinalizeMutation(o) ==
  /\ pc[o] = "finalize"
  /\ \/ Finalize(o, binding[o]) /\ Continue(o, "finalized") /\ UNCHANGED faults
     \/ /\ FinalizeThrows(o, binding[o])
        /\ CatchError(o)
        /\ UNCHANGED <<driverVars, faults>>
     \/ Fault("finalize") /\ CatchError(o) /\ UNCHANGED driverVars
     \/ Fault("finalizeAck") /\ Finalize(o, binding[o]) /\ CatchError(o)
  /\ UNCHANGED coordVars

\* The receipt is in hand: the operation leaves the pending map.
ReturnFinalized(o) ==
  /\ pc[o] = "finalized"
  /\ pending' = [pending EXCEPT ![OpRegion[o]] = @ \ {o}]
  /\ End(o, "ok")
  /\ UNCHANGED <<driverVars, ledger, binding, closed, faults>>

\* finalize threw: ask what became of it.  A finalization whose
\* acknowledgement was lost stays pending (loseFinalizeAck).
Recheck(o) ==
  /\ pc[o] = "recheck"
  /\ \/ /\ Continue(o, IF opStatus[o] = "finalized" THEN "observe" ELSE "reconcileOwn")
        /\ UNCHANGED faults
     \/ Fault("status") /\ End(o, "failed")
  /\ UNCHANGED <<driverVars, coordVars>>

ReconcileOwn(o) ==
  /\ pc[o] = "reconcileOwn"
  /\ \/ /\ Reconcile(o, binding[o])
        /\ IF opStatus'[o] = "finalized" THEN Continue(o, "finalized") ELSE End(o, "failed")
        /\ UNCHANGED faults
     \/ /\ ReconcileThrows(o, binding[o])
        /\ End(o, "failed")
        /\ UNCHANGED <<driverVars, faults>>
     \/ Fault("reconcile") /\ End(o, "failed") /\ UNCHANGED driverVars
     \/ Fault("reconcileAck") /\ Reconcile(o, binding[o]) /\ End(o, "failed")
  /\ UNCHANGED coordVars

\* Returned to the caller as committed, with the operation still pending.
Observe(o) ==
  /\ pc[o] = "observe"
  /\ \/ End(o, "pending") /\ UNCHANGED faults
     \/ Fault("status") /\ End(o, "failed")
  /\ UNCHANGED <<driverVars, coordVars>>

-----------------------------------------------------------------------------
(* recall, close and snapshot.                                             *)

ReadRegion(c) ==
  /\ c \in Recalls
  /\ BarrierPassed(c)
  /\ \/ /\ Goto(c, "rank")
        /\ view' = [view EXCEPT ![c] =
                      [generation |-> regions[CallRegion[c]].generation,
                       hits |-> RecalledCells(CallRegion[c])]]
        /\ UNCHANGED <<left, member, todo, since, result, attempts, faults>>
     \/ Fault("recall") /\ End(c, "failed")
  /\ UNCHANGED <<driverVars, coordVars>>

LateGeneration(c) == regions[CallRegion[c]].generation   \* mutant

ReadGeneration(c) == view[c].generation

\* After the ranking is awaited, the consultation is recorded.
Consult(c) ==
  /\ c \in Recalls
  /\ pc[c] = "rank"
  /\ \/ /\ ledger' = Append(ledger, [etype |-> "MemoryConsulted", call |-> c,
                                     generation |-> ReadGeneration(c),
                                     hits |-> view[c].hits])
        /\ End(c, "ok")
        /\ UNCHANGED faults
     \/ Fault("rank") /\ End(c, "failed") /\ UNCHANGED ledger
  /\ UNCHANGED <<driverVars, pending, binding, closed>>

CloseCoordinator(c) ==
  /\ c \in Closes
  /\ BarrierPassed(c)
  /\ closed' = [closed EXCEPT ![CallRegion[c]] = TRUE]
  /\ End(c, "ok")
  /\ UNCHANGED <<driverVars, ledger, pending, binding, faults>>

TakeSnapshot(c) ==
  /\ c \in Snapshots
  /\ BarrierPassed(c)
  /\ End(c, IF SnapshotThrows THEN "failed" ELSE "ok")
  /\ UNCHANGED <<driverVars, coordVars, faults>>

-----------------------------------------------------------------------------
Barrier(c) == Visit(c) \/ ReconcilePending(c) \/ PendingReconciled(c)

Mutate(o) ==
  \/ PrepareMutation(o) \/ ReturnReplayed(o) \/ CommitMutation(o) \/ AppendFails(o)
  \/ AbortMutation(o) \/ FinalizeMutation(o) \/ ReturnFinalized(o)
  \/ Recheck(o) \/ ReconcileOwn(o) \/ Observe(o)

Proceed(c) ==
  \/ Barrier(c)
  \/ c \in Ops /\ Mutate(c)
  \/ ReadRegion(c) \/ Consult(c) \/ CloseCoordinator(c) \/ TakeSnapshot(c)

Next == \E c \in Calls : Invoke(c) \/ Proceed(c)

Spec == Init /\ [][Next]_vars

-----------------------------------------------------------------------------
(* The commit decision and the driver agree, whatever failed.              *)

\* A region is held by its prepared operation and by no other: two mutations
\* of one region are never staged at once, whichever calls interleave.
RegionLock ==
  \A r \in Regions, o \in Ops :
    active[r] = o <=> OpRegion[o] = r /\ opStatus[o] = "prepared"

\* Nothing changes a region between the prepare and the finalize of a
\* mutation: the generation and the effects that the receipt and the ledger
\* row report are still true when the mutation is applied.
StagedAgainstCurrent ==
  \A o \in Ops :
    opStatus[o] = "prepared" => opStage[o] = StageFor(OpKind[o], regions[OpRegion[o]])

\* A retry, a lost acknowledgement or a reconciliation never commits one
\* evaluation twice.
AtMostOneCommit ==
  \A o \in Ops : \A i, j \in DOMAIN ledger : IsRowOf(o, i) /\ IsRowOf(o, j) => i = j

\* Nothing is exposed that the ledger did not commit: a finalized mutation is
\* bound to the tick of its own row.
FinalizedIsCommitted ==
  \A o \in Ops :
    opStatus[o] = "finalized" => opLedger[o] \in DOMAIN ledger /\ IsRowOf(o, opLedger[o])

\* A committed mutation is never lost: until it is finalized it stays staged,
\* and its coordinator's pending map knows the row to finalize it with.
CommittedIsRecoverable ==
  \A o \in Ops :
    \/ ~CommittedOp(o)
    \/ opStatus[o] = "finalized"
    \/ /\ opStatus[o] = "prepared"
       /\ o \in pending[OpRegion[o]]
       /\ binding[o] \in DOMAIN ledger /\ IsRowOf(o, binding[o])

\* Mutations of a region are serial: one is staged at a time, and it is
\* applied to the state it was staged against.
RegionSerial == RegionLock /\ StagedAgainstCurrent

\* The ledger decides for good: an evaluation commits at most once however
\* often it is retried or its acknowledgement lost, nothing is exposed that did
\* not commit, and what did commit can still be exposed after any failure.
CommitsForGood == AtMostOneCommit /\ FinalizedIsCommitted /\ CommittedIsRecoverable

\* Whatever was committed before a call entered the barrier is finalized in
\* every region the barrier has passed, though other calls keep committing.
BarrierSettles ==
  \A c \in Calls, o \in Ops : \A i \in DOMAIN ledger :
    /\ pc[c] # "idle" /\ OpRegion[o] \notin left[c]
    /\ i <= since[c] /\ IsRowOf(o, i)
    => opStatus[o] = "finalized"

\* A consultation reports only cells committed before it, by a store of the
\* generation it reports.
ConsultsOnlyCommitted ==
  \A i \in DOMAIN ledger : \A k \in DOMAIN ledger[i].hits :
    \E j \in 1..(i - 1) :
      /\ IsRowOf(ledger[i].hits[k], j)
      /\ ledger[j].etype = "Internalized"
      /\ ledger[j].generation = ledger[i].generation

\* What the caller of a mutation is told: a receipt is for an exposed
\* mutation, an answer without a receipt for a committed one.
ReportsAreTrue ==
  \A o \in Ops :
    /\ result[o] \in {"ok", "reused"} => opStatus[o] = "finalized"
    /\ result[o] = "pending" => CommittedOp(o)

\* A snapshot is taken only of a session without a committed mutation that
\* the live projection does not show.
SnapshotComplete ==
  [][\A c \in Snapshots : result[c] # "ok" /\ result'[c] = "ok" =>
       \A o \in Ops : CommittedOp(o) => opStatus[o] = "finalized"]_vars

-----------------------------------------------------------------------------
(* The protocol implements the abstract named memory.                      *)

MutationTicks == {i \in DOMAIN ledger : IsMutation(ledger[i])}

\* How many mutation rows there are up to a tick.
RankOf(i) == Cardinality({j \in MutationTicks : j <= i})

\* The tick of the k-th mutation row.
RowTick(k) == CHOOSE i \in MutationTicks : RankOf(i) = k

\* The mutations of the ledger, in its order.
CommittedRows ==
  [k \in 1..Cardinality(MutationTicks) |-> ledger[RowTick(k)].call]

Abstract == INSTANCE NamedMemory WITH
  rows <- CommittedRows,
  shown <- {o \in Ops : opStatus[o] = "finalized"},
  memory <- regions

\* Every step of the protocol commits one mutation, shows one, or changes
\* nothing that named memory promises.
ImplementsNamedMemory == Abstract!Spec
=============================================================================
