------------------------- MODULE NamedMemoryDriver -------------------------
(***************************************************************************)
(* The transactional driver of named memory: the journal a runtime keeps   *)
(* in process (named_memory_local.ts, class TransactionalNamedMemoryDriver)*)
(* and the operations a coordinator calls on it.                           *)
(*                                                                         *)
(* A mutation is prepared (staged, invisible, holding the lock of its      *)
(* region), then finalized with the ledger row that committed it, or       *)
(* aborted.  An operation id is the hash of the evaluation it came from    *)
(* (call site, invocation, ordinal) and of its request, so that a retry of *)
(* one evaluation finds the operation it prepared before: the model names  *)
(* an operation by its evaluation.                                         *)
(*                                                                         *)
(* Each operator below is one synchronous driver call.  X(o) is the effect *)
(* of the call when it succeeds and XThrows(o) says when it throws, which  *)
(* changes nothing.  A ledger binding is the tick of the committing row;   *)
(* the head hash beside it is a function of the tick.                      *)
(***************************************************************************)
EXTENDS Naturals, Sequences

CONSTANTS
  Regions,    (* memory regions: one per agent instance and descriptor     *)
  Ops,        (* evaluations of `mem <- value` and `forget mem`            *)
  OpRegion,   (* the region each evaluation mutates                        *)
  OpKind,     (* "store" or "forget"                                       *)
  NoOp        (* the absence of an operation                               *)

ASSUME OpsAssumption ==
  /\ OpRegion \in [Ops -> Regions]
  /\ OpKind \in [Ops -> {"store", "forget"}]
  /\ NoOp \notin Ops

VARIABLES
  regions,    (* live projection: generation, open or closed, cells        *)
  opStatus,   (* state of each operation                                   *)
  opStage,    (* what the operation was prepared against                   *)
  opLedger,   (* tick of the row each operation was finalized with, or 0   *)
  active      (* the prepared operation holding each region, or NoOp       *)

driverVars == <<regions, opStatus, opStage, opLedger, active>>

RegionState == [generation : Nat, state : {"open", "closed"}, cells : Seq(Ops)]

Stage == [generation : Nat, alreadyForgotten : BOOLEAN, tombstoned : Nat]

EmptyRegion == [generation |-> 0, state |-> "open", cells |-> << >>]

EmptyStage == [generation |-> 0, alreadyForgotten |-> FALSE, tombstoned |-> 0]

DriverTypeOK ==
  /\ regions \in [Regions -> RegionState]
  /\ opStatus \in [Ops -> {"unknown", "prepared", "finalized", "aborted"}]
  /\ opStage \in [Ops -> Stage]
  /\ opLedger \in [Ops -> Nat]
  /\ active \in [Regions -> Ops \cup {NoOp}]

DriverInit ==
  /\ regions = [r \in Regions |-> EmptyRegion]
  /\ opStatus = [o \in Ops |-> "unknown"]
  /\ opStage = [o \in Ops |-> EmptyStage]
  /\ opLedger = [o \in Ops |-> 0]
  /\ active = [r \in Regions |-> NoOp]

-----------------------------------------------------------------------------
(* What an operation is prepared against, and what it does to its region.  *)

\* A store into a closed region opens its next generation.
SameGeneration(kind, region) == region.generation   \* mutant

NextGeneration(kind, region) ==
  IF kind = "store" /\ region.state = "closed"
  THEN region.generation + 1 ELSE region.generation

\* A forget tombstones every cell, none when the region is already closed.
TombstonedMiscount(kind, region) ==   \* mutant
  IF kind = "forget" THEN Len(region.cells) - 1 ELSE 0

Tombstoned(kind, region) ==
  IF kind = "forget" /\ region.state = "open" THEN Len(region.cells) ELSE 0

StageFor(kind, region) ==
  [generation |-> NextGeneration(kind, region),
   alreadyForgotten |-> kind = "forget" /\ region.state = "closed",
   tombstoned |-> Tombstoned(kind, region)]

\* The canonical state of a region after operation o of the given generation.
Mutated(o, kind, generation, region) ==
  [generation |-> generation,
   state |-> IF kind = "store" THEN "open" ELSE "closed",
   cells |-> CASE kind = "forget" -> << >>
               [] kind = "store" /\ region.state = "closed" -> <<o>>
               [] OTHER -> Append(region.cells, o)]

-----------------------------------------------------------------------------
(* prepareStore and prepareForget.                                         *)

NeverBusy(o) == FALSE   \* mutant

\* Another prepared mutation holds the region.
RegionBusy(o) == active[OpRegion[o]] \notin {NoOp, o}

PrepareThrows(o) ==
  \/ opStatus[o] = "aborted"
  \/ opStatus[o] = "unknown" /\ RegionBusy(o)

\* An operation prepared or finalized before is returned as it stands.
Prepare(o) ==
  /\ ~PrepareThrows(o)
  /\ IF opStatus[o] = "unknown"
     THEN /\ opStatus' = [opStatus EXCEPT ![o] = "prepared"]
          /\ opStage' = [opStage EXCEPT ![o] = StageFor(OpKind[o], regions[OpRegion[o]])]
          /\ active' = [active EXCEPT ![OpRegion[o]] = o]
          /\ UNCHANGED <<regions, opLedger>>
     ELSE UNCHANGED driverVars

-----------------------------------------------------------------------------
(* finalize, abort, reconcile, recall and snapshot.                        *)

\* The region is no longer the one the operation was prepared against.
StaleStage(o) ==
  opStage[o].generation # NextGeneration(OpKind[o], regions[OpRegion[o]])

FinalizeThrows(o, tick) ==
  \/ opStatus[o] \in {"unknown", "aborted"}
  \/ opStatus[o] = "finalized" /\ opLedger[o] # tick
  \/ opStatus[o] = "prepared" /\ StaleStage(o)

Released(o) == [active EXCEPT ![OpRegion[o]] = NoOp]

Finalize(o, tick) ==
  /\ ~FinalizeThrows(o, tick)
  /\ IF opStatus[o] = "prepared"
     THEN /\ regions' = [regions EXCEPT ![OpRegion[o]] =
                           Mutated(o, OpKind[o], opStage[o].generation, @)]
          /\ opStatus' = [opStatus EXCEPT ![o] = "finalized"]
          /\ opLedger' = [opLedger EXCEPT ![o] = tick]
          /\ active' = Released(o)
          /\ UNCHANGED opStage
     ELSE UNCHANGED driverVars

AbortThrows(o) == opStatus[o] = "finalized"

Abort(o) ==
  /\ ~AbortThrows(o)
  /\ IF opStatus[o] = "prepared"
     THEN /\ opStatus' = [opStatus EXCEPT ![o] = "aborted"]
          /\ active' = Released(o)
          /\ UNCHANGED <<regions, opStage, opLedger>>
     ELSE UNCHANGED driverVars

\* reconcile finalizes an operation that is still prepared and otherwise only
\* reports its status.
ReconcileThrows(o, tick) == opStatus[o] = "prepared" /\ FinalizeThrows(o, tick)

Reconcile(o, tick) ==
  IF opStatus[o] = "prepared" THEN Finalize(o, tick) ELSE UNCHANGED driverVars

\* The cells recall returns: those of the current generation while it is open.
RecalledCells(r) == IF regions[r].state = "open" THEN regions[r].cells ELSE << >>

NeverThrows == FALSE   \* mutant

\* A snapshot is refused while any mutation is prepared or holds a region.
SnapshotThrows ==
  \/ \E r \in Regions : active[r] # NoOp
  \/ \E o \in Ops : opStatus[o] = "prepared"

-----------------------------------------------------------------------------
(* What a journal makes of a snapshot (snapshot, restoreJournalSnapshot):   *)
(* only the finalized operations are kept, and a restored journal is        *)
(* accepted only when replaying them in the order of their ledger ticks     *)
(* gives the cells that the snapshot shows.  The hashes that tie an         *)
(* operation to its region, origin, value and evaluation hold by the names  *)
(* of the model.                                                            *)

\* The operations of a snapshot.
Finalizations == {o \in Ops : opStatus[o] = "finalized"}

\* No two operations are bound to one tick, whatever region they are of.
BoundOnce ==
  \A o, p \in Finalizations : opLedger[o] = opLedger[p] => o = p

\* Operation o is applied anew; its stage must be what it has there.
Replay(replay, o) ==
  LET region == replay.regions[OpRegion[o]]
  IN [agrees |-> replay.agrees /\ opStage[o] = StageFor(OpKind[o], region),
      regions |-> [replay.regions EXCEPT ![OpRegion[o]] =
                     Mutated(o, OpKind[o], opStage[o].generation, @)]]

\* The operations replayed in the order of their ticks.
Replayed ==
  LET before[tick \in Nat] ==
        IF tick = 0
        THEN [agrees |-> TRUE, regions |-> [r \in Regions |-> EmptyRegion]]
        ELSE IF \E o \in Finalizations : opLedger[o] = tick - 1
        THEN Replay(before[tick - 1], CHOOSE o \in Finalizations : opLedger[o] = tick - 1)
        ELSE before[tick - 1]
      ticks == {opLedger[o] : o \in Finalizations}
      last == CHOOSE t \in ticks : \A u \in ticks : u <= t
  IN before[IF ticks = {} THEN 0 ELSE last + 1]

\* The cells the snapshot shows are the ones the replay left.
ShowsReplay == Replayed.regions = regions

\* A journal is restored from the snapshot, or the snapshot is refused.
Restores ==
  /\ BoundOnce
  /\ Replayed.agrees
  /\ ShowsReplay
=============================================================================
