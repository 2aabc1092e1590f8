--------------------------- MODULE MarkdownMemory ---------------------------
(***************************************************************************)
(* The durable driver of named memory (named_memory_markdown.ts): the      *)
(* journal of NamedMemoryDriver kept in one file, state.json, by the       *)
(* process that holds the writer lease.                                    *)
(*                                                                         *)
(* A process loads the file when it opens the directory and keeps a copy   *)
(* of it (payload).  A mutating call computes the next revision from its   *)
(* copy, looks at the lease, looks at the file, replaces it by rename, and *)
(* then adopts what it wrote; a finalized mutation is rendered into a      *)
(* Markdown file afterwards.  A write that fails is looked up in the file; *)
(* when the outcome stays open the driver fences itself.  One call runs at *)
(* a time per process (exclusive).                                         *)
(*                                                                         *)
(* The commit of a mutation is a row of the ledger of its session, which   *)
(* is the caller's and survives a crash: the openings of one session go on *)
(* with one ledger, a new session starts its own at its first tick.  A     *)
(* crash is the end of a process, not of the file system under it.  Memory *)
(* of session retention is NamedMemoryDriver as it stands; the archive of  *)
(* a forgotten generation is written with its projection.                  *)
(*                                                                         *)
(* A process whose journal refuses what it has just written throws in      *)
(* every finalize and abort from then on; the model stops it (fenced), and *)
(* leaves out the prepared operations it could still write to the file.    *)
(***************************************************************************)
EXTENDS WriterLease, Sequences, FiniteSetsExt, SequencesExt

CONSTANTS
  Regions, Ops, OpRegion, OpKind, NoOp,   (* as in NamedMemoryDriver       *)
  OpenSession, OpSession,  (* the session of each opening and evaluation   *)
  MaxFaults,  (* bound on the calls of the file system that fail           *)
  MaxRevision (* bound on the revisions of the file                        *)

\* A region is named with the lineage of its session.
ASSUME MarkdownAssumption ==
  /\ OpRegion \in [Ops -> Regions]
  /\ OpKind \in [Ops -> {"store", "forget"}]
  /\ NoOp \notin Ops
  /\ OpenSession \in [Opens -> Nat]
  /\ OpSession \in [Ops -> Nat]
  /\ \A o, q \in Ops : OpRegion[o] = OpRegion[q] => OpSession[o] = OpSession[q]
  /\ MaxFaults \in Nat
  /\ MaxRevision \in Nat \ {0}

VARIABLES
  disk,       (* state.json                                                *)
  payload,    (* the copy of each process                                  *)
  work,       (* the call each process is in, its binding and next step    *)
  fenced,     (* processes that do not know what they wrote, or cannot     *)
              (* load it                                                   *)
  ledger,     (* the committed mutations of all sessions                   *)
  files,      (* the rendered projection of every region, per generation   *)
  acked,      (* operations whose finalization was reported                *)
  overtaken,  (* auxiliary: processes about to write over a file that was  *)
              (* written after they had looked at it                       *)
  faults      (* failures so far                                           *)

journalVars == <<disk, payload, work, fenced, ledger, files, acked, overtaken, faults>>

vars == <<leaseVars, journalVars>>

-----------------------------------------------------------------------------
(* The canonical payload.  Which operation holds a region follows from the *)
(* pending operations, which are prepared anew on a loaded payload.        *)

NoHolder(pl) == [r \in Regions |-> NoOp]   \* mutant

HolderIn(pl) ==
  [r \in Regions |->
     IF \E o \in Ops : OpRegion[o] = r /\ pl.status[o] = "prepared"
     THEN CHOOSE o \in Ops : OpRegion[o] = r /\ pl.status[o] = "prepared"
     ELSE NoOp]

Driver(pl) ==
  INSTANCE NamedMemoryDriver WITH
    regions <- pl.regions, opStatus <- pl.status, opStage <- pl.stage,
    opLedger <- pl.ledger, active <- HolderIn(pl)

Gen0 == [generation |-> 0, state |-> "open", cells |-> << >>]

NoStage == [generation |-> 0, alreadyForgotten |-> FALSE, tombstoned |-> 0]

\* Revision 0 stands for a directory without state.json.
InitialPayload ==
  [revision |-> 0,
   regions |-> [r \in Regions |-> Gen0],
   status |-> [o \in Ops |-> "unknown"],
   stage |-> [o \in Ops |-> NoStage],
   ledger |-> [o \in Ops |-> 0]]

\* A tick counts the rows of one session.
TickAt(i) == Cardinality({k \in 1 .. i : OpSession[ledger[k]] = OpSession[ledger[i]]})

TickOf(o) ==
  IF Contains(ledger, o) THEN TickAt(CHOOSE i \in DOMAIN ledger : ledger[i] = o) ELSE 0

FreshStage(pl, o) == Driver(pl)!StageFor(OpKind[o], pl.regions[OpRegion[o]])

Staged(pl, o) == [pl EXCEPT !.status[o] = "prepared", !.stage[o] = FreshStage(pl, o)]

\* finalizeUnlocked prepares the operation anew on the finalized state.
Finalized(pl, o, tick) ==
  [pl EXCEPT !.status[o] = "finalized",
             !.ledger[o] = tick,
             !.regions[OpRegion[o]] =
                Driver(pl)!Mutated(o, OpKind[o], FreshStage(pl, o).generation, @)]

\* An aborted operation is forgotten: it may be prepared again.
Unstaged(pl, o) == [pl EXCEPT !.status[o] = "unknown", !.stage[o] = NoStage]

\* A payload is loaded by restoring its snapshot and preparing each pending
\* operation anew, with the stage it was written with.
Rebuilds(pl) ==
  /\ Driver(pl)!Restores
  /\ \A o \in Ops :
       pl.status[o] = "prepared" =>
         HolderIn(pl)[OpRegion[o]] = o /\ pl.stage[o] = FreshStage(pl, o)

\* What a call writes: the next revision.
Revised(pl, call, o, tick) ==
  LET changed == CASE call = "init" -> pl
                   [] call = "prepare" -> Staged(pl, o)
                   [] call = "finalize" -> Finalized(pl, o, tick)
                   [] call = "abort" -> Unstaged(pl, o)
  IN [changed EXCEPT !.revision = @ + 1]

-----------------------------------------------------------------------------
Idle == [step |-> "idle", call |-> "none", op |-> NoOp, tick |-> 0]

Unloaded == [step |-> "unloaded", call |-> "none", op |-> NoOp, tick |-> 0]

Abandoning == [step |-> "abandoning", call |-> "none", op |-> NoOp, tick |-> 0]

Init ==
  /\ LeaseInit
  /\ disk = InitialPayload
  /\ payload = [p \in Opens |-> InitialPayload]
  /\ work = [p \in Opens |-> Unloaded]
  /\ fenced = {}
  /\ ledger = << >>
  /\ files = [r \in Regions |-> << >>]
  /\ acked = {}
  /\ overtaken = {}
  /\ faults = 0

\* The driver of p accepts calls: it is open, not closing, not fenced, and
\* no other call is running.
Ready(p) == phase[p] = "held" /\ work[p] = Idle /\ p \notin fenced

\* The bound on revisions: calls that would write stop at it.
MayWrite(p) == Ready(p) /\ payload[p].revision < MaxRevision

At(p, step) == phase[p] = "held" /\ work[p].step = step

Steps(p, step) == work' = [work EXCEPT ![p].step = step]

Starts(p, step, call, o, tick) ==
  work' = [work EXCEPT ![p] = [step |-> step, call |-> call, op |-> o, tick |-> tick]]

\* A call returns; an open that could not write its first revision fails.
Returns(p) == work' = [work EXCEPT ![p] = Idle]

Fails(p) ==
  IF work[p].call = "init"
  THEN work' = [work EXCEPT ![p] = Abandoning]
  ELSE Returns(p)

Fault == faults < MaxFaults /\ faults' = faults + 1

-----------------------------------------------------------------------------
(* initialize, with the lease held.                                        *)

\* A missing file is created with the first revision; a file whose journal is
\* refused is not opened.
Load(p) ==
  /\ At(p, "unloaded")
  /\ IF disk.revision = 0
     THEN Starts(p, "leasing", "init", NoOp, 0) /\ UNCHANGED payload
     ELSE IF Rebuilds(disk)
     THEN payload' = [payload EXCEPT ![p] = disk] /\ Returns(p)
     ELSE Starts(p, "abandoning", "none", NoOp, 0) /\ UNCHANGED payload
  /\ UNCHANGED <<leaseVars, disk, fenced, ledger, files, acked, overtaken, faults>>

LoadFails(p) ==
  /\ At(p, "unloaded")
  /\ Fault
  /\ Starts(p, "abandoning", "none", NoOp, 0)
  /\ UNCHANGED <<leaseVars, disk, payload, fenced, ledger, files, acked, overtaken>>

AbandonOpen(p) ==
  /\ At(p, "abandoning")
  /\ Abandon(p)
  /\ Starts(p, "unloaded", "none", NoOp, 0)
  /\ fenced' = fenced \ {p}
  /\ UNCHANGED <<disk, payload, ledger, files, acked, overtaken, faults>>

-----------------------------------------------------------------------------
(* The calls.  Each is refused, or answered from the copy, or writes.      *)

\* The evaluations of a session are evaluated in its openings.
Evaluates(p, o) == OpenSession[p] = OpSession[o]

\* prepareStore, prepareForget: a known operation is returned as it stands.
CallPrepare(p, o) ==
  /\ Evaluates(p, o)
  /\ MayWrite(p)
  /\ payload[p].status[o] = "unknown"
  /\ ~Driver(payload[p])!PrepareThrows(o)
  /\ Starts(p, "leasing", "prepare", o, 0)
  /\ UNCHANGED <<leaseVars, disk, payload, fenced, ledger, files, acked, overtaken, faults>>

\* The caller appends the row of a prepared operation.  It has just asked for
\* the status, and nothing but promise callbacks lies between the answer and
\* the append: the driver that gave it cannot have gone through a call since.
Commit(p, o) ==
  /\ Evaluates(p, o)
  /\ Ready(p)
  /\ payload[p].status[o] = "prepared"
  /\ ~Contains(ledger, o)
  /\ ledger' = Append(ledger, o)
  /\ UNCHANGED <<leaseVars, disk, payload, work, fenced, files, acked, overtaken, faults>>

\* finalize, or reconcile with the row of the operation.
CallFinalize(p, o) ==
  /\ Evaluates(p, o)
  /\ MayWrite(p)
  /\ Contains(ledger, o)
  /\ payload[p].status[o] = "prepared"
  /\ Starts(p, "leasing", "finalize", o, TickOf(o))
  /\ UNCHANGED <<leaseVars, disk, payload, fenced, ledger, files, acked, overtaken, faults>>

\* finalize, reconcile or status of a finalized operation renders it again.
CallRepeat(p, o) ==
  /\ Evaluates(p, o)
  /\ Ready(p)
  /\ payload[p].status[o] = "finalized"
  /\ Starts(p, "rendering", "finalize", o, TickOf(o))
  /\ UNCHANGED <<leaseVars, disk, payload, fenced, ledger, files, acked, overtaken, faults>>

\* The caller aborts only what it has not committed.
CallAbort(p, o) ==
  /\ Evaluates(p, o)
  /\ MayWrite(p)
  /\ ~Contains(ledger, o)
  /\ payload[p].status[o] = "prepared"
  /\ Starts(p, "leasing", "abort", o, 0)
  /\ UNCHANGED <<leaseVars, disk, payload, fenced, ledger, files, acked, overtaken, faults>>

Close(p) ==
  /\ phase[p] = "held"
  /\ work[p] = Idle
  /\ Release(p)
  /\ payload' = [payload EXCEPT ![p] = InitialPayload]
  /\ fenced' = fenced \ {p}
  /\ UNCHANGED <<disk, work, ledger, files, acked, overtaken, faults>>

-----------------------------------------------------------------------------
(* persistNext.                                                            *)

\* assertLeaseOwnership
CheckLease(p) ==
  /\ At(p, "leasing")
  /\ IF lock = p THEN Steps(p, "comparing") ELSE Fails(p)
  /\ UNCHANGED <<leaseVars, disk, payload, fenced, ledger, files, acked, overtaken, faults>>

AlwaysUnchanged(p) == TRUE   \* mutant

\* The file must be the revision the copy was taken from.
Unchanged(p) == disk = payload[p]

CheckRevision(p) ==
  /\ At(p, "comparing")
  /\ IF Unchanged(p) THEN Steps(p, "writing") ELSE Fails(p)
  /\ UNCHANGED <<leaseVars, disk, payload, fenced, ledger, files, acked, overtaken, faults>>

NextRevision(p) == Revised(payload[p], work[p].call, work[p].op, work[p].tick)

\* The driver refuses every later call: it may not know what the file holds.
Fences(p) == fenced' = fenced \cup {p}

\* What was compared by another process before this write is out of date.
Overtakes(p) ==
  overtaken' = (overtaken \cup {q \in Opens : At(q, "writing")}) \ {p}

\* The call goes on to render a finalized mutation, or returns.
Written(p) ==
  IF work[p].call = "finalize" THEN Steps(p, "rendering") ELSE Returns(p)

\* The copy becomes what was written.
Adopts(p) == payload' = [payload EXCEPT ![p] = NextRevision(p)]

Rename(p) ==
  /\ At(p, "writing")
  /\ disk' = NextRevision(p)
  /\ Adopts(p)
  /\ Overtakes(p)
  /\ Written(p)
  /\ UNCHANGED <<leaseVars, fenced, ledger, files, acked, faults>>

\* A failure before the rename: the file does not hold the new revision.
RenameFails(p) ==
  /\ At(p, "writing")
  /\ Fault
  /\ Fences(p)
  /\ overtaken' = overtaken \ {p}
  /\ Fails(p)
  /\ UNCHANGED <<leaseVars, disk, payload, ledger, files, acked>>

\* A failure after the rename, of the directory sync.
SyncFails(p) ==
  /\ At(p, "writing")
  /\ Fault
  /\ disk' = NextRevision(p)
  /\ Overtakes(p)
  /\ Steps(p, "observing")
  /\ UNCHANGED <<leaseVars, payload, fenced, ledger, files, acked>>

\* The file is read again: what it holds decides.
Observe(p) ==
  /\ At(p, "observing")
  /\ IF disk = NextRevision(p)
     THEN /\ Adopts(p)
          /\ Written(p)
          /\ UNCHANGED fenced
     ELSE /\ Fences(p)
          /\ Fails(p)
          /\ UNCHANGED payload
  /\ UNCHANGED <<leaseVars, disk, ledger, files, acked, overtaken, faults>>

ObserveFails(p) ==
  /\ At(p, "observing")
  /\ Fault
  /\ Fences(p)
  /\ Fails(p)
  /\ UNCHANGED <<leaseVars, disk, payload, ledger, files, acked, overtaken>>

-----------------------------------------------------------------------------
(* ensureProjection.                                                       *)

Generations(r, gen) ==
  IF gen + 1 \in DOMAIN files[r] THEN files[r]
  ELSE files[r] \o [i \in 1 .. (gen + 1 - Len(files[r])) |-> Gen0]

\* mutant: a file that is there is not written again.
RenderedOnce(p, r) ==
  LET region == payload[p].regions[r]
  IN IF region.generation + 1 \in DOMAIN files[r] THEN files[r]
     ELSE [Generations(r, region.generation) EXCEPT ![region.generation + 1] = region]

\* The file of the current generation gets the canonical state of the region.
Rendered(p, r) ==
  LET region == payload[p].regions[r]
  IN [Generations(r, region.generation) EXCEPT ![region.generation + 1] = region]

\* First the journal is built anew from what was written.
Render(p) ==
  /\ At(p, "rendering")
  /\ IF Rebuilds(payload[p])
     THEN /\ files' = [files EXCEPT ![OpRegion[work[p].op]] = Rendered(p, OpRegion[work[p].op])]
          /\ acked' = acked \cup {work[p].op}
          /\ UNCHANGED fenced
     ELSE /\ Fences(p)
          /\ UNCHANGED <<files, acked>>
  /\ Returns(p)
  /\ UNCHANGED <<leaseVars, disk, payload, ledger, overtaken, faults>>

\* The call throws though its mutation is durable.
RenderFails(p) ==
  /\ At(p, "rendering")
  /\ Fault
  /\ Returns(p)
  /\ UNCHANGED <<leaseVars, disk, payload, fenced, ledger, files, acked, overtaken>>

-----------------------------------------------------------------------------
(* Crashes, and the steps of the lease.                                    *)

Crash(p) ==
  /\ CrashLease(p)
  /\ payload' = [payload EXCEPT ![p] = InitialPayload]
  /\ Starts(p, "unloaded", "none", NoOp, 0)
  /\ fenced' = fenced \ {p}
  /\ overtaken' = overtaken \ {p}
  /\ UNCHANGED <<disk, ledger, files, acked, faults>>

Persist(p) ==
  \/ CheckLease(p) \/ CheckRevision(p)
  \/ Rename(p) \/ RenameFails(p) \/ SyncFails(p)
  \/ Observe(p) \/ ObserveFails(p)
  \/ Render(p) \/ RenderFails(p)

Call(p) ==
  \E o \in Ops :
    CallPrepare(p, o) \/ Commit(p, o) \/ CallFinalize(p, o) \/ CallRepeat(p, o) \/ CallAbort(p, o)

Next ==
  \E p \in Opens :
    \/ AcquireStep(p) /\ UNCHANGED journalVars
    \/ ReleaseUnlinks(p) /\ UNCHANGED journalVars
    \/ Load(p) \/ LoadFails(p) \/ AbandonOpen(p)
    \/ Call(p)
    \/ Persist(p)
    \/ Close(p)
    \/ Crash(p)

Spec == Init /\ [][Next]_vars

-----------------------------------------------------------------------------
Payload ==
  [revision : 0 .. MaxRevision, regions : [Regions -> Driver(disk)!RegionState],
   status : [Ops -> {"unknown", "prepared", "finalized"}],
   stage : [Ops -> Driver(disk)!Stage], ledger : [Ops -> Nat]]

Works ==
  [step : {"unloaded", "abandoning", "idle", "leasing", "comparing", "writing",
           "observing", "rendering"},
   call : {"none", "init", "prepare", "finalize", "abort"},
   op : Ops \cup {NoOp}, tick : Nat]

\* The state is well typed; an operation of the file is unknown, prepared or
\* finalized, so that an aborted one can be prepared again.
TypeOK ==
  /\ LeaseTypeOK
  /\ disk \in Payload
  /\ payload \in [Opens -> Payload]
  /\ work \in [Opens -> Works]
  /\ fenced \subseteq Opens
  /\ ledger \in Seq(Ops)
  /\ files \in [Regions -> Seq(Driver(disk)!RegionState)]
  /\ acked \subseteq Ops
  /\ overtaken \subseteq Opens
  /\ faults \in 0 .. MaxFaults

\* While the lease is exclusive, a driver that accepts calls answers them from
\* the state of the file: whatever failed or crashed, it either adopted what it
\* wrote, or wrote nothing, or is fenced.
CopyIsCurrent == ~raced => \A p \in Opens : Ready(p) => payload[p] = disk

\* While the lease is exclusive, what the ledger has committed is in the file
\* across every crash and restart: finalized with its own row, or prepared with
\* the very stage it has on the state it will be finalized on.
CommittedIsDurable ==
  ~raced =>
    \A o \in Range(ledger) :
      \/ disk.status[o] = "finalized" /\ disk.ledger[o] = TickOf(o)
      \/ disk.status[o] = "prepared" /\ disk.stage[o] = FreshStage(disk, o)

\* Even with two holders, a process that is about to replace the file replaces
\* the revision it started from, unless another wrote between its look at the
\* file and its rename.
ReplacesItsBase ==
  \A p \in Opens : At(p, "writing") /\ p \notin overtaken => disk = payload[p]

\* The lease guards the file against stale copies: an open driver is the one
\* the lock names and has the file in its copy, and whoever writes replaces what
\* it read, as long as nothing but the known window of the lease is hit.
LeaseGuardsCopy == HolderHasLease /\ CopyIsCurrent /\ ReplacesItsBase

\* The latest finalized operation of a region.
LastOf(r) ==
  LET done == {o \in Ops : OpRegion[o] = r /\ disk.status[o] = "finalized"}
  IN {o \in done : \A q \in done : disk.ledger[q] <= disk.ledger[o]}

\* While the lease is exclusive, a region whose latest mutation was reported
\* finalized is rendered as it is: a receipt means the Markdown file is current.
ReceiptMeansRendered ==
  ~raced =>
    \A r \in Regions, o \in acked :
      o \in LastOf(r) =>
        LET g == disk.regions[r].generation + 1
        IN g \in DOMAIN files[r] /\ files[r][g] = disk.regions[r]

\* The ticks of two sessions meet in the file: a session counts its rows from
\* one, whatever another has stored in the same directory.
SharesTick(pl) ==
  \E o, q \in Ops :
    /\ OpSession[o] # OpSession[q]
    /\ pl.status[o] = "finalized" /\ pl.status[q] = "finalized"
    /\ pl.ledger[o] = pl.ledger[q]

\* While the lease is exclusive, the file is one that the next process can
\* load, after every write of every call and across every restart, except when
\* it shows operations of two sessions at one tick; and then it never is.
FileReopens == ~raced => (Rebuilds(disk) <=> ~SharesTick(disk))

\* Neither crash nor failure undoes what was reported: a committed mutation is
\* in the file, nothing but a tick of two sessions keeps the next process from
\* loading it, and a receipt means that its region is rendered.
ReportedIsOnDisk ==
  TypeOK /\ CommittedIsDurable /\ FileReopens /\ ReceiptMeansRendered

\* Durable cells survive close and restart: without any failure, what a
\* session was told to be finalized can be read by the process that opens the
\* directory next, which the memory chapter of SPEC.md says of `durable`.
DurableSurvivesRestart == ~raced /\ acked # {} => Rebuilds(disk)

\* The file and the ledger implement the abstract named memory: rows are
\* committed one by one per region, and the file shows them in ledger order,
\* across crashes, restarts and failed writes.
Abstract ==
  INSTANCE NamedMemory WITH
    rows <- ledger,
    shown <- {o \in Ops : disk.status[o] = "finalized"},
    memory <- disk.regions

ImplementsNamedMemory ==
  Abstract!Init /\ [][raced' \/ Abstract!Next]_(Abstract!memoryVars)
=============================================================================
