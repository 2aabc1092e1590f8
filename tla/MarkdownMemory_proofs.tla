------------------------ MODULE MarkdownMemory_proofs ------------------------
(***************************************************************************)
(* Proofs about MarkdownMemory and the WriterLease it extends, for all     *)
(* openings, regions, operations and bounds, with or without the timing    *)
(* assumption.  The driver moves its lease as WriterLease says, so what is *)
(* proved of the lease holds of it; the comparison before a write is what  *)
(* protects the file when the lease does not.  Then, while the lease is    *)
(* exclusive: what was committed stays in the file, which implements the   *)
(* abstract named memory and can be loaded again, and receipts are         *)
(* rendered.                                                               *)
(***************************************************************************)
EXTENDS MarkdownMemory, FiniteSetTheorems, SequenceTheorems, NaturalsInduction, WellFoundedInduction,
        TLAPS

-----------------------------------------------------------------------------
(* The lease is taken over only from a process that was found dead, and    *)
(* the dead stay dead; so, while every removal is of the lease that was    *)
(* examined, no live holder ever loses its lease.                          *)

Candidates ==
  {p \in Opens : phase[p] \in {"waiting", "listing", "electing", "taking", "relinking",
                               "settling", "withdrawing"}}

\* Whoever takes part in the election of a lease has found its owner dead.
StaleIsDead == \A p \in Candidates : stale[p] \in Opens /\ phase[stale[p]] = "dead"

\* A lease that is being examined belongs to some opening.
ExaminesALease == \A p \in Opens : phase[p] = "contending" => stale[p] \in Opens

IInv == LeaseTypeOK /\ StaleIsDead /\ ExaminesALease /\ HolderHasLease

-----------------------------------------------------------------------------
\* The parts that do not depend on what the lock holds.
LEMMA TypeStep == IInv /\ [LeaseNext]_leaseVars => LeaseTypeOK' /\ ExaminesALease'
<1> SUFFICES ASSUME IInv, [LeaseNext]_leaseVars PROVE LeaseTypeOK' /\ ExaminesALease'
  OBVIOUS
<1> USE LeaseAssumption DEF IInv, LeaseTypeOK, ExaminesALease, StaleIsDead, Candidates
<1>1. CASE UNCHANGED leaseVars
  BY <1>1 DEF leaseVars
<1>2. CASE LeaseNext
  <2> PICK p \in Opens :
        AcquireStep(p) \/ Release(p) \/ ReleaseUnlinks(p) \/ Abandon(p) \/ CrashLease(p)
    BY <1>2 DEF LeaseNext
  <2>1. CASE Acquire(p)
    BY <2>1 DEF Acquire, Goes, Phases, NoOne
  <2>2. CASE ReadLock(p)
    BY <2>2 DEF ReadLock, Goes, Ends, Phases, NoOne
  <2>3. CASE Contend(p)
    BY <2>3 DEF Contend, Goes, Ends, Phases, NoOne, Claim
  <2>4. CASE Waited(p)
    BY <2>4 DEF Waited, Goes, Phases
  <2>5. CASE ListClaims(p)
    BY <2>5 DEF ListClaims, Goes, Phases
  <2>6. CASE Elect(p)
    BY <2>6 DEF Elect, Goes, Phases, DeadClaims
  <2>7. CASE TakeOver(p)
    BY <2>7 DEF TakeOver, Removes, Goes, Phases, NoOne
  <2>8. CASE Relink(p)
    BY <2>8 DEF Relink, Goes, Phases, NoOne
  <2>9. CASE DropClaim(p)
    BY <2>9 DEF DropClaim, Goes, Ends, Phases, NoOne
  <2>10. CASE Release(p)
    BY <2>10 DEF Release, Goes, Phases
  <2>11. CASE ReleaseUnlinks(p)
    BY <2>11 DEF ReleaseUnlinks, Removes, Goes, Phases, NoOne
  <2>12. CASE Abandon(p)
    BY <2>12 DEF Abandon, Removes, Goes, Phases, NoOne
  <2>13. CASE CrashLease(p)
    BY <2>13 DEF CrashLease, Goes, Ends, Phases, NoOne
  <2>14. QED
    BY <2>1, <2>2, <2>3, <2>4, <2>5, <2>6, <2>7, <2>8, <2>9, <2>10, <2>11, <2>12, <2>13
       DEF AcquireStep
<1>3. QED
  BY <1>1, <1>2

\* A claim is published on a lease whose owner was found dead, and no process
\* comes back from the dead.
LEMMA StaleStep == IInv /\ [LeaseNext]_leaseVars => StaleIsDead'
<1> SUFFICES ASSUME IInv, [LeaseNext]_leaseVars PROVE StaleIsDead'
  OBVIOUS
<1> USE LeaseAssumption DEF IInv, LeaseTypeOK, ExaminesALease, StaleIsDead, Candidates
<1>1. CASE UNCHANGED leaseVars
  BY <1>1 DEF leaseVars
<1>2. CASE LeaseNext
  <2> PICK p \in Opens :
        AcquireStep(p) \/ Release(p) \/ ReleaseUnlinks(p) \/ Abandon(p) \/ CrashLease(p)
    BY <1>2 DEF LeaseNext
  <2>1. CASE Acquire(p)
    <3>1. \A q \in Candidates' : q \in Candidates /\ stale'[q] = stale[q]
      BY <2>1 DEF Acquire, Goes, Phases, NoOne
    <3>2. \A d \in Opens : phase[d] = "dead" => phase'[d] = "dead"
      BY <2>1 DEF Acquire, Goes, Phases, NoOne
    <3>3. QED
      BY <3>1, <3>2
  <2>2. CASE ReadLock(p)
    <3>1. \A q \in Candidates' : q \in Candidates /\ stale'[q] = stale[q]
      BY <2>2 DEF ReadLock, Goes, Ends, Phases, NoOne
    <3>2. \A d \in Opens : phase[d] = "dead" => phase'[d] = "dead"
      BY <2>2 DEF ReadLock, Goes, Ends, Phases, NoOne
    <3>3. QED
      BY <3>1, <3>2
  <2>3. CASE Contend(p)
    <3>1. \A d \in Opens : phase[d] = "dead" => phase'[d] = "dead"
      BY <2>3 DEF Contend, Goes, Ends, Phases
    <3>2. \A q \in Candidates' \ {p} : q \in Candidates /\ stale'[q] = stale[q]
      BY <2>3 DEF Contend, Goes, Ends, Phases
    <3>3. p \in Candidates' => stale'[p] \in Opens /\ phase[stale'[p]] = "dead"
      BY <2>3 DEF Contend, Goes, Ends, Phases, Alive
    <3>4. ASSUME NEW q \in Candidates' PROVE stale'[q] \in Opens /\ phase'[stale'[q]] = "dead"
      <4>1. CASE q = p
        BY <3>1, <3>3, <3>4, <4>1
      <4>2. CASE q # p
        BY <3>1, <3>2, <3>4, <4>2
      <4>3. QED
        BY <4>1, <4>2
    <3>5. QED
      BY <3>4
  <2>4. CASE Waited(p)
    <3>1. \A q \in Candidates' : q \in Candidates /\ stale'[q] = stale[q]
      BY <2>4 DEF Waited, Goes, Phases, NoOne
    <3>2. \A d \in Opens : phase[d] = "dead" => phase'[d] = "dead"
      BY <2>4 DEF Waited, Goes, Phases, NoOne
    <3>3. QED
      BY <3>1, <3>2
  <2>5. CASE ListClaims(p)
    BY <2>5 DEF ListClaims, Goes, Phases
  <2>6. CASE Elect(p)
    BY <2>6 DEF Elect, Goes, Phases
  <2>7. CASE TakeOver(p)
    BY <2>7 DEF TakeOver, Goes, Phases, Removes, NoOne
  <2>8. CASE Relink(p)
    BY <2>8 DEF Relink, Goes, Phases, NoOne
  <2>9. CASE DropClaim(p)
    BY <2>9 DEF DropClaim, Goes, Phases, Ends
  <2>10. CASE Release(p)
    BY <2>10 DEF Release, Goes, Phases
  <2>11. CASE ReleaseUnlinks(p)
    BY <2>11 DEF ReleaseUnlinks, Goes, Phases, Removes
  <2>12. CASE Abandon(p)
    BY <2>12 DEF Abandon, Goes, Phases, Removes
  <2>13. CASE CrashLease(p)
    BY <2>13 DEF CrashLease, Goes, Phases, Ends
  <2>14. QED
    BY <2>1, <2>2, <2>3, <2>4, <2>5, <2>6, <2>7, <2>8, <2>9, <2>10, <2>11, <2>12, <2>13
       DEF AcquireStep
<1>3. QED
  BY <1>1, <1>2

\* The lock is linked only while it is absent, and removed by its own holder or,
\* while no removal is misdirected, from a dead one.
LEMMA HolderStep == IInv /\ [LeaseNext]_leaseVars => HolderHasLease'
<1> SUFFICES ASSUME IInv, [LeaseNext]_leaseVars PROVE HolderHasLease'
  OBVIOUS
<1> USE LeaseAssumption DEF IInv, LeaseTypeOK, ExaminesALease, StaleIsDead, Candidates, HolderHasLease, Holders
<1>1. CASE UNCHANGED leaseVars
  BY <1>1 DEF leaseVars
<1>2. CASE LeaseNext
  <2> PICK p \in Opens :
        AcquireStep(p) \/ Release(p) \/ ReleaseUnlinks(p) \/ Abandon(p) \/ CrashLease(p)
    BY <1>2 DEF LeaseNext
  <2>1. CASE Acquire(p)
    BY <2>1 DEF Acquire, Goes, Phases, NoOne
  <2>2. CASE ReadLock(p)
    BY <2>2 DEF ReadLock, Goes, Phases, Ends, NoOne
  <2>3. CASE Contend(p)
    BY <2>3 DEF Contend, Goes, Phases, Ends, Claim, Alive
  <2>4. CASE Waited(p)
    BY <2>4 DEF Waited, Goes, Phases
  <2>5. CASE ListClaims(p)
    BY <2>5 DEF ListClaims, Goes, Phases
  <2>6. CASE Elect(p)
    BY <2>6 DEF Elect, Goes, Phases
  <2>7. CASE TakeOver(p)
    BY <2>7 DEF TakeOver, Goes, Phases, Removes, NoOne
  <2>8. CASE Relink(p)
    BY <2>8 DEF Relink, Goes, Phases, NoOne
  <2>9. CASE DropClaim(p)
    BY <2>9 DEF DropClaim, Goes, Phases, Ends
  <2>10. CASE Release(p)
    BY <2>10 DEF Release, Goes, Phases
  <2>11. CASE ReleaseUnlinks(p)
    BY <2>11 DEF ReleaseUnlinks, Goes, Phases, Removes
  <2>12. CASE Abandon(p)
    BY <2>12 DEF Abandon, Goes, Phases, Removes
  <2>13. CASE CrashLease(p)
    BY <2>13 DEF CrashLease, Goes, Phases, Ends
  <2>14. QED
    BY <2>1, <2>2, <2>3, <2>4, <2>5, <2>6, <2>7, <2>8, <2>9, <2>10, <2>11, <2>12, <2>13
       DEF AcquireStep
<1>3. QED
  BY <1>1, <1>2

-----------------------------------------------------------------------------
\* While nobody removes a lease it has not examined, every process that holds
\* the lease is the one writer.lock names.
THEOREM LeaseIsHeld == LeaseSpec => []HolderHasLease
<1>1. LeaseInit => IInv
  BY LeaseAssumption
     DEF LeaseInit, IInv, LeaseTypeOK, StaleIsDead, Candidates, ExaminesALease, HolderHasLease,
         Holders, Phases, NoOne
<1>2. IInv /\ [LeaseNext]_leaseVars => IInv'
  BY TypeStep, StaleStep, HolderStep DEF IInv
<1>3. IInv => HolderHasLease
  BY DEF IInv
<1>4. QED
  BY <1>1, <1>2, <1>3, PTL DEF LeaseSpec

\* The lease is exclusive for as long as no takeover or close removes a lease
\* other than the one it examined.
THEOREM ExclusiveUnlessRaced == LeaseSpec => [](~raced => ExclusiveLease)
<1>1. HolderHasLease => (~raced => ExclusiveLease)
  BY DEF HolderHasLease, ExclusiveLease
<1>2. QED
  BY <1>1, LeaseIsHeld, PTL
-----------------------------------------------------------------------------
(* The driver and its lease.                                               *)

\* Every step of the driver is a step of the lease or leaves it alone.
LEMMA LeaseStep == [Next]_vars => [LeaseNext]_leaseVars
<1> SUFFICES ASSUME [Next]_vars PROVE [LeaseNext]_leaseVars
  OBVIOUS
<1>1. CASE UNCHANGED vars
  BY <1>1 DEF vars
<1>2. CASE Next
  <2> PICK p \in Opens :
        \/ AcquireStep(p) /\ UNCHANGED journalVars
        \/ ReleaseUnlinks(p) /\ UNCHANGED journalVars
        \/ Load(p) \/ LoadFails(p) \/ AbandonOpen(p)
        \/ Call(p)
        \/ Persist(p)
        \/ Close(p)
        \/ Crash(p)
    BY <1>2 DEF Next
  <2>1. CASE AcquireStep(p) \/ ReleaseUnlinks(p) \/ AbandonOpen(p) \/ Close(p) \/ Crash(p)
    BY <2>1 DEF LeaseNext, AbandonOpen, Close, Crash
  <2>2. CASE Load(p) \/ LoadFails(p)
    BY <2>2 DEF Load, LoadFails
  <2>3. CASE Call(p)
    BY <2>3 DEF Call, CallPrepare, Commit, CallFinalize, CallRepeat, CallAbort
  <2>4. CASE Persist(p)
    BY <2>4 DEF Persist, CheckLease, CheckRevision, Rename, RenameFails, SyncFails,
                Observe, ObserveFails, Render, RenderFails
  <2>5. QED
    BY <2>1, <2>2, <2>3, <2>4
<1>3. QED
  BY <1>1, <1>2

\* The driver uses the lease as its protocol prescribes.
THEOREM UsesLease == Spec => LeaseSpec
<1>1. Init => LeaseInit
  BY DEF Init
<1>2. QED
  BY <1>1, LeaseStep, PTL DEF Spec, LeaseSpec

\* While nobody removes a lease it has not examined, an open driver is the one
\* writer.lock names.
THEOREM DriverHasLease == Spec => []HolderHasLease
BY UsesLease, LeaseIsHeld, PTL

-----------------------------------------------------------------------------
(* The shape of a payload, and what a call does to its revision.           *)

Shape(pl) ==
  /\ pl = [revision |-> pl.revision, regions |-> pl.regions, status |-> pl.status,
           stage |-> pl.stage, ledger |-> pl.ledger]
  /\ pl.revision \in Nat

Writing == {"init", "prepare", "finalize", "abort"}

LEMMA RevisedShape ==
  ASSUME NEW pl, NEW call \in Writing, NEW o, NEW tick, Shape(pl)
  PROVE  Shape(Revised(pl, call, o, tick)) /\ Revised(pl, call, o, tick).revision # 0
<1>1. ASSUME NEW q, Shape(q)
      PROVE  Shape([q EXCEPT !.revision = @ + 1]) /\ [q EXCEPT !.revision = @ + 1].revision # 0
  BY <1>1 DEF Shape
<1>2. Shape(Staged(pl, o)) /\ Shape(Finalized(pl, o, tick)) /\ Shape(Unstaged(pl, o))
  <2>1. ASSUME NEW q, Shape(q), NEW a, NEW b, NEW c, NEW d
        PROVE  /\ Shape([[q EXCEPT !.status = a] EXCEPT !.stage = b])
               /\ Shape([[[q EXCEPT !.status = a] EXCEPT !.ledger = c] EXCEPT !.regions = d])
    <3>1. ASSUME NEW x, Shape(x), NEW v
          PROVE  /\ Shape([x EXCEPT !.status = v])
                 /\ Shape([x EXCEPT !.stage = v])
                 /\ Shape([x EXCEPT !.ledger = v])
                 /\ Shape([x EXCEPT !.regions = v])
      <4>1. Shape([x EXCEPT !.status = v])
        BY <3>1 DEF Shape
      <4>2. Shape([x EXCEPT !.stage = v])
        BY <3>1 DEF Shape
      <4>3. Shape([x EXCEPT !.ledger = v])
        BY <3>1 DEF Shape
      <4>4. Shape([x EXCEPT !.regions = v])
        BY <3>1 DEF Shape
      <4>5. QED
        BY <4>1, <4>2, <4>3, <4>4
    <3>2. QED
      BY <2>1, <3>1
  <2>2. Shape(Staged(pl, o))
    BY <2>1 DEF Staged
  <2>3. Shape(Finalized(pl, o, tick))
    BY <2>1 DEF Finalized
  <2>4. Shape(Unstaged(pl, o))
    BY <2>1 DEF Unstaged
  <2>5. QED
    BY <2>2, <2>3, <2>4
<1>3. CASE call = "init"
  BY <1>1, <1>3 DEF Revised
<1>4. CASE call = "prepare"
  BY <1>1, <1>2, <1>4 DEF Revised
<1>5. CASE call = "finalize"
  BY <1>1, <1>2, <1>5 DEF Revised
<1>6. CASE call = "abort"
  BY <1>1, <1>2, <1>6 DEF Revised
<1>7. QED
  BY <1>3, <1>4, <1>5, <1>6 DEF Writing

-----------------------------------------------------------------------------
(* The journal invariant.                                                  *)

Ticks == Nat

JWorks ==
  [step : {"unloaded", "abandoning", "idle", "leasing", "comparing", "writing",
           "observing", "rendering"},
   call : {"none", "init", "prepare", "finalize", "abort"},
   op : Ops \cup {NoOp}, tick : Ticks]

JType == work \in [Opens -> JWorks] /\ ledger \in Seq(Ops)

LEMMA TickZero == 0 \in Ticks
BY DEF Ticks

\* The row of an operation has a number.
LEMMA TickInNat == ASSUME ledger \in Seq(Ops), NEW o PROVE TickOf(o) \in Ticks
<1>1. CASE Contains(ledger, o)
  <2> DEFINE i == CHOOSE k \in DOMAIN ledger : ledger[k] = o
  <2>1. PICK k \in 1 .. Len(ledger) : ledger[k] = o
    BY <1>1 DEF Contains
  <2>2. i \in Nat
    BY <2>1
  <2> HIDE DEF i
  <2>3. IsFiniteSet(1 .. i)
    BY <2>2, FS_Interval
  <2>4. IsFiniteSet({j \in 1 .. i : OpSession[ledger[j]] = OpSession[ledger[i]]})
    BY <2>3, FS_Subset
  <2>5. TickAt(i) \in Nat
    BY <2>4, FS_CardinalityType DEF TickAt
  <2>6. QED
    BY <1>1, <2>5 DEF TickOf, Ticks, i
<1>2. CASE ~Contains(ledger, o)
  BY <1>2 DEF TickOf, Ticks
<1>3. QED
  BY <1>1, <1>2

-----------------------------------------------------------------------------
(* What the steps of a call do to the work of its process, field by field. *)

StepNames ==
  {"unloaded", "abandoning", "idle", "leasing", "comparing", "writing", "observing", "rendering"}

CallNames == {"none", "init", "prepare", "finalize", "abort"}

\* The work of p becomes a record with these fields, and only its work changes.
Becomes(p, step, call, o, tick) ==
  /\ work' \in [Opens -> JWorks]
  /\ \A q \in Opens \ {p} : work'[q] = work[q]
  /\ work'[p].step = step
  /\ work'[p].call = call
  /\ work'[p].op = o
  /\ work'[p].tick = tick

LEMMA StartsTo ==
  ASSUME JType, NEW p \in Opens, NEW step \in StepNames, NEW call \in CallNames,
         NEW o \in Ops \cup {NoOp}, NEW tick \in Ticks, Starts(p, step, call, o, tick)
  PROVE  Becomes(p, step, call, o, tick)
BY DEF Starts, JType, JWorks, StepNames, CallNames, Becomes

LEMMA StepsTo ==
  ASSUME JType, NEW p \in Opens, NEW step \in StepNames, Steps(p, step)
  PROVE  Becomes(p, step, work[p].call, work[p].op, work[p].tick)
BY DEF Steps, JType, JWorks, StepNames, Becomes

LEMMA ReturnsTo ==
  ASSUME JType, NEW p \in Opens, Returns(p)
  PROVE  Becomes(p, "idle", "none", NoOp, 0)
BY TickZero DEF Returns, Idle, JType, JWorks, Becomes

LEMMA FailsTo ==
  ASSUME JType, NEW p \in Opens, Fails(p)
  PROVE  /\ work[p].call = "init" => Becomes(p, "abandoning", "none", NoOp, 0)
         /\ work[p].call # "init" => Becomes(p, "idle", "none", NoOp, 0)
<1>1. CASE work[p].call = "init"
  BY <1>1, TickZero DEF Fails, Abandoning, JType, JWorks, Becomes
<1>2. CASE work[p].call # "init"
  BY <1>2, ReturnsTo DEF Fails
<1>3. QED
  BY <1>1, <1>2

\* The copies are a function on the openings.
CopiesOK == payload = [p \in Opens |-> payload[p]]

LEMMA StillAFunction ==
  ASSUME NEW f, f = [x \in Opens |-> f[x]], NEW a \in Opens, NEW v
  PROVE  [f EXCEPT ![a] = v] = [x \in Opens |-> [f EXCEPT ![a] = v][x]]
OBVIOUS

\* The first revision is written from an empty copy, and only a process that
\* holds the lease is inside a call.
WorkAt(p) ==
  /\ phase[p] \notin {"held", "releasing", "released"} => work[p].step = "unloaded"
  /\ phase[p] \in {"releasing", "released"} => work[p].step = "idle"
  /\ work[p].step \in {"leasing", "comparing", "writing", "observing"} => work[p].call \in Writing
  /\ work[p].step \in {"unloaded", "abandoning"} \/ work[p].call = "init" =>
       payload[p] = InitialPayload
  /\ work[p].step = "rendering" => work[p].call # "init"

WorkOK == \A p \in Opens : WorkAt(p)

ShapeOK ==
  /\ Shape(disk)
  /\ \A p \in Opens : Shape(payload[p])
  /\ disk.revision = 0 => disk = InitialPayload

\* A copy is the file at every point of a call, except for one whose write is
\* in doubt: if it is not the copy, it is what the call was writing.
CurrentAt(p) ==
  phase[p] = "held" /\ p \notin fenced =>
    /\ work[p].step \in {"idle", "leasing", "comparing", "writing", "rendering"} =>
         payload[p] = disk
    /\ work[p].step = "observing" => disk = NextRevision(p)

Current == ~raced => \A p \in Opens : CurrentAt(p)

\* A process that has compared its copy with the file writes over that copy,
\* unless it was overtaken.
BasedAt(p) ==
  phase[p] = "held" /\ work[p].step = "writing" /\ p \notin overtaken => disk = payload[p]

Based == \A p \in Opens : BasedAt(p)

JInv == JType /\ CopiesOK /\ WorkOK /\ ShapeOK /\ Current /\ Based

\* What the steps of an opening do to the state the journal looks at.
LEMMA AcquireSteps ==
  ASSUME LeaseTypeOK, NEW p \in Opens, AcquireStep(p)
  PROVE  /\ phase[p] \notin {"held", "releasing", "released"}
         /\ phase'[p] \notin {"releasing", "released"}
         /\ \A q \in Opens \ {p} : phase'[q] = phase[q]
         /\ raced => raced'
<1> USE DEF LeaseTypeOK, Goes, Ends, Phases
<1>1. CASE Acquire(p)
  BY <1>1 DEF Acquire
<1>2. CASE ReadLock(p)
  BY <1>2 DEF ReadLock
<1>3. CASE Contend(p)
  BY <1>3 DEF Contend
<1>4. CASE Waited(p)
  BY <1>4 DEF Waited
<1>5. CASE ListClaims(p)
  BY <1>5 DEF ListClaims
<1>6. CASE Elect(p)
  BY <1>6 DEF Elect
<1>7. CASE TakeOver(p)
  BY <1>7 DEF TakeOver, Removes
<1>8. CASE Relink(p)
  BY <1>8 DEF Relink
<1>9. CASE DropClaim(p)
  BY <1>9 DEF DropClaim
<1>10. QED
  BY <1>1, <1>2, <1>3, <1>4, <1>5, <1>6, <1>7, <1>8, <1>9 DEF AcquireStep

LEMMA InitialShape == Shape(InitialPayload)
BY DEF InitialPayload, Shape

LEMMA NextShape ==
  ASSUME JInv, NEW p \in Opens, work[p].step \in {"writing", "observing"}
  PROVE  Shape(NextRevision(p)) /\ NextRevision(p).revision # 0
BY RevisedShape DEF JInv, ShapeOK, WorkOK, WorkAt, NextRevision

\* The control state is well typed.
LEMMA JTypeStep == IInv /\ JInv /\ [Next]_vars => JType'
<1> SUFFICES ASSUME IInv, JInv, [Next]_vars PROVE JType'
  OBVIOUS
<1> USE TickZero DEF IInv, LeaseTypeOK, JInv, JType, JWorks, StepNames, CallNames
<1>1. CASE UNCHANGED vars
  BY <1>1 DEF vars, leaseVars, journalVars, NextRevision
<1>2. ASSUME NEW p \in Opens, Load(p) \/ LoadFails(p) \/ AbandonOpen(p)
      PROVE  JType'
  <2>1. CASE Load(p)
    <3>1. /\ disk.revision = 0 => Becomes(p, "leasing", "init", NoOp, 0)
          /\ disk.revision # 0 /\ Rebuilds(disk) => Becomes(p, "idle", "none", NoOp, 0)
          /\ disk.revision # 0 /\ ~Rebuilds(disk) => Becomes(p, "abandoning", "none", NoOp, 0)
      BY <2>1, StartsTo, ReturnsTo DEF Load
    <3>2. QED
      BY <2>1, <3>1 DEF Becomes, Load, At, leaseVars
  <2>2. CASE LoadFails(p)
    <3>1. Becomes(p, "abandoning", "none", NoOp, 0)
      BY <2>2, StartsTo DEF LoadFails
    <3>2. QED
      BY <2>2, <3>1 DEF Becomes, LoadFails, At, leaseVars
  <2>3. CASE AbandonOpen(p)
    <3>1. Becomes(p, "unloaded", "none", NoOp, 0)
      BY <2>3, StartsTo DEF AbandonOpen
    <3>2. QED
      BY <2>3, <3>1 DEF Becomes, AbandonOpen, At, Abandon, Removes, Goes, leaseVars
  <2>4. QED
    BY <1>2, <2>1, <2>2, <2>3
<1>3. ASSUME NEW p \in Opens, Call(p)
      PROVE  JType'
  <2> PICK o \in Ops :
        CallPrepare(p, o) \/ Commit(p, o) \/ CallFinalize(p, o) \/ CallRepeat(p, o) \/ CallAbort(p, o)
    BY <1>3 DEF Call
  <2>1. CASE CallPrepare(p, o)
    <3>1. Becomes(p, "leasing", "prepare", o, 0)
      BY <2>1, StartsTo DEF CallPrepare
    <3>2. QED
      BY <2>1, <3>1 DEF Becomes, CallPrepare, MayWrite, Ready, Idle, leaseVars
  <2>2. CASE Commit(p, o)
    BY <2>2 DEF Commit, leaseVars
  <2>3. CASE CallFinalize(p, o)
    <3>1. Becomes(p, "leasing", "finalize", o, TickOf(o))
      BY <2>3, StartsTo, TickInNat DEF CallFinalize
    <3>2. QED
      BY <2>3, <3>1 DEF Becomes, CallFinalize, MayWrite, Ready, Idle, leaseVars
  <2>4. CASE CallRepeat(p, o)
    <3>1. Becomes(p, "rendering", "finalize", o, TickOf(o))
      BY <2>4, StartsTo, TickInNat DEF CallRepeat
    <3>2. QED
      BY <2>4, <3>1 DEF Becomes, CallRepeat, Ready, Idle, leaseVars
  <2>5. CASE CallAbort(p, o)
    <3>1. Becomes(p, "leasing", "abort", o, 0)
      BY <2>5, StartsTo DEF CallAbort
    <3>2. QED
      BY <2>5, <3>1 DEF Becomes, CallAbort, MayWrite, Ready, Idle, leaseVars
  <2>6. QED
    BY <2>1, <2>2, <2>3, <2>4, <2>5
<1>4. ASSUME NEW p \in Opens, Persist(p)
      PROVE  JType'
  <2>1. CASE CheckLease(p)
    <3>1. /\ lock = p => Becomes(p, "comparing", work[p].call, work[p].op, work[p].tick)
          /\ lock # p /\ work[p].call = "init" => Becomes(p, "abandoning", "none", NoOp, 0)
          /\ lock # p /\ work[p].call # "init" => Becomes(p, "idle", "none", NoOp, 0)
      BY <2>1, StepsTo, FailsTo DEF CheckLease
    <3>2. QED
      BY <2>1, <3>1 DEF Becomes, CheckLease, At, leaseVars
  <2>2. CASE CheckRevision(p)
    <3>1. /\ Unchanged(p) => Becomes(p, "writing", work[p].call, work[p].op, work[p].tick)
          /\ ~Unchanged(p) /\ work[p].call = "init" => Becomes(p, "abandoning", "none", NoOp, 0)
          /\ ~Unchanged(p) /\ work[p].call # "init" => Becomes(p, "idle", "none", NoOp, 0)
      BY <2>2, StepsTo, FailsTo DEF CheckRevision
    <3>2. QED
      BY <2>2, <3>1 DEF Becomes, CheckRevision, At, leaseVars
  <2>3. CASE Rename(p)
    <3>1. /\ work[p].call = "finalize" => Becomes(p, "rendering", work[p].call, work[p].op, work[p].tick)
          /\ work[p].call # "finalize" => Becomes(p, "idle", "none", NoOp, 0)
      BY <2>3, StepsTo, ReturnsTo DEF Rename, Written
    <3>2. QED
      BY <2>3, <3>1 DEF Becomes, Rename, At, Written, Adopts, leaseVars
  <2>4. CASE RenameFails(p)
    <3>1. /\ work[p].call = "init" => Becomes(p, "abandoning", "none", NoOp, 0)
          /\ work[p].call # "init" => Becomes(p, "idle", "none", NoOp, 0)
      BY <2>4, FailsTo DEF RenameFails
    <3>2. QED
      BY <2>4, <3>1 DEF Becomes, RenameFails, At, Fences, leaseVars
  <2>5. CASE SyncFails(p)
    <3>1. Becomes(p, "observing", work[p].call, work[p].op, work[p].tick)
      BY <2>5, StepsTo DEF SyncFails
    <3>2. QED
      BY <2>5, <3>1 DEF Becomes, SyncFails, At, leaseVars
  <2>6. CASE Observe(p)
    <3>1. /\ disk = NextRevision(p) /\ work[p].call = "finalize" => Becomes(p, "rendering", work[p].call, work[p].op, work[p].tick)
          /\ disk = NextRevision(p) /\ work[p].call # "finalize" => Becomes(p, "idle", "none", NoOp, 0)
          /\ disk # NextRevision(p) /\ work[p].call = "init" => Becomes(p, "abandoning", "none", NoOp, 0)
          /\ disk # NextRevision(p) /\ work[p].call # "init" => Becomes(p, "idle", "none", NoOp, 0)
      BY <2>6, StepsTo, ReturnsTo, FailsTo DEF Observe, Written
    <3>2. QED
      BY <2>6, <3>1 DEF Becomes, Observe, At, Written, Adopts, Fences, leaseVars
  <2>7. CASE ObserveFails(p)
    <3>1. /\ work[p].call = "init" => Becomes(p, "abandoning", "none", NoOp, 0)
          /\ work[p].call # "init" => Becomes(p, "idle", "none", NoOp, 0)
      BY <2>7, FailsTo DEF ObserveFails
    <3>2. QED
      BY <2>7, <3>1 DEF Becomes, ObserveFails, At, Fences, leaseVars
  <2>8. CASE Render(p)
    <3>1. Becomes(p, "idle", "none", NoOp, 0)
      BY <2>8, ReturnsTo DEF Render
    <3>2. QED
      BY <2>8, <3>1 DEF Becomes, Render, At, Fences, leaseVars
  <2>9. CASE RenderFails(p)
    <3>1. Becomes(p, "idle", "none", NoOp, 0)
      BY <2>9, ReturnsTo DEF RenderFails
    <3>2. QED
      BY <2>9, <3>1 DEF Becomes, RenderFails, At, leaseVars
  <2>10. QED
    BY <1>4, <2>1, <2>2, <2>3, <2>4, <2>5, <2>6, <2>7, <2>8, <2>9 DEF Persist
<1>5. ASSUME NEW p \in Opens, Close(p) \/ Crash(p)
      PROVE  JType'
  <2>1. CASE Close(p)
    BY <2>1 DEF Close, Release, Goes, Idle, leaseVars
  <2>2. CASE Crash(p)
    <3>1. Becomes(p, "unloaded", "none", NoOp, 0)
      BY <2>2, StartsTo DEF Crash
    <3>2. QED
      BY <2>2, <3>1 DEF Becomes, Crash, CrashLease, Goes, Ends, leaseVars
  <2>3. QED
    BY <1>5, <2>1, <2>2
<1>6. ASSUME NEW p \in Opens, (AcquireStep(p) \/ ReleaseUnlinks(p)) /\ UNCHANGED journalVars
      PROVE  JType'
  <2>1. CASE ReleaseUnlinks(p) /\ UNCHANGED journalVars
    BY <2>1 DEF ReleaseUnlinks, Removes, Goes, journalVars, leaseVars
  <2>2. CASE AcquireStep(p) /\ UNCHANGED journalVars
    BY <2>2, AcquireSteps DEF journalVars, NextRevision
  <2>3. QED
    BY <1>6, <2>1, <2>2
<1>7. QED
  BY <1>1, <1>2, <1>3, <1>4, <1>5, <1>6 DEF Next

\* The copies stay a function.
LEMMA CopiesStep == IInv /\ JInv /\ [Next]_vars => CopiesOK'
<1> SUFFICES ASSUME IInv, JInv, [Next]_vars PROVE CopiesOK'
  OBVIOUS
<1> USE TickZero DEF IInv, LeaseTypeOK, JInv, CopiesOK
<1>1. CASE UNCHANGED vars
  BY <1>1 DEF vars, leaseVars, journalVars, NextRevision
<1>2. ASSUME NEW p \in Opens, Load(p) \/ LoadFails(p) \/ AbandonOpen(p)
      PROVE  CopiesOK'
  <2>1. CASE Load(p)
    BY <2>1, StillAFunction DEF Load, At, leaseVars
  <2>2. CASE LoadFails(p)
    BY <2>2 DEF LoadFails, At, leaseVars
  <2>3. CASE AbandonOpen(p)
    BY <2>3 DEF AbandonOpen, At, Abandon, Removes, Goes, leaseVars
  <2>4. QED
    BY <1>2, <2>1, <2>2, <2>3
<1>3. ASSUME NEW p \in Opens, Call(p)
      PROVE  CopiesOK'
  <2> PICK o \in Ops :
        CallPrepare(p, o) \/ Commit(p, o) \/ CallFinalize(p, o) \/ CallRepeat(p, o) \/ CallAbort(p, o)
    BY <1>3 DEF Call
  <2>1. CASE CallPrepare(p, o)
    BY <2>1 DEF CallPrepare, MayWrite, Ready, Idle, leaseVars
  <2>2. CASE Commit(p, o)
    BY <2>2 DEF Commit, leaseVars
  <2>3. CASE CallFinalize(p, o)
    BY <2>3 DEF CallFinalize, MayWrite, Ready, Idle, leaseVars
  <2>4. CASE CallRepeat(p, o)
    BY <2>4 DEF CallRepeat, Ready, Idle, leaseVars
  <2>5. CASE CallAbort(p, o)
    BY <2>5 DEF CallAbort, MayWrite, Ready, Idle, leaseVars
  <2>6. QED
    BY <2>1, <2>2, <2>3, <2>4, <2>5
<1>4. ASSUME NEW p \in Opens, Persist(p)
      PROVE  CopiesOK'
  <2>1. CASE CheckLease(p)
    BY <2>1 DEF CheckLease, At, leaseVars
  <2>2. CASE CheckRevision(p)
    BY <2>2 DEF CheckRevision, At, leaseVars
  <2>3. CASE Rename(p)
    BY <2>3, StillAFunction DEF Rename, At, Written, Adopts, leaseVars
  <2>4. CASE RenameFails(p)
    BY <2>4 DEF RenameFails, At, Fences, leaseVars
  <2>5. CASE SyncFails(p)
    BY <2>5 DEF SyncFails, At, leaseVars
  <2>6. CASE Observe(p)
    BY <2>6, StillAFunction DEF Observe, At, Written, Adopts, Fences, leaseVars
  <2>7. CASE ObserveFails(p)
    BY <2>7 DEF ObserveFails, At, Fences, leaseVars
  <2>8. CASE Render(p)
    BY <2>8 DEF Render, At, leaseVars
  <2>9. CASE RenderFails(p)
    BY <2>9 DEF RenderFails, At, leaseVars
  <2>10. QED
    BY <1>4, <2>1, <2>2, <2>3, <2>4, <2>5, <2>6, <2>7, <2>8, <2>9 DEF Persist
<1>5. ASSUME NEW p \in Opens, Close(p) \/ Crash(p)
      PROVE  CopiesOK'
  <2>1. CASE Close(p)
    BY <2>1, StillAFunction DEF Close, Release, Goes, Idle, leaseVars
  <2>2. CASE Crash(p)
    BY <2>2, StillAFunction DEF Crash, CrashLease, Goes, Ends, leaseVars
  <2>3. QED
    BY <1>5, <2>1, <2>2
<1>6. ASSUME NEW p \in Opens, (AcquireStep(p) \/ ReleaseUnlinks(p)) /\ UNCHANGED journalVars
      PROVE  CopiesOK'
  <2>1. CASE ReleaseUnlinks(p) /\ UNCHANGED journalVars
    BY <2>1 DEF ReleaseUnlinks, Removes, Goes, journalVars, leaseVars
  <2>2. CASE AcquireStep(p) /\ UNCHANGED journalVars
    BY <2>2, AcquireSteps DEF journalVars, NextRevision
  <2>3. QED
    BY <1>6, <2>1, <2>2
<1>7. QED
  BY <1>1, <1>2, <1>3, <1>4, <1>5, <1>6 DEF Next

\* Where a process may be in a call.
LEMMA WorkStep == IInv /\ JInv /\ [Next]_vars => WorkOK'
<1> SUFFICES ASSUME IInv, JInv, [Next]_vars, NEW q \in Opens PROVE WorkAt(q)'
  BY DEF WorkOK
<1> USE TickZero DEF IInv, LeaseTypeOK, JInv, JType, StepNames, CallNames, CopiesOK, WorkOK, WorkAt, Writing
<1>1. CASE UNCHANGED vars
  BY <1>1 DEF vars, leaseVars, journalVars, NextRevision
<1>2. ASSUME NEW p \in Opens, Load(p) \/ LoadFails(p) \/ AbandonOpen(p)
      PROVE  WorkAt(q)'
  <2>1. CASE Load(p)
    <3>1. /\ disk.revision = 0 => Becomes(p, "leasing", "init", NoOp, 0)
          /\ disk.revision # 0 /\ Rebuilds(disk) => Becomes(p, "idle", "none", NoOp, 0)
          /\ disk.revision # 0 /\ ~Rebuilds(disk) => Becomes(p, "abandoning", "none", NoOp, 0)
      BY <2>1, StartsTo, ReturnsTo DEF Load
    <3>2. QED
      BY <2>1, <3>1 DEF Becomes, Load, At, leaseVars
  <2>2. CASE LoadFails(p)
    <3>1. Becomes(p, "abandoning", "none", NoOp, 0)
      BY <2>2, StartsTo DEF LoadFails
    <3>2. QED
      BY <2>2, <3>1 DEF Becomes, LoadFails, At, leaseVars
  <2>3. CASE AbandonOpen(p)
    <3>1. Becomes(p, "unloaded", "none", NoOp, 0)
      BY <2>3, StartsTo DEF AbandonOpen
    <3>2. QED
      BY <2>3, <3>1 DEF Becomes, AbandonOpen, At, Abandon, Removes, Goes, leaseVars
  <2>4. QED
    BY <1>2, <2>1, <2>2, <2>3
<1>3. ASSUME NEW p \in Opens, Call(p)
      PROVE  WorkAt(q)'
  <2> PICK o \in Ops :
        CallPrepare(p, o) \/ Commit(p, o) \/ CallFinalize(p, o) \/ CallRepeat(p, o) \/ CallAbort(p, o)
    BY <1>3 DEF Call
  <2>1. CASE CallPrepare(p, o)
    <3>1. Becomes(p, "leasing", "prepare", o, 0)
      BY <2>1, StartsTo DEF CallPrepare
    <3>2. QED
      BY <2>1, <3>1 DEF Becomes, CallPrepare, MayWrite, Ready, Idle, leaseVars
  <2>2. CASE Commit(p, o)
    BY <2>2 DEF Commit, leaseVars
  <2>3. CASE CallFinalize(p, o)
    <3>1. Becomes(p, "leasing", "finalize", o, TickOf(o))
      BY <2>3, StartsTo, TickInNat DEF CallFinalize
    <3>2. QED
      BY <2>3, <3>1 DEF Becomes, CallFinalize, MayWrite, Ready, Idle, leaseVars
  <2>4. CASE CallRepeat(p, o)
    <3>1. Becomes(p, "rendering", "finalize", o, TickOf(o))
      BY <2>4, StartsTo, TickInNat DEF CallRepeat
    <3>2. QED
      BY <2>4, <3>1 DEF Becomes, CallRepeat, Ready, Idle, leaseVars
  <2>5. CASE CallAbort(p, o)
    <3>1. Becomes(p, "leasing", "abort", o, 0)
      BY <2>5, StartsTo DEF CallAbort
    <3>2. QED
      BY <2>5, <3>1 DEF Becomes, CallAbort, MayWrite, Ready, Idle, leaseVars
  <2>6. QED
    BY <2>1, <2>2, <2>3, <2>4, <2>5
<1>4. ASSUME NEW p \in Opens, Persist(p)
      PROVE  WorkAt(q)'
  <2>1. CASE CheckLease(p)
    <3>1. /\ lock = p => Becomes(p, "comparing", work[p].call, work[p].op, work[p].tick)
          /\ lock # p /\ work[p].call = "init" => Becomes(p, "abandoning", "none", NoOp, 0)
          /\ lock # p /\ work[p].call # "init" => Becomes(p, "idle", "none", NoOp, 0)
      BY <2>1, StepsTo, FailsTo DEF CheckLease
    <3>2. QED
      BY <2>1, <3>1 DEF Becomes, CheckLease, At, leaseVars
  <2>2. CASE CheckRevision(p)
    <3>1. /\ Unchanged(p) => Becomes(p, "writing", work[p].call, work[p].op, work[p].tick)
          /\ ~Unchanged(p) /\ work[p].call = "init" => Becomes(p, "abandoning", "none", NoOp, 0)
          /\ ~Unchanged(p) /\ work[p].call # "init" => Becomes(p, "idle", "none", NoOp, 0)
      BY <2>2, StepsTo, FailsTo DEF CheckRevision
    <3>2. QED
      BY <2>2, <3>1 DEF Becomes, CheckRevision, At, leaseVars
  <2>3. CASE Rename(p)
    <3>1. /\ work[p].call = "finalize" => Becomes(p, "rendering", work[p].call, work[p].op, work[p].tick)
          /\ work[p].call # "finalize" => Becomes(p, "idle", "none", NoOp, 0)
      BY <2>3, StepsTo, ReturnsTo DEF Rename, Written
    <3>2. QED
      BY <2>3, <3>1 DEF Becomes, Rename, At, Written, Adopts, leaseVars
  <2>4. CASE RenameFails(p)
    <3>1. /\ work[p].call = "init" => Becomes(p, "abandoning", "none", NoOp, 0)
          /\ work[p].call # "init" => Becomes(p, "idle", "none", NoOp, 0)
      BY <2>4, FailsTo DEF RenameFails
    <3>2. QED
      BY <2>4, <3>1 DEF Becomes, RenameFails, At, Fences, leaseVars
  <2>5. CASE SyncFails(p)
    <3>1. Becomes(p, "observing", work[p].call, work[p].op, work[p].tick)
      BY <2>5, StepsTo DEF SyncFails
    <3>2. QED
      BY <2>5, <3>1 DEF Becomes, SyncFails, At, leaseVars
  <2>6. CASE Observe(p)
    <3>1. /\ disk = NextRevision(p) /\ work[p].call = "finalize" => Becomes(p, "rendering", work[p].call, work[p].op, work[p].tick)
          /\ disk = NextRevision(p) /\ work[p].call # "finalize" => Becomes(p, "idle", "none", NoOp, 0)
          /\ disk # NextRevision(p) /\ work[p].call = "init" => Becomes(p, "abandoning", "none", NoOp, 0)
          /\ disk # NextRevision(p) /\ work[p].call # "init" => Becomes(p, "idle", "none", NoOp, 0)
      BY <2>6, StepsTo, ReturnsTo, FailsTo DEF Observe, Written
    <3>2. QED
      BY <2>6, <3>1 DEF Becomes, Observe, At, Written, Adopts, Fences, leaseVars
  <2>7. CASE ObserveFails(p)
    <3>1. /\ work[p].call = "init" => Becomes(p, "abandoning", "none", NoOp, 0)
          /\ work[p].call # "init" => Becomes(p, "idle", "none", NoOp, 0)
      BY <2>7, FailsTo DEF ObserveFails
    <3>2. QED
      BY <2>7, <3>1 DEF Becomes, ObserveFails, At, Fences, leaseVars
  <2>8. CASE Render(p)
    <3>1. Becomes(p, "idle", "none", NoOp, 0)
      BY <2>8, ReturnsTo DEF Render
    <3>2. QED
      BY <2>8, <3>1 DEF Becomes, Render, At, Fences, leaseVars
  <2>9. CASE RenderFails(p)
    <3>1. Becomes(p, "idle", "none", NoOp, 0)
      BY <2>9, ReturnsTo DEF RenderFails
    <3>2. QED
      BY <2>9, <3>1 DEF Becomes, RenderFails, At, leaseVars
  <2>10. QED
    BY <1>4, <2>1, <2>2, <2>3, <2>4, <2>5, <2>6, <2>7, <2>8, <2>9 DEF Persist
<1>5. ASSUME NEW p \in Opens, Close(p) \/ Crash(p)
      PROVE  WorkAt(q)'
  <2>1. CASE Close(p)
    BY <2>1 DEF Close, Release, Goes, Idle, leaseVars
  <2>2. CASE Crash(p)
    <3>1. Becomes(p, "unloaded", "none", NoOp, 0)
      BY <2>2, StartsTo DEF Crash
    <3>2. QED
      BY <2>2, <3>1 DEF Becomes, Crash, CrashLease, Goes, Ends, leaseVars
  <2>3. QED
    BY <1>5, <2>1, <2>2
<1>6. ASSUME NEW p \in Opens, (AcquireStep(p) \/ ReleaseUnlinks(p)) /\ UNCHANGED journalVars
      PROVE  WorkAt(q)'
  <2>1. CASE ReleaseUnlinks(p) /\ UNCHANGED journalVars
    BY <2>1 DEF ReleaseUnlinks, Removes, Goes, journalVars, leaseVars
  <2>2. CASE AcquireStep(p) /\ UNCHANGED journalVars
    BY <2>2, AcquireSteps DEF journalVars, NextRevision
  <2>3. QED
    BY <1>6, <2>1, <2>2
<1>7. QED
  BY <1>1, <1>2, <1>3, <1>4, <1>5, <1>6 DEF Next

\* The file and the copies are payloads, and a file with a revision was written.
LEMMA ShapeStep == IInv /\ JInv /\ [Next]_vars => ShapeOK'
<1> SUFFICES ASSUME IInv, JInv, [Next]_vars PROVE ShapeOK'
  OBVIOUS
<1> USE TickZero DEF IInv, LeaseTypeOK, JInv, JType, StepNames, CallNames, CopiesOK, WorkOK, WorkAt, ShapeOK
<1>1. CASE UNCHANGED vars
  BY <1>1 DEF vars, leaseVars, journalVars, NextRevision
<1>2. ASSUME NEW p \in Opens, Load(p) \/ LoadFails(p) \/ AbandonOpen(p)
      PROVE  ShapeOK'
  <2>1. CASE Load(p)
    BY <2>1, InitialShape DEF Load, At, leaseVars
  <2>2. CASE LoadFails(p)
    BY <2>2 DEF LoadFails, At, leaseVars
  <2>3. CASE AbandonOpen(p)
    BY <2>3 DEF AbandonOpen, At, Abandon, Removes, Goes, leaseVars
  <2>4. QED
    BY <1>2, <2>1, <2>2, <2>3
<1>3. ASSUME NEW p \in Opens, Call(p)
      PROVE  ShapeOK'
  <2> PICK o \in Ops :
        CallPrepare(p, o) \/ Commit(p, o) \/ CallFinalize(p, o) \/ CallRepeat(p, o) \/ CallAbort(p, o)
    BY <1>3 DEF Call
  <2>1. CASE CallPrepare(p, o)
    BY <2>1 DEF CallPrepare, MayWrite, Ready, Idle, leaseVars
  <2>2. CASE Commit(p, o)
    BY <2>2 DEF Commit, leaseVars
  <2>3. CASE CallFinalize(p, o)
    BY <2>3 DEF CallFinalize, MayWrite, Ready, Idle, leaseVars
  <2>4. CASE CallRepeat(p, o)
    BY <2>4 DEF CallRepeat, Ready, Idle, leaseVars
  <2>5. CASE CallAbort(p, o)
    BY <2>5 DEF CallAbort, MayWrite, Ready, Idle, leaseVars
  <2>6. QED
    BY <2>1, <2>2, <2>3, <2>4, <2>5
<1>4. ASSUME NEW p \in Opens, Persist(p)
      PROVE  ShapeOK'
  <2>1. CASE CheckLease(p)
    BY <2>1 DEF CheckLease, At, leaseVars
  <2>2. CASE CheckRevision(p)
    BY <2>2 DEF CheckRevision, At, leaseVars
  <2>3. CASE Rename(p)
    <3> Shape(NextRevision(p)) /\ NextRevision(p).revision # 0
      BY <2>3, NextShape DEF Rename, At
    <3> QED
      BY <2>3 DEF Rename, Adopts, leaseVars
  <2>4. CASE RenameFails(p)
    BY <2>4 DEF RenameFails, At, Fences, leaseVars
  <2>5. CASE SyncFails(p)
    <3> Shape(NextRevision(p)) /\ NextRevision(p).revision # 0
      BY <2>5, NextShape DEF SyncFails, At
    <3> QED
      BY <2>5 DEF SyncFails, leaseVars
  <2>6. CASE Observe(p)
    <3> Shape(NextRevision(p)) /\ NextRevision(p).revision # 0
      BY <2>6, NextShape DEF Observe, At
    <3> QED
      BY <2>6 DEF Observe, Adopts, leaseVars
  <2>7. CASE ObserveFails(p)
    BY <2>7 DEF ObserveFails, At, Fences, leaseVars
  <2>8. CASE Render(p)
    BY <2>8 DEF Render, At, leaseVars
  <2>9. CASE RenderFails(p)
    BY <2>9 DEF RenderFails, At, leaseVars
  <2>10. QED
    BY <1>4, <2>1, <2>2, <2>3, <2>4, <2>5, <2>6, <2>7, <2>8, <2>9 DEF Persist
<1>5. ASSUME NEW p \in Opens, Close(p) \/ Crash(p)
      PROVE  ShapeOK'
  <2>1. CASE Close(p)
    BY <2>1, InitialShape DEF Close, Release, Goes, Idle, leaseVars
  <2>2. CASE Crash(p)
    BY <2>2, InitialShape DEF Crash, CrashLease, Goes, Ends, leaseVars
  <2>3. QED
    BY <1>5, <2>1, <2>2
<1>6. ASSUME NEW p \in Opens, (AcquireStep(p) \/ ReleaseUnlinks(p)) /\ UNCHANGED journalVars
      PROVE  ShapeOK'
  <2>1. CASE ReleaseUnlinks(p) /\ UNCHANGED journalVars
    BY <2>1 DEF ReleaseUnlinks, Removes, Goes, journalVars, leaseVars
  <2>2. CASE AcquireStep(p) /\ UNCHANGED journalVars
    BY <2>2, AcquireSteps DEF journalVars, NextRevision
  <2>3. QED
    BY <1>6, <2>1, <2>2
<1>7. QED
  BY <1>1, <1>2, <1>3, <1>4, <1>5, <1>6 DEF Next

\* A copy is the file, unless the write of it is in doubt.
LEMMA CurrentStep == IInv /\ JInv /\ [Next]_vars => Current'
<1> SUFFICES ASSUME IInv, JInv, [Next]_vars, NEW q \in Opens, ~raced' PROVE CurrentAt(q)'
  BY DEF Current
<1> USE TickZero DEF IInv, LeaseTypeOK, JInv, JType, StepNames, CallNames, CopiesOK, WorkOK, WorkAt, ShapeOK, CurrentAt, Current, HolderHasLease, Holders, NextRevision
<1>1. CASE UNCHANGED vars
  BY <1>1 DEF vars, leaseVars, journalVars, NextRevision
<1>2. ASSUME NEW p \in Opens, Load(p) \/ LoadFails(p) \/ AbandonOpen(p)
      PROVE  CurrentAt(q)'
  <2>1. CASE Load(p)
    <3>1. /\ disk.revision = 0 => Becomes(p, "leasing", "init", NoOp, 0)
          /\ disk.revision # 0 /\ Rebuilds(disk) => Becomes(p, "idle", "none", NoOp, 0)
          /\ disk.revision # 0 /\ ~Rebuilds(disk) => Becomes(p, "abandoning", "none", NoOp, 0)
      BY <2>1, StartsTo, ReturnsTo DEF Load
    <3>2. QED
      BY <2>1, <3>1 DEF Becomes, Load, At, leaseVars
  <2>2. CASE LoadFails(p)
    <3>1. Becomes(p, "abandoning", "none", NoOp, 0)
      BY <2>2, StartsTo DEF LoadFails
    <3>2. QED
      BY <2>2, <3>1 DEF Becomes, LoadFails, At, leaseVars
  <2>3. CASE AbandonOpen(p)
    <3>1. Becomes(p, "unloaded", "none", NoOp, 0)
      BY <2>3, StartsTo DEF AbandonOpen
    <3>2. QED
      BY <2>3, <3>1 DEF Becomes, AbandonOpen, At, Abandon, Removes, Goes, leaseVars
  <2>4. QED
    BY <1>2, <2>1, <2>2, <2>3
<1>3. ASSUME NEW p \in Opens, Call(p)
      PROVE  CurrentAt(q)'
  <2> PICK o \in Ops :
        CallPrepare(p, o) \/ Commit(p, o) \/ CallFinalize(p, o) \/ CallRepeat(p, o) \/ CallAbort(p, o)
    BY <1>3 DEF Call
  <2>1. CASE CallPrepare(p, o)
    <3>1. Becomes(p, "leasing", "prepare", o, 0)
      BY <2>1, StartsTo DEF CallPrepare
    <3>2. QED
      BY <2>1, <3>1 DEF Becomes, CallPrepare, MayWrite, Ready, Idle, leaseVars
  <2>2. CASE Commit(p, o)
    BY <2>2 DEF Commit, leaseVars
  <2>3. CASE CallFinalize(p, o)
    <3>1. Becomes(p, "leasing", "finalize", o, TickOf(o))
      BY <2>3, StartsTo, TickInNat DEF CallFinalize
    <3>2. QED
      BY <2>3, <3>1 DEF Becomes, CallFinalize, MayWrite, Ready, Idle, leaseVars
  <2>4. CASE CallRepeat(p, o)
    <3>1. Becomes(p, "rendering", "finalize", o, TickOf(o))
      BY <2>4, StartsTo, TickInNat DEF CallRepeat
    <3>2. QED
      BY <2>4, <3>1 DEF Becomes, CallRepeat, Ready, Idle, leaseVars
  <2>5. CASE CallAbort(p, o)
    <3>1. Becomes(p, "leasing", "abort", o, 0)
      BY <2>5, StartsTo DEF CallAbort
    <3>2. QED
      BY <2>5, <3>1 DEF Becomes, CallAbort, MayWrite, Ready, Idle, leaseVars
  <2>6. QED
    BY <2>1, <2>2, <2>3, <2>4, <2>5
<1>4. ASSUME NEW p \in Opens, Persist(p)
      PROVE  CurrentAt(q)'
  <2>1. CASE CheckLease(p)
    <3>1. /\ lock = p => Becomes(p, "comparing", work[p].call, work[p].op, work[p].tick)
          /\ lock # p /\ work[p].call = "init" => Becomes(p, "abandoning", "none", NoOp, 0)
          /\ lock # p /\ work[p].call # "init" => Becomes(p, "idle", "none", NoOp, 0)
      BY <2>1, StepsTo, FailsTo DEF CheckLease
    <3>2. QED
      BY <2>1, <3>1 DEF Becomes, CheckLease, At, leaseVars
  <2>2. CASE CheckRevision(p)
    <3>1. /\ Unchanged(p) => Becomes(p, "writing", work[p].call, work[p].op, work[p].tick)
          /\ ~Unchanged(p) /\ work[p].call = "init" => Becomes(p, "abandoning", "none", NoOp, 0)
          /\ ~Unchanged(p) /\ work[p].call # "init" => Becomes(p, "idle", "none", NoOp, 0)
      BY <2>2, StepsTo, FailsTo DEF CheckRevision
    <3>2. QED
      BY <2>2, <3>1 DEF Becomes, CheckRevision, At, leaseVars
  <2>3. CASE Rename(p)
    <3>1. /\ work[p].call = "finalize" => Becomes(p, "rendering", work[p].call, work[p].op, work[p].tick)
          /\ work[p].call # "finalize" => Becomes(p, "idle", "none", NoOp, 0)
      BY <2>3, StepsTo, ReturnsTo DEF Rename, Written
    <3>2. QED
      BY <2>3, <3>1 DEF Becomes, Rename, At, Written, Adopts, leaseVars
  <2>4. CASE RenameFails(p)
    <3>1. /\ work[p].call = "init" => Becomes(p, "abandoning", "none", NoOp, 0)
          /\ work[p].call # "init" => Becomes(p, "idle", "none", NoOp, 0)
      BY <2>4, FailsTo DEF RenameFails
    <3>2. QED
      BY <2>4, <3>1 DEF Becomes, RenameFails, At, Fences, leaseVars
  <2>5. CASE SyncFails(p)
    <3>1. Becomes(p, "observing", work[p].call, work[p].op, work[p].tick)
      BY <2>5, StepsTo DEF SyncFails
    <3>2. QED
      BY <2>5, <3>1 DEF Becomes, SyncFails, At, leaseVars
  <2>6. CASE Observe(p)
    <3>1. /\ disk = NextRevision(p) /\ work[p].call = "finalize" => Becomes(p, "rendering", work[p].call, work[p].op, work[p].tick)
          /\ disk = NextRevision(p) /\ work[p].call # "finalize" => Becomes(p, "idle", "none", NoOp, 0)
          /\ disk # NextRevision(p) /\ work[p].call = "init" => Becomes(p, "abandoning", "none", NoOp, 0)
          /\ disk # NextRevision(p) /\ work[p].call # "init" => Becomes(p, "idle", "none", NoOp, 0)
      BY <2>6, StepsTo, ReturnsTo, FailsTo DEF Observe, Written
    <3>2. QED
      BY <2>6, <3>1 DEF Becomes, Observe, At, Written, Adopts, Fences, leaseVars
  <2>7. CASE ObserveFails(p)
    <3>1. /\ work[p].call = "init" => Becomes(p, "abandoning", "none", NoOp, 0)
          /\ work[p].call # "init" => Becomes(p, "idle", "none", NoOp, 0)
      BY <2>7, FailsTo DEF ObserveFails
    <3>2. QED
      BY <2>7, <3>1 DEF Becomes, ObserveFails, At, Fences, leaseVars
  <2>8. CASE Render(p)
    <3>1. Becomes(p, "idle", "none", NoOp, 0)
      BY <2>8, ReturnsTo DEF Render
    <3>2. QED
      BY <2>8, <3>1 DEF Becomes, Render, At, Fences, leaseVars
  <2>9. CASE RenderFails(p)
    <3>1. Becomes(p, "idle", "none", NoOp, 0)
      BY <2>9, ReturnsTo DEF RenderFails
    <3>2. QED
      BY <2>9, <3>1 DEF Becomes, RenderFails, At, leaseVars
  <2>10. QED
    BY <1>4, <2>1, <2>2, <2>3, <2>4, <2>5, <2>6, <2>7, <2>8, <2>9 DEF Persist
<1>5. ASSUME NEW p \in Opens, Close(p) \/ Crash(p)
      PROVE  CurrentAt(q)'
  <2>1. CASE Close(p)
    BY <2>1 DEF Close, Release, Goes, Idle, leaseVars
  <2>2. CASE Crash(p)
    <3>1. Becomes(p, "unloaded", "none", NoOp, 0)
      BY <2>2, StartsTo DEF Crash
    <3>2. QED
      BY <2>2, <3>1 DEF Becomes, Crash, CrashLease, Goes, Ends, leaseVars
  <2>3. QED
    BY <1>5, <2>1, <2>2
<1>6. ASSUME NEW p \in Opens, (AcquireStep(p) \/ ReleaseUnlinks(p)) /\ UNCHANGED journalVars
      PROVE  CurrentAt(q)'
  <2>1. CASE ReleaseUnlinks(p) /\ UNCHANGED journalVars
    BY <2>1 DEF ReleaseUnlinks, Removes, Goes, journalVars, leaseVars
  <2>2. CASE AcquireStep(p) /\ UNCHANGED journalVars
    BY <2>2, AcquireSteps DEF journalVars, NextRevision
  <2>3. QED
    BY <1>6, <2>1, <2>2
<1>7. QED
  BY <1>1, <1>2, <1>3, <1>4, <1>5, <1>6 DEF Next

\* Every write marks the processes that have compared but not yet written.
LEMMA BasedStep == IInv /\ JInv /\ [Next]_vars => Based'
<1> SUFFICES ASSUME IInv, JInv, [Next]_vars, NEW q \in Opens PROVE BasedAt(q)'
  BY DEF Based
<1> USE TickZero DEF IInv, LeaseTypeOK, JInv, JType, StepNames, CallNames, CopiesOK, WorkOK, WorkAt, BasedAt, Based
<1>1. CASE UNCHANGED vars
  BY <1>1 DEF vars, leaseVars, journalVars, NextRevision
<1>2. ASSUME NEW p \in Opens, Load(p) \/ LoadFails(p) \/ AbandonOpen(p)
      PROVE  BasedAt(q)'
  <2>1. CASE Load(p)
    <3>1. /\ disk.revision = 0 => Becomes(p, "leasing", "init", NoOp, 0)
          /\ disk.revision # 0 /\ Rebuilds(disk) => Becomes(p, "idle", "none", NoOp, 0)
          /\ disk.revision # 0 /\ ~Rebuilds(disk) => Becomes(p, "abandoning", "none", NoOp, 0)
      BY <2>1, StartsTo, ReturnsTo DEF Load
    <3>2. QED
      BY <2>1, <3>1 DEF Becomes, Load, At, leaseVars
  <2>2. CASE LoadFails(p)
    <3>1. Becomes(p, "abandoning", "none", NoOp, 0)
      BY <2>2, StartsTo DEF LoadFails
    <3>2. QED
      BY <2>2, <3>1 DEF Becomes, LoadFails, At, leaseVars
  <2>3. CASE AbandonOpen(p)
    <3>1. Becomes(p, "unloaded", "none", NoOp, 0)
      BY <2>3, StartsTo DEF AbandonOpen
    <3>2. QED
      BY <2>3, <3>1 DEF Becomes, AbandonOpen, At, Abandon, Removes, Goes, leaseVars
  <2>4. QED
    BY <1>2, <2>1, <2>2, <2>3
<1>3. ASSUME NEW p \in Opens, Call(p)
      PROVE  BasedAt(q)'
  <2> PICK o \in Ops :
        CallPrepare(p, o) \/ Commit(p, o) \/ CallFinalize(p, o) \/ CallRepeat(p, o) \/ CallAbort(p, o)
    BY <1>3 DEF Call
  <2>1. CASE CallPrepare(p, o)
    <3>1. Becomes(p, "leasing", "prepare", o, 0)
      BY <2>1, StartsTo DEF CallPrepare
    <3>2. QED
      BY <2>1, <3>1 DEF Becomes, CallPrepare, MayWrite, Ready, Idle, leaseVars
  <2>2. CASE Commit(p, o)
    BY <2>2 DEF Commit, leaseVars
  <2>3. CASE CallFinalize(p, o)
    <3>1. Becomes(p, "leasing", "finalize", o, TickOf(o))
      BY <2>3, StartsTo, TickInNat DEF CallFinalize
    <3>2. QED
      BY <2>3, <3>1 DEF Becomes, CallFinalize, MayWrite, Ready, Idle, leaseVars
  <2>4. CASE CallRepeat(p, o)
    <3>1. Becomes(p, "rendering", "finalize", o, TickOf(o))
      BY <2>4, StartsTo, TickInNat DEF CallRepeat
    <3>2. QED
      BY <2>4, <3>1 DEF Becomes, CallRepeat, Ready, Idle, leaseVars
  <2>5. CASE CallAbort(p, o)
    <3>1. Becomes(p, "leasing", "abort", o, 0)
      BY <2>5, StartsTo DEF CallAbort
    <3>2. QED
      BY <2>5, <3>1 DEF Becomes, CallAbort, MayWrite, Ready, Idle, leaseVars
  <2>6. QED
    BY <2>1, <2>2, <2>3, <2>4, <2>5
<1>4. ASSUME NEW p \in Opens, Persist(p)
      PROVE  BasedAt(q)'
  <2>1. CASE CheckLease(p)
    <3>1. /\ lock = p => Becomes(p, "comparing", work[p].call, work[p].op, work[p].tick)
          /\ lock # p /\ work[p].call = "init" => Becomes(p, "abandoning", "none", NoOp, 0)
          /\ lock # p /\ work[p].call # "init" => Becomes(p, "idle", "none", NoOp, 0)
      BY <2>1, StepsTo, FailsTo DEF CheckLease
    <3>2. QED
      BY <2>1, <3>1 DEF Becomes, CheckLease, At, leaseVars
  <2>2. CASE CheckRevision(p)
    <3>1. /\ Unchanged(p) => Becomes(p, "writing", work[p].call, work[p].op, work[p].tick)
          /\ ~Unchanged(p) /\ work[p].call = "init" => Becomes(p, "abandoning", "none", NoOp, 0)
          /\ ~Unchanged(p) /\ work[p].call # "init" => Becomes(p, "idle", "none", NoOp, 0)
      BY <2>2, StepsTo, FailsTo DEF CheckRevision
    <3>2. QED
      BY <2>2, <3>1 DEF Becomes, CheckRevision, At, Unchanged, leaseVars
  <2>3. CASE Rename(p)
    <3>1. /\ work[p].call = "finalize" => Becomes(p, "rendering", work[p].call, work[p].op, work[p].tick)
          /\ work[p].call # "finalize" => Becomes(p, "idle", "none", NoOp, 0)
      BY <2>3, StepsTo, ReturnsTo DEF Rename, Written
    <3>2. QED
      BY <2>3, <3>1 DEF Becomes, Rename, At, Written, Adopts, Overtakes, leaseVars
  <2>4. CASE RenameFails(p)
    <3>1. /\ work[p].call = "init" => Becomes(p, "abandoning", "none", NoOp, 0)
          /\ work[p].call # "init" => Becomes(p, "idle", "none", NoOp, 0)
      BY <2>4, FailsTo DEF RenameFails
    <3>2. QED
      BY <2>4, <3>1 DEF Becomes, RenameFails, At, Fences, leaseVars
  <2>5. CASE SyncFails(p)
    <3>1. Becomes(p, "observing", work[p].call, work[p].op, work[p].tick)
      BY <2>5, StepsTo DEF SyncFails
    <3>2. QED
      BY <2>5, <3>1 DEF Becomes, SyncFails, At, Overtakes, leaseVars
  <2>6. CASE Observe(p)
    <3>1. /\ disk = NextRevision(p) /\ work[p].call = "finalize" => Becomes(p, "rendering", work[p].call, work[p].op, work[p].tick)
          /\ disk = NextRevision(p) /\ work[p].call # "finalize" => Becomes(p, "idle", "none", NoOp, 0)
          /\ disk # NextRevision(p) /\ work[p].call = "init" => Becomes(p, "abandoning", "none", NoOp, 0)
          /\ disk # NextRevision(p) /\ work[p].call # "init" => Becomes(p, "idle", "none", NoOp, 0)
      BY <2>6, StepsTo, ReturnsTo, FailsTo DEF Observe, Written
    <3>2. QED
      BY <2>6, <3>1 DEF Becomes, Observe, At, Written, Adopts, Fences, leaseVars
  <2>7. CASE ObserveFails(p)
    <3>1. /\ work[p].call = "init" => Becomes(p, "abandoning", "none", NoOp, 0)
          /\ work[p].call # "init" => Becomes(p, "idle", "none", NoOp, 0)
      BY <2>7, FailsTo DEF ObserveFails
    <3>2. QED
      BY <2>7, <3>1 DEF Becomes, ObserveFails, At, Fences, leaseVars
  <2>8. CASE Render(p)
    <3>1. Becomes(p, "idle", "none", NoOp, 0)
      BY <2>8, ReturnsTo DEF Render
    <3>2. QED
      BY <2>8, <3>1 DEF Becomes, Render, At, Fences, leaseVars
  <2>9. CASE RenderFails(p)
    <3>1. Becomes(p, "idle", "none", NoOp, 0)
      BY <2>9, ReturnsTo DEF RenderFails
    <3>2. QED
      BY <2>9, <3>1 DEF Becomes, RenderFails, At, leaseVars
  <2>10. QED
    BY <1>4, <2>1, <2>2, <2>3, <2>4, <2>5, <2>6, <2>7, <2>8, <2>9 DEF Persist
<1>5. ASSUME NEW p \in Opens, Close(p) \/ Crash(p)
      PROVE  BasedAt(q)'
  <2>1. CASE Close(p)
    BY <2>1 DEF Close, Release, Goes, Idle, leaseVars
  <2>2. CASE Crash(p)
    <3>1. Becomes(p, "unloaded", "none", NoOp, 0)
      BY <2>2, StartsTo DEF Crash
    <3>2. QED
      BY <2>2, <3>1 DEF Becomes, Crash, CrashLease, Goes, Ends, leaseVars
  <2>3. QED
    BY <1>5, <2>1, <2>2
<1>6. ASSUME NEW p \in Opens, (AcquireStep(p) \/ ReleaseUnlinks(p)) /\ UNCHANGED journalVars
      PROVE  BasedAt(q)'
  <2>1. CASE ReleaseUnlinks(p) /\ UNCHANGED journalVars
    BY <2>1 DEF ReleaseUnlinks, Removes, Goes, journalVars, leaseVars
  <2>2. CASE AcquireStep(p) /\ UNCHANGED journalVars
    BY <2>2, AcquireSteps DEF journalVars, NextRevision
  <2>3. QED
    BY <1>6, <2>1, <2>2
<1>7. QED
  BY <1>1, <1>2, <1>3, <1>4, <1>5, <1>6 DEF Next

-----------------------------------------------------------------------------
LEMMA JInvHolds == Spec => [](IInv /\ JInv)
<1>1. Init => IInv /\ JInv
  <2> SUFFICES ASSUME Init PROVE IInv /\ JInv
    OBVIOUS
  <2>1. IInv
    BY LeaseAssumption
       DEF Init, LeaseInit, IInv, LeaseTypeOK, StaleIsDead, Candidates, ExaminesALease,
           HolderHasLease, Holders, Phases, NoOne
  <2>2. JType
    BY TickZero DEF Init, JType, JWorks, Unloaded
  <2>3. CopiesOK
    BY DEF Init, CopiesOK
  <2>4. WorkOK
    BY DEF Init, LeaseInit, WorkOK, WorkAt, Unloaded
  <2>5. ShapeOK
    BY InitialShape DEF Init, ShapeOK
  <2>6. Current /\ Based
    BY DEF Init, LeaseInit, Current, CurrentAt, Based, BasedAt
  <2>7. QED
    BY <2>1, <2>2, <2>3, <2>4, <2>5, <2>6 DEF JInv
<1>2. IInv /\ JInv /\ [Next]_vars => (IInv /\ JInv)'
  <2>1. IInv /\ JInv /\ [Next]_vars => IInv'
    BY LeaseStep, TypeStep, StaleStep, HolderStep DEF IInv
  <2>2. IInv /\ JInv /\ [Next]_vars => JInv'
    BY JTypeStep, CopiesStep, WorkStep, ShapeStep, CurrentStep, BasedStep DEF JInv
  <2>3. QED
    BY <2>1, <2>2
<1>3. QED
  BY <1>1, <1>2, PTL DEF Spec

\* While no lease was removed unexamined, a driver that accepts calls has the
\* file in its copy, whatever write failed, was in doubt or was cut short.
THEOREM CopiesAreCurrent == Spec => []CopyIsCurrent
<1>1. IInv /\ JInv => CopyIsCurrent
  BY DEF JInv, Current, CurrentAt, CopyIsCurrent, Ready, Idle
<1>2. QED
  BY <1>1, JInvHolds, PTL

\* Whether the lease is exclusive or not, a write replaces the revision it was
\* computed from, except in the window between the comparison and the rename.
THEOREM WritesReplaceTheirBase == Spec => []ReplacesItsBase
<1>1. IInv /\ JInv => ReplacesItsBase
  BY DEF JInv, Based, BasedAt, ReplacesItsBase, At
<1>2. QED
  BY <1>1, JInvHolds, PTL

\* The lease, the copy and the base of a write together.
THEOREM LeaseGuards == Spec => []LeaseGuardsCopy
<1>1. HolderHasLease /\ CopyIsCurrent /\ ReplacesItsBase => LeaseGuardsCopy
  BY DEF LeaseGuardsCopy
<1>2. QED
  BY <1>1, DriverHasLease, CopiesAreCurrent, WritesReplaceTheirBase, PTL
-----------------------------------------------------------------------------
(* What a step does to payloads, calls and ledger.                         *)

InCall == {"leasing", "comparing", "writing", "observing"}

Busy == InCall \cup {"rendering"}

\* The operations of the ledger, with their ticks.
Rows == {<<ledger[i], TickAt(i)>> : i \in DOMAIN ledger}

Listed == {ledger[i] : i \in DOMAIN ledger}

\* What a call found in its copy when it began.
CallPre(call, o, pl, tick, rows) ==
  /\ pl.revision < MaxRevision
  /\ \/ call = "init"
     \/ /\ call = "prepare" /\ o \in Ops /\ pl.status[o] = "unknown"
        /\ \A q \in Ops : OpRegion[q] = OpRegion[o] => pl.status[q] # "prepared"
     \/ call = "finalize" /\ o \in Ops /\ pl.status[o] = "prepared" /\ <<o, tick>> \in rows
     \/ call = "abort" /\ o \in Ops /\ pl.status[o] = "prepared"

CallOK(p) ==
  /\ work[p].step \in InCall => CallPre(work[p].call, work[p].op, payload[p], work[p].tick, Rows)
  /\ work[p].step = "rendering" => work[p].op \in Ops /\ payload[p].status[work[p].op] = "finalized"

Others(p) == \A q \in Opens \ {p} : work'[q] = work[q] /\ payload'[q] = payload[q]

SameCall(p) == work'[p].call = work[p].call /\ work'[p].op = work[p].op /\ work'[p].tick = work[p].tick

Quiet == UNCHANGED <<disk, ledger, files, acked>>

Stands == Quiet /\ UNCHANGED <<work, payload, fenced>>

\* The process ends its call, or is loaded or unloaded.
Rests(p) ==
  /\ Quiet /\ Others(p)
  /\ payload'[p] \in {payload[p], disk, InitialPayload}
  /\ \/ work'[p].step \in {"idle", "abandoning"} /\ fenced' \subseteq fenced \cup {p}
     \/ work'[p].step = "unloaded" /\ fenced' \subseteq fenced \ {p}

GoesOn(p) ==
  /\ Quiet /\ Others(p) /\ SameCall(p) /\ UNCHANGED fenced /\ payload'[p] = payload[p]
  /\ work[p].step \in InCall /\ work'[p].step \in InCall

Begins(p) ==
  /\ Quiet /\ Others(p) /\ UNCHANGED fenced /\ payload'[p] = payload[p] /\ p \notin fenced
  /\ \/ /\ work'[p].step = "leasing"
        /\ CallPre(work'[p].call, work'[p].op, payload[p], work'[p].tick, Rows)
        /\ work'[p].call = "abort" => work'[p].op \notin Listed
     \/ /\ work'[p].step = "rendering"
        /\ work'[p].op \in Ops /\ payload[p].status[work'[p].op] = "finalized"

Commits(p, o) ==
  /\ UNCHANGED <<disk, files, acked, work, payload, fenced>>
  /\ Ready(p) /\ payload[p].status[o] = "prepared" /\ o \notin Listed
  /\ ledger' = Append(ledger, o)

Writes(p) ==
  /\ work[p].step = "writing" /\ disk' = NextRevision(p)
  /\ UNCHANGED <<ledger, files, acked, fenced>> /\ Others(p)
  /\ \/ payload'[p] = payload[p] /\ work'[p].step = "observing" /\ SameCall(p)
     \/ /\ payload'[p] = NextRevision(p) /\ work[p].call = "finalize"
        /\ work'[p].step = "rendering" /\ SameCall(p)
     \/ payload'[p] = NextRevision(p) /\ work'[p].step = "idle"

Learns(p) ==
  /\ Quiet /\ Others(p) /\ UNCHANGED fenced
  /\ work[p].step = "observing" /\ work[p].call = "finalize" /\ disk = NextRevision(p)
  /\ payload'[p] = NextRevision(p) /\ work'[p].step = "rendering" /\ SameCall(p)

Renders(p) ==
  /\ UNCHANGED <<disk, ledger, payload, fenced>> /\ Others(p)
  /\ work[p].step = "rendering" /\ work'[p].step = "idle"
  /\ files' = [files EXCEPT ![OpRegion[work[p].op]] = Rendered(p, OpRegion[work[p].op])]
  /\ acked' = acked \cup {work[p].op}

KindOf(p) ==
  \/ Rests(p) \/ GoesOn(p) \/ Begins(p) \/ Writes(p) \/ Learns(p) \/ Renders(p)
  \/ \E o \in Ops : Commits(p, o)

\* Whoever is inside a call, or has not loaded the file, is not fenced.
NotFenced == \A p \in Opens : work[p].step \in Busy \cup {"unloaded"} => p \notin fenced

\* A prepared operation holds its region.
LEMMA HolderHolds ==
  ASSUME NEW pl, NEW o \in Ops, pl.status[o] = "unknown", ~Driver(pl)!PrepareThrows(o)
  PROVE  \A q \in Ops : OpRegion[q] = OpRegion[o] => pl.status[q] # "prepared"
<1>1. SUFFICES ASSUME NEW q \in Ops, OpRegion[q] = OpRegion[o], pl.status[q] = "prepared" PROVE FALSE
  OBVIOUS
<1> DEFINE h == CHOOSE k \in Ops : OpRegion[k] = OpRegion[o] /\ pl.status[k] = "prepared"
<1>2. h \in Ops /\ pl.status[h] = "prepared" BY <1>1
<1>3. HolderIn(pl)[OpRegion[o]] = h
  <2>1. OpRegion[o] \in Regions BY MarkdownAssumption
  <2> QED BY <1>1, <2>1 DEF HolderIn
<1> HIDE DEF h
<1>4. HolderIn(pl)[OpRegion[o]] \in {NoOp, o} BY DEF Driver!PrepareThrows, Driver!RegionBusy
<1> QED BY <1>2, <1>3, <1>4, MarkdownAssumption

LEMMA TickIsThere ==
  ASSUME ledger \in Seq(Ops), NEW o, Contains(ledger, o)
  PROVE  <<o, TickOf(o)>> \in Rows /\ o \in Listed
<1> DEFINE i == CHOOSE k \in DOMAIN ledger : ledger[k] = o
<1>1. PICK k \in DOMAIN ledger : ledger[k] = o BY DEF Contains
<1>2. i \in DOMAIN ledger /\ ledger[i] = o BY <1>1
<1>3. TickOf(o) = TickAt(i) BY DEF TickOf
<1> HIDE DEF i
<1> QED BY <1>2, <1>3 DEF Rows, Listed

\* Every step is of one of these kinds.
LEMMA KindOfStep ==
  ASSUME IInv, JInv, NotFenced, [Next]_vars
  PROVE  Stands \/ \E p \in Opens : KindOf(p)
<1> USE DEF IInv, LeaseTypeOK, JInv, JType, JWorks, StepNames, CallNames, Quiet, Others
<1>0. \A p \in Opens : \A v : payload' = [payload EXCEPT ![p] = v] =>
        payload'[p] = v /\ \A q \in Opens \ {p} : payload'[q] = payload[q]
  BY DEF CopiesOK
<1>1. CASE UNCHANGED vars BY <1>1 DEF vars, journalVars, Stands
<1>2. ASSUME NEW p \in Opens, Load(p) \/ LoadFails(p) \/ AbandonOpen(p)
      PROVE  KindOf(p)
  <2>1. CASE Load(p)
    <3>1. CASE disk.revision = 0
      <4>1. Becomes(p, "leasing", "init", NoOp, 0) /\ UNCHANGED payload BY <2>1, <3>1, StartsTo, TickZero DEF Load
      <4>2. payload[p] = InitialPayload BY <2>1 DEF Load, At, WorkOK, WorkAt
      <4>3. payload[p].revision = 0 BY <4>2 DEF InitialPayload
      <4>4. payload[p].revision < MaxRevision BY <4>3, MarkdownAssumption
      <4>5. CallPre(work'[p].call, work'[p].op, payload[p], work'[p].tick, Rows)
        BY <4>1, <4>4 DEF Becomes, CallPre
      <4>6. p \notin fenced BY <2>1 DEF Load, At, NotFenced, Busy
      <4>7. Begins(p) BY <2>1, <3>1, <4>1, <4>5, <4>6 DEF Load, Begins, Becomes
      <4> QED BY <4>7 DEF KindOf
    <3>2. CASE disk.revision # 0
      <4>1. Becomes(p, "idle", "none", NoOp, 0) \/ Becomes(p, "abandoning", "none", NoOp, 0)
        BY <2>1, <3>2, ReturnsTo, StartsTo, TickZero DEF Load
      <4>2. payload'[p] \in {payload[p], disk} /\ \A q \in Opens \ {p} : payload'[q] = payload[q]
        BY <1>0, <2>1, <3>2 DEF Load
      <4>3. Rests(p) BY <2>1, <4>1, <4>2 DEF Load, Rests, Becomes
      <4> QED BY <4>3 DEF KindOf
    <3> QED BY <3>1, <3>2
  <2>2. CASE LoadFails(p)
    <3>1. Becomes(p, "abandoning", "none", NoOp, 0) BY <2>2, StartsTo, TickZero DEF LoadFails
    <3>2. Rests(p) BY <2>2, <3>1 DEF LoadFails, Rests, Becomes
    <3> QED BY <3>2 DEF KindOf
  <2>3. CASE AbandonOpen(p)
    <3>1. Becomes(p, "unloaded", "none", NoOp, 0) BY <2>3, StartsTo, TickZero DEF AbandonOpen
    <3>2. Rests(p) BY <2>3, <3>1 DEF AbandonOpen, Rests, Becomes
    <3> QED BY <3>2 DEF KindOf
  <2> QED BY <1>2, <2>1, <2>2, <2>3
<1>3. ASSUME NEW p \in Opens, Call(p)
      PROVE  KindOf(p)
  <2> PICK o \in Ops :
        CallPrepare(p, o) \/ Commit(p, o) \/ CallFinalize(p, o) \/ CallRepeat(p, o) \/ CallAbort(p, o)
    BY <1>3 DEF Call
  <2>0. MayWrite(p) => payload[p].revision < MaxRevision BY DEF MayWrite
  <2>1. CASE CallPrepare(p, o)
    <3>1. Becomes(p, "leasing", "prepare", o, 0) BY <2>1, StartsTo, TickZero DEF CallPrepare
    <3>2. CallPre("prepare", o, payload[p], 0, Rows) BY <2>1, HolderHolds DEF CallPrepare, CallPre, MayWrite
    <3>3. Begins(p) BY <2>1, <3>1, <3>2 DEF CallPrepare, MayWrite, Ready, Begins, Becomes
    <3> QED BY <3>3 DEF KindOf
  <2>2. CASE Commit(p, o)
    <3>1. o \notin Listed BY <2>2 DEF Commit, Contains, Listed
    <3>2. Commits(p, o) BY <2>2, <3>1 DEF Commit, Commits
    <3> QED BY <3>2 DEF KindOf
  <2>3. CASE CallFinalize(p, o)
    <3>1. Becomes(p, "leasing", "finalize", o, TickOf(o)) BY <2>3, StartsTo, TickInNat DEF CallFinalize
    <3>2. CallPre("finalize", o, payload[p], TickOf(o), Rows)
      BY <2>3, TickIsThere DEF CallFinalize, CallPre, MayWrite
    <3>3. Begins(p) BY <2>3, <3>1, <3>2 DEF CallFinalize, MayWrite, Ready, Begins, Becomes
    <3> QED BY <3>3 DEF KindOf
  <2>4. CASE CallRepeat(p, o)
    <3>1. Becomes(p, "rendering", "finalize", o, TickOf(o)) BY <2>4, StartsTo, TickInNat DEF CallRepeat
    <3>2. Begins(p) BY <2>4, <3>1 DEF CallRepeat, Ready, Begins, Becomes
    <3> QED BY <3>2 DEF KindOf
  <2>5. CASE CallAbort(p, o)
    <3>1. Becomes(p, "leasing", "abort", o, 0) BY <2>5, StartsTo, TickZero DEF CallAbort
    <3>2. CallPre("abort", o, payload[p], 0, Rows) BY <2>5 DEF CallAbort, CallPre, MayWrite
    <3>3. o \notin Listed BY <2>5 DEF CallAbort, Contains, Listed
    <3>4. Begins(p) BY <2>5, <3>1, <3>2, <3>3 DEF CallAbort, MayWrite, Ready, Begins, Becomes
    <3> QED BY <3>4 DEF KindOf
  <2> QED BY <2>1, <2>2, <2>3, <2>4, <2>5
<1>4. ASSUME NEW p \in Opens, Persist(p)
      PROVE  KindOf(p)
  <2>0. Fails(p) => Becomes(p, "idle", "none", NoOp, 0) \/ Becomes(p, "abandoning", "none", NoOp, 0)
    BY FailsTo
  <2>1. CASE CheckLease(p)
    <3>1. CASE lock = p
      <4>1. Becomes(p, "comparing", work[p].call, work[p].op, work[p].tick) BY <2>1, <3>1, StepsTo DEF CheckLease
      <4>2. GoesOn(p) BY <2>1, <4>1 DEF CheckLease, At, GoesOn, Becomes, SameCall, InCall
      <4> QED BY <4>2 DEF KindOf
    <3>2. CASE lock # p
      <4>1. Rests(p) BY <2>0, <2>1, <3>2 DEF CheckLease, Rests, Becomes
      <4> QED BY <4>1 DEF KindOf
    <3> QED BY <3>1, <3>2
  <2>2. CASE CheckRevision(p)
    <3>1. CASE Unchanged(p)
      <4>1. Becomes(p, "writing", work[p].call, work[p].op, work[p].tick) BY <2>2, <3>1, StepsTo DEF CheckRevision
      <4>2. GoesOn(p) BY <2>2, <4>1 DEF CheckRevision, At, GoesOn, Becomes, SameCall, InCall
      <4> QED BY <4>2 DEF KindOf
    <3>2. CASE ~Unchanged(p)
      <4>1. Rests(p) BY <2>0, <2>2, <3>2 DEF CheckRevision, Rests, Becomes
      <4> QED BY <4>1 DEF KindOf
    <3> QED BY <3>1, <3>2
  <2>3. CASE Rename(p)
    <3>1. \/ work[p].call = "finalize" /\ Becomes(p, "rendering", work[p].call, work[p].op, work[p].tick)
          \/ Becomes(p, "idle", "none", NoOp, 0)
      BY <2>3, StepsTo, ReturnsTo DEF Rename, Written
    <3>2. payload'[p] = NextRevision(p) /\ \A q \in Opens \ {p} : payload'[q] = payload[q]
      BY <1>0, <2>3 DEF Rename, Adopts
    <3>3. Writes(p) BY <2>3, <3>1, <3>2 DEF Rename, At, Writes, Becomes, SameCall
    <3> QED BY <3>3 DEF KindOf
  <2>4. CASE RenameFails(p)
    <3>1. Rests(p) BY <2>0, <2>4 DEF RenameFails, Fences, Rests, Becomes
    <3> QED BY <3>1 DEF KindOf
  <2>5. CASE SyncFails(p)
    <3>1. Becomes(p, "observing", work[p].call, work[p].op, work[p].tick) BY <2>5, StepsTo DEF SyncFails
    <3>2. Writes(p) BY <2>5, <3>1 DEF SyncFails, At, Writes, Becomes, SameCall
    <3> QED BY <3>2 DEF KindOf
  <2>6. CASE Observe(p)
    <3>1. CASE disk = NextRevision(p)
      <4>1. payload'[p] = disk /\ \A q \in Opens \ {p} : payload'[q] = payload[q]
        BY <1>0, <2>6, <3>1 DEF Observe, Adopts
      <4>2. CASE work[p].call = "finalize"
        <5>1. Becomes(p, "rendering", work[p].call, work[p].op, work[p].tick)
          BY <2>6, <3>1, <4>2, StepsTo DEF Observe, Written
        <5>2. Learns(p) BY <2>6, <3>1, <4>1, <4>2, <5>1 DEF Observe, At, Learns, Becomes, SameCall
        <5> QED BY <5>2 DEF KindOf
      <4>3. CASE work[p].call # "finalize"
        <5>1. Becomes(p, "idle", "none", NoOp, 0) BY <2>6, <3>1, <4>3, ReturnsTo DEF Observe, Written
        <5>2. Rests(p) BY <2>6, <3>1, <4>1, <5>1 DEF Observe, Rests, Becomes
        <5> QED BY <5>2 DEF KindOf
      <4> QED BY <4>2, <4>3
    <3>2. CASE disk # NextRevision(p)
      <4>1. Rests(p) BY <2>0, <2>6, <3>2 DEF Observe, Fences, Rests, Becomes
      <4> QED BY <4>1 DEF KindOf
    <3> QED BY <3>1, <3>2
  <2>7. CASE ObserveFails(p)
    <3>1. Rests(p) BY <2>0, <2>7 DEF ObserveFails, Fences, Rests, Becomes
    <3> QED BY <3>1 DEF KindOf
  <2>8. CASE Render(p)
    <3>1. Becomes(p, "idle", "none", NoOp, 0) BY <2>8, ReturnsTo DEF Render
    <3>2. CASE Rebuilds(payload[p])
      <4>1. Renders(p) BY <2>8, <3>1, <3>2 DEF Render, At, Renders, Becomes
      <4> QED BY <4>1 DEF KindOf
    <3>3. CASE ~Rebuilds(payload[p])
      <4>1. Rests(p) BY <2>8, <3>1, <3>3 DEF Render, Fences, Rests, Becomes
      <4> QED BY <4>1 DEF KindOf
    <3> QED BY <3>2, <3>3
  <2>9. CASE RenderFails(p)
    <3>1. Becomes(p, "idle", "none", NoOp, 0) BY <2>9, ReturnsTo DEF RenderFails
    <3>2. Rests(p) BY <2>9, <3>1 DEF RenderFails, Rests, Becomes
    <3> QED BY <3>2 DEF KindOf
  <2> QED BY <1>4, <2>1, <2>2, <2>3, <2>4, <2>5, <2>6, <2>7, <2>8, <2>9 DEF Persist
<1>5. ASSUME NEW p \in Opens, Close(p) \/ Crash(p)
      PROVE  KindOf(p)
  <2>1. CASE Close(p)
    <3>1. payload'[p] = InitialPayload /\ \A q \in Opens \ {p} : payload'[q] = payload[q]
      BY <1>0, <2>1 DEF Close
    <3>2. Rests(p) BY <2>1, <3>1 DEF Close, Idle, Rests
    <3> QED BY <3>2 DEF KindOf
  <2>2. CASE Crash(p)
    <3>1. payload'[p] = InitialPayload /\ \A q \in Opens \ {p} : payload'[q] = payload[q]
      BY <1>0, <2>2 DEF Crash
    <3>2. Becomes(p, "unloaded", "none", NoOp, 0) BY <2>2, StartsTo, TickZero DEF Crash
    <3>3. Rests(p) BY <2>2, <3>1, <3>2 DEF Crash, Rests, Becomes
    <3> QED BY <3>3 DEF KindOf
  <2> QED BY <1>5, <2>1, <2>2
<1>6. ASSUME NEW p \in Opens, (AcquireStep(p) \/ ReleaseUnlinks(p)) /\ UNCHANGED journalVars
      PROVE  Stands
  BY <1>6 DEF journalVars, Stands
<1> QED BY <1>1, <1>2, <1>3, <1>4, <1>5, <1>6 DEF Next

-----------------------------------------------------------------------------
(* Well-formed payloads.                                                   *)

RegionStates == [generation : Nat, state : {"open", "closed"}, cells : Seq(Ops)]

Stages == [generation : Nat, alreadyForgotten : BOOLEAN, tombstoned : Nat]

Payloads ==
  [revision : 0 .. MaxRevision, regions : [Regions -> RegionStates],
   status : [Ops -> {"unknown", "prepared", "finalized"}],
   stage : [Ops -> Stages], ledger : [Ops -> Nat]]

\* What an operation is staged against, and what it makes of its region.
StageOn(o, region) ==
  [generation |-> IF OpKind[o] = "store" /\ region.state = "closed"
                  THEN region.generation + 1 ELSE region.generation,
   alreadyForgotten |-> OpKind[o] = "forget" /\ region.state = "closed",
   tombstoned |-> IF OpKind[o] = "forget" /\ region.state = "open" THEN Len(region.cells) ELSE 0]

MutatedOn(o, region) ==
  [generation |-> StageOn(o, region).generation,
   state |-> IF OpKind[o] = "store" THEN "open" ELSE "closed",
   cells |-> CASE OpKind[o] = "forget" -> << >>
               [] OpKind[o] = "store" /\ region.state = "closed" -> <<o>>
               [] OTHER -> Append(region.cells, o)]

OnePrepared(pl) ==
  \A o, q \in Ops :
    pl.status[o] = "prepared" /\ pl.status[q] = "prepared" /\ OpRegion[o] = OpRegion[q] => o = q

\* What is prepared is staged on the region as it is, what is finalized is in
\* the ledger.
PayloadOK(pl, rows) ==
  /\ pl \in Payloads
  /\ OnePrepared(pl)
  /\ \A o \in Ops : pl.status[o] = "prepared" => pl.stage[o] = StageOn(o, pl.regions[OpRegion[o]])
  /\ \A o \in Ops : pl.status[o] = "finalized" => <<o, pl.ledger[o]>> \in rows

LEMMA FreshIs ==
  ASSUME NEW pl, NEW o
  PROVE  FreshStage(pl, o) = StageOn(o, pl.regions[OpRegion[o]])
BY DEF FreshStage, StageOn, Driver!StageFor, Driver!NextGeneration, Driver!Tombstoned

LEMMA MutatedIs ==
  ASSUME NEW pl, NEW o, NEW region
  PROVE  Driver(pl)!Mutated(o, OpKind[o], StageOn(o, region).generation, region) = MutatedOn(o, region)
BY DEF MutatedOn, Driver!Mutated

LEMMA OnTypes ==
  ASSUME NEW o \in Ops, NEW region \in RegionStates
  PROVE  StageOn(o, region) \in Stages /\ MutatedOn(o, region) \in RegionStates
<1>1. region.generation \in Nat /\ region.cells \in Seq(Ops) /\ region.state \in {"open", "closed"}
  BY DEF RegionStates
<1>2. Len(region.cells) \in Nat BY <1>1
<1>3. StageOn(o, region) \in Stages BY <1>1, <1>2 DEF StageOn, Stages
<1>4. << >> \in Seq(Ops) /\ <<o>> \in Seq(Ops) /\ Append(region.cells, o) \in Seq(Ops) BY <1>1
<1>5. OpKind[o] \in {"store", "forget"} BY MarkdownAssumption
<1>6. StageOn(o, region).generation \in Nat BY <1>1 DEF StageOn
<1>7. MutatedOn(o, region) \in RegionStates BY <1>4, <1>5, <1>6 DEF MutatedOn, RegionStates
<1> QED BY <1>3, <1>7

\* A call changes one operation, and its region when it is finalized.
Changes(pl, next, call, o, tick) ==
  /\ next.revision = pl.revision + 1
  /\ next.status = IF call = "init" THEN pl.status
                   ELSE [pl.status EXCEPT ![o] = CASE call = "prepare" -> "prepared"
                                                   [] call = "finalize" -> "finalized"
                                                   [] call = "abort" -> "unknown"]
  /\ next.regions = IF call = "finalize"
                    THEN [pl.regions EXCEPT ![OpRegion[o]] = MutatedOn(o, @)]
                    ELSE pl.regions
  /\ next.stage = CASE call = "prepare" -> [pl.stage EXCEPT ![o] = StageOn(o, pl.regions[OpRegion[o]])]
                    [] call = "abort" -> [pl.stage EXCEPT ![o] = NoStage]
                    [] OTHER -> pl.stage
  /\ next.ledger = IF call = "finalize" THEN [pl.ledger EXCEPT ![o] = tick] ELSE pl.ledger

LEMMA RevisedChanges ==
  ASSUME NEW pl \in Payloads, NEW call \in Writing, NEW o, call = "init" \/ o \in Ops, NEW tick
  PROVE  /\ Changes(pl, Revised(pl, call, o, tick), call, o, tick)
         /\ Revised(pl, call, o, tick) =
              [revision |-> pl.revision + 1,
               regions |-> Revised(pl, call, o, tick).regions,
               status |-> Revised(pl, call, o, tick).status,
               stage |-> Revised(pl, call, o, tick).stage,
               ledger |-> Revised(pl, call, o, tick).ledger]
<1> DEFINE Fields(q, n, st, re, sg, le) ==
      q = [revision |-> n, regions |-> re, status |-> st, stage |-> sg, ledger |-> le]
<1>1. Fields(pl, pl.revision, pl.status, pl.regions, pl.stage, pl.ledger) BY DEF Payloads
<1>2. ASSUME NEW q, NEW n, NEW st, NEW re, NEW sg, NEW le, Fields(q, n, st, re, sg, le), NEW v
      PROVE  /\ Fields([q EXCEPT !.revision = @ + 1], n + 1, st, re, sg, le)
             /\ Fields([q EXCEPT !.status = v], n, v, re, sg, le)
             /\ Fields([q EXCEPT !.stage = v], n, st, re, v, le)
             /\ Fields([q EXCEPT !.regions = v], n, st, v, sg, le)
             /\ Fields([q EXCEPT !.ledger = v], n, st, re, sg, v)
  <2>1. Fields([q EXCEPT !.revision = @ + 1], n + 1, st, re, sg, le) BY <1>2
  <2>2. Fields([q EXCEPT !.status = v], n, v, re, sg, le) BY <1>2
  <2>3. Fields([q EXCEPT !.stage = v], n, st, re, v, le) BY <1>2
  <2>4. Fields([q EXCEPT !.regions = v], n, st, v, sg, le) BY <1>2
  <2>5. Fields([q EXCEPT !.ledger = v], n, st, re, sg, v) BY <1>2
  <2> QED BY <2>1, <2>2, <2>3, <2>4, <2>5
<1>3. ASSUME NEW q, NEW n, NEW st, NEW re, NEW sg, NEW le, Fields(q, n, st, re, sg, le)
      PROVE  q.revision = n /\ q.status = st /\ q.regions = re /\ q.stage = sg /\ q.ledger = le
  BY <1>3
<1>4. FreshStage(pl, o) = StageOn(o, pl.regions[OpRegion[o]]) BY FreshIs
<1> HIDE DEF Fields
<1>5. CASE call = "init"
  <2>1. Revised(pl, call, o, tick) = [pl EXCEPT !.revision = @ + 1] BY <1>5 DEF Revised
  <2> DEFINE y == [pl EXCEPT !.revision = @ + 1]
  <2>0. Fields(y, pl.revision + 1, pl.status, pl.regions, pl.stage, pl.ledger) BY <1>1, <1>2
  <2>2. Fields(Revised(pl, call, o, tick), pl.revision + 1, pl.status, pl.regions, pl.stage, pl.ledger)
    BY <2>0, <2>1 DEF Fields
  <2>3. Changes(pl, Revised(pl, call, o, tick), call, o, tick) BY <1>3, <1>5, <2>2 DEF Changes
  <2> QED BY <1>3, <2>2, <2>3 DEF Fields
<1>6. CASE call = "prepare"
  <2> DEFINE st == [pl.status EXCEPT ![o] = "prepared"]
             sg == [pl.stage EXCEPT ![o] = StageOn(o, pl.regions[OpRegion[o]])]
             q == [pl EXCEPT !.status = st]
  <2>1. Fields(q, pl.revision, st, pl.regions, pl.stage, pl.ledger) BY <1>1, <1>2
  <2>2. Staged(pl, o) = [q EXCEPT !.stage = sg] BY <1>1, <1>4, <2>1, <1>3 DEF Staged
  <2> DEFINE z == [q EXCEPT !.stage = sg]
             y == [z EXCEPT !.revision = @ + 1]
  <2>3. Fields(z, pl.revision, st, pl.regions, sg, pl.ledger) BY <1>2, <2>1
  <2>7. Fields(y, pl.revision + 1, st, pl.regions, sg, pl.ledger) BY <1>2, <2>3
  <2>4. Revised(pl, call, o, tick) = y BY <1>6, <2>2 DEF Revised
  <2>5. Fields(Revised(pl, call, o, tick), pl.revision + 1, st, pl.regions, sg, pl.ledger)
    BY <2>4, <2>7 DEF Fields
  <2>6. Changes(pl, Revised(pl, call, o, tick), call, o, tick) BY <1>3, <1>6, <2>5 DEF Changes
  <2> QED BY <1>3, <2>5, <2>6 DEF Fields
<1>7. CASE call = "finalize"
  <2> DEFINE st == [pl.status EXCEPT ![o] = "finalized"]
             le == [pl.ledger EXCEPT ![o] = tick]
             re == [pl.regions EXCEPT ![OpRegion[o]] = MutatedOn(o, @)]
             q == [pl EXCEPT !.status = st]
             x == [q EXCEPT !.ledger = le]
  <2>1. Fields(q, pl.revision, st, pl.regions, pl.stage, pl.ledger) BY <1>1, <1>2
  <2>2. Fields(x, pl.revision, st, pl.regions, pl.stage, le) BY <1>2, <2>1
  <2>3. Driver(pl)!Mutated(o, OpKind[o], FreshStage(pl, o).generation, pl.regions[OpRegion[o]])
          = MutatedOn(o, pl.regions[OpRegion[o]])
    BY <1>4, MutatedIs
  <2>4. Finalized(pl, o, tick) = [x EXCEPT !.regions = re]
    <3>1. q.ledger = pl.ledger /\ x.regions = pl.regions BY <1>3, <2>1, <2>2
    <3> QED BY <2>3, <3>1 DEF Finalized
  <2> DEFINE z == [x EXCEPT !.regions = re]
             y == [z EXCEPT !.revision = @ + 1]
  <2>5. Fields(z, pl.revision, st, re, pl.stage, le)
    <3> HIDE DEF re
    <3> QED BY <1>2, <2>2
  <2>9. Fields(y, pl.revision + 1, st, re, pl.stage, le) BY <1>2, <2>5
  <2>6. Revised(pl, call, o, tick) = y BY <1>7, <2>4 DEF Revised
  <2>7. Fields(Revised(pl, call, o, tick), pl.revision + 1, st, re, pl.stage, le) BY <2>6, <2>9 DEF Fields
  <2>8. Changes(pl, Revised(pl, call, o, tick), call, o, tick) BY <1>3, <1>7, <2>7 DEF Changes
  <2> QED BY <1>3, <2>7, <2>8 DEF Fields
<1>8. CASE call = "abort"
  <2> DEFINE st == [pl.status EXCEPT ![o] = "unknown"]
             sg == [pl.stage EXCEPT ![o] = NoStage]
             q == [pl EXCEPT !.status = st]
  <2>1. Fields(q, pl.revision, st, pl.regions, pl.stage, pl.ledger) BY <1>1, <1>2
  <2>2. Unstaged(pl, o) = [q EXCEPT !.stage = sg]
    <3>1. q.stage = pl.stage BY <1>3, <2>1
    <3> QED BY <3>1 DEF Unstaged
  <2> DEFINE z == [q EXCEPT !.stage = sg]
             y == [z EXCEPT !.revision = @ + 1]
  <2>3. Fields(z, pl.revision, st, pl.regions, sg, pl.ledger) BY <1>2, <2>1
  <2>7. Fields(y, pl.revision + 1, st, pl.regions, sg, pl.ledger) BY <1>2, <2>3
  <2>4. Revised(pl, call, o, tick) = y BY <1>8, <2>2 DEF Revised
  <2>5. Fields(Revised(pl, call, o, tick), pl.revision + 1, st, pl.regions, sg, pl.ledger)
    BY <2>4, <2>7 DEF Fields
  <2>6. Changes(pl, Revised(pl, call, o, tick), call, o, tick) BY <1>3, <1>8, <2>5 DEF Changes
  <2> QED BY <1>3, <2>5, <2>6 DEF Fields
<1> QED BY <1>5, <1>6, <1>7, <1>8 DEF Writing

LEMMA TickAtNat ==
  ASSUME ledger \in Seq(Ops), NEW i \in DOMAIN ledger
  PROVE  TickAt(i) \in Nat
<1>1. i \in Nat OBVIOUS
<1>2. IsFiniteSet(1 .. i) BY <1>1, FS_Interval
<1>3. IsFiniteSet({j \in 1 .. i : OpSession[ledger[j]] = OpSession[ledger[i]]}) BY <1>2, FS_Subset
<1> QED BY <1>3, FS_CardinalityType DEF TickAt

LEMMA IsPayload ==
  ASSUME NEW n, NEW rev \in 0 .. MaxRevision, NEW re \in [Regions -> RegionStates],
         NEW st \in [Ops -> {"unknown", "prepared", "finalized"}], NEW sg \in [Ops -> Stages],
         NEW le \in [Ops -> Nat],
         n = [revision |-> rev, regions |-> re, status |-> st, stage |-> sg, ledger |-> le]
  PROVE  n \in Payloads
BY DEF Payloads

\* A call keeps a payload well formed.
LEMMA RevisedOK ==
  ASSUME NEW rows \in SUBSET (Ops \X Nat), NEW pl, PayloadOK(pl, rows), NEW call \in Writing, NEW o, NEW tick,
         CallPre(call, o, pl, tick, rows)
  PROVE  PayloadOK(Revised(pl, call, o, tick), rows)
<1>1. PICK n : n = Revised(pl, call, o, tick) OBVIOUS
<1>2. pl \in Payloads /\ (call = "init" \/ o \in Ops) BY DEF PayloadOK, CallPre
<1>3. /\ Changes(pl, n, call, o, tick)
      /\ n = [revision |-> pl.revision + 1, regions |-> n.regions, status |-> n.status,
              stage |-> n.stage, ledger |-> n.ledger]
  BY <1>1, <1>2, RevisedChanges
<1>4. /\ pl.revision \in 0 .. MaxRevision /\ pl.regions \in [Regions -> RegionStates]
      /\ pl.status \in [Ops -> {"unknown", "prepared", "finalized"}]
      /\ pl.stage \in [Ops -> Stages] /\ pl.ledger \in [Ops -> Nat]
  BY <1>2 DEF Payloads
<1>5. pl.revision + 1 \in 0 .. MaxRevision BY <1>4, MarkdownAssumption DEF CallPre
<1>6. /\ \A q \in Ops : OpRegion[q] \in Regions /\ pl.regions[OpRegion[q]] \in RegionStates
      /\ \A q \in Ops : StageOn(q, pl.regions[OpRegion[q]]) \in Stages
                        /\ MutatedOn(q, pl.regions[OpRegion[q]]) \in RegionStates
  BY <1>4, OnTypes, MarkdownAssumption
<1>7. NoStage \in Stages BY DEF NoStage, Stages
<1>8. OnePrepared(pl) BY DEF PayloadOK
<1>9. \A q \in Ops : pl.status[q] = "prepared" => pl.stage[q] = StageOn(q, pl.regions[OpRegion[q]])
  BY DEF PayloadOK
<1>10. \A q \in Ops : pl.status[q] = "finalized" => <<q, pl.ledger[q]>> \in rows BY DEF PayloadOK
<1>11. CASE call = "init"
  <2>1. n.status = pl.status /\ n.regions = pl.regions /\ n.stage = pl.stage /\ n.ledger = pl.ledger
    BY <1>3, <1>11 DEF Changes
  <2>3. n.regions \in [Regions -> RegionStates] /\ n.ledger \in [Ops -> Nat] BY <1>4, <2>1
  <2>4. n.status \in [Ops -> {"unknown", "prepared", "finalized"}] /\ n.stage \in [Ops -> Stages]
    BY <1>4, <2>1
  <2>2. n \in Payloads BY <1>3, <1>5, <2>3, <2>4, IsPayload
  <2> QED BY <1>1, <1>8, <1>9, <1>10, <2>1, <2>2 DEF PayloadOK, OnePrepared
<1>12. CASE call = "prepare"
  <2>1. o \in Ops /\ pl.status[o] = "unknown" /\ \A q \in Ops : OpRegion[q] = OpRegion[o] => pl.status[q] # "prepared"
    BY <1>12 DEF CallPre
  <2>2. /\ n.status = [pl.status EXCEPT ![o] = "prepared"] /\ n.regions = pl.regions
        /\ n.stage = [pl.stage EXCEPT ![o] = StageOn(o, pl.regions[OpRegion[o]])] /\ n.ledger = pl.ledger
    BY <1>3, <1>12 DEF Changes
  <2>3. n.status \in [Ops -> {"unknown", "prepared", "finalized"}] /\ n.stage \in [Ops -> Stages]
    BY <1>4, <1>6, <2>1, <2>2
  <2>9. n.regions \in [Regions -> RegionStates] /\ n.ledger \in [Ops -> Nat] BY <1>4, <2>2
  <2>4. n \in Payloads BY <1>3, <1>5, <2>3, <2>9, IsPayload
  <2>5. /\ n.status[o] = "prepared" /\ n.stage[o] = StageOn(o, pl.regions[OpRegion[o]])
        /\ \A q \in Ops : q # o => n.status[q] = pl.status[q] /\ n.stage[q] = pl.stage[q]
    BY <1>4, <2>1, <2>2
  <2>6. OnePrepared(n) BY <1>8, <2>1, <2>5 DEF OnePrepared
  <2>7. \A q \in Ops : n.status[q] = "prepared" => n.stage[q] = StageOn(q, n.regions[OpRegion[q]])
    BY <1>9, <2>2, <2>5
  <2>8. \A q \in Ops : n.status[q] = "finalized" => <<q, n.ledger[q]>> \in rows BY <1>10, <2>2, <2>5
  <2> QED BY <1>1, <2>4, <2>6, <2>7, <2>8 DEF PayloadOK
<1>13. CASE call = "finalize"
  <2>1. o \in Ops /\ pl.status[o] = "prepared" /\ <<o, tick>> \in rows BY <1>13 DEF CallPre
  <2>2. /\ n.status = [pl.status EXCEPT ![o] = "finalized"] /\ n.stage = pl.stage
        /\ n.regions = [pl.regions EXCEPT ![OpRegion[o]] = MutatedOn(o, @)]
        /\ n.ledger = [pl.ledger EXCEPT ![o] = tick]
    BY <1>3, <1>13 DEF Changes
  <2>3. tick \in Nat BY <2>1
  <2>4. n.status \in [Ops -> {"unknown", "prepared", "finalized"}] BY <1>4, <2>2
  <2>5. n.ledger \in [Ops -> Nat] BY <1>4, <2>2, <2>3
  <2>6. n.regions \in [Regions -> RegionStates]
    <3>1. n.regions = [pl.regions EXCEPT ![OpRegion[o]] = MutatedOn(o, pl.regions[OpRegion[o]])] BY <2>2
    <3> QED BY <1>4, <1>6, <2>1, <3>1
  <2>13. n.stage \in [Ops -> Stages] BY <1>4, <2>2
  <2>7. n \in Payloads BY <1>3, <1>5, <2>4, <2>5, <2>6, <2>13, IsPayload
  <2>8. /\ n.status[o] = "finalized" /\ n.ledger[o] = tick
        /\ \A q \in Ops : q # o => n.status[q] = pl.status[q] /\ n.ledger[q] = pl.ledger[q]
    BY <1>4, <2>1, <2>2
  <2>9. \A q \in Ops : OpRegion[q] # OpRegion[o] => n.regions[OpRegion[q]] = pl.regions[OpRegion[q]]
    BY <1>4, <1>6, <2>2
  <2>10. OnePrepared(n) BY <1>8, <2>8 DEF OnePrepared
  <2>11. \A q \in Ops : n.status[q] = "prepared" => n.stage[q] = StageOn(q, n.regions[OpRegion[q]])
    <3>1. SUFFICES ASSUME NEW q \in Ops, n.status[q] = "prepared"
                   PROVE  n.stage[q] = StageOn(q, n.regions[OpRegion[q]])
      OBVIOUS
    <3>2. q # o /\ pl.status[q] = "prepared" BY <2>8, <3>1
    <3>3. OpRegion[q] # OpRegion[o] BY <1>8, <2>1, <3>2 DEF OnePrepared
    <3> QED BY <1>9, <2>2, <2>9, <3>2, <3>3
  <2>12. \A q \in Ops : n.status[q] = "finalized" => <<q, n.ledger[q]>> \in rows BY <1>10, <2>1, <2>8
  <2> QED BY <1>1, <2>7, <2>10, <2>11, <2>12 DEF PayloadOK
<1>14. CASE call = "abort"
  <2>1. o \in Ops /\ pl.status[o] = "prepared" BY <1>14 DEF CallPre
  <2>2. /\ n.status = [pl.status EXCEPT ![o] = "unknown"] /\ n.regions = pl.regions
        /\ n.stage = [pl.stage EXCEPT ![o] = NoStage] /\ n.ledger = pl.ledger
    BY <1>3, <1>14 DEF Changes
  <2>3. n.status \in [Ops -> {"unknown", "prepared", "finalized"}] /\ n.stage \in [Ops -> Stages]
    BY <1>4, <1>7, <2>2
  <2>9. n.regions \in [Regions -> RegionStates] /\ n.ledger \in [Ops -> Nat] BY <1>4, <2>2
  <2>4. n \in Payloads BY <1>3, <1>5, <2>3, <2>9, IsPayload
  <2>5. /\ n.status[o] = "unknown"
        /\ \A q \in Ops : q # o => n.status[q] = pl.status[q] /\ n.stage[q] = pl.stage[q]
    BY <1>4, <2>1, <2>2
  <2>6. OnePrepared(n) BY <1>8, <2>5 DEF OnePrepared
  <2>7. \A q \in Ops : n.status[q] = "prepared" => n.stage[q] = StageOn(q, n.regions[OpRegion[q]])
    BY <1>9, <2>2, <2>5
  <2>8. \A q \in Ops : n.status[q] = "finalized" => <<q, n.ledger[q]>> \in rows BY <1>10, <2>2, <2>5
  <2> QED BY <1>1, <2>4, <2>6, <2>7, <2>8 DEF PayloadOK
<1> QED BY <1>11, <1>12, <1>13, <1>14 DEF Writing

-----------------------------------------------------------------------------
(* The ledger only grows.                                                  *)

Grows == ledger' = ledger \/ \E o \in Ops : ledger' = Append(ledger, o)

LEMMA RowsType == ASSUME ledger \in Seq(Ops) PROVE Rows \in SUBSET (Ops \X Nat)
<1>1. \A i \in DOMAIN ledger : ledger[i] \in Ops OBVIOUS
<1> QED BY <1>1, TickAtNat DEF Rows

LEMMA GrownRows ==
  ASSUME ledger \in Seq(Ops), Grows
  PROVE  /\ ledger' \in Seq(Ops)
         /\ \A i \in DOMAIN ledger : i \in DOMAIN ledger' /\ ledger'[i] = ledger[i]
         /\ Rows \subseteq Rows'
<1>1. /\ ledger' \in Seq(Ops)
      /\ \A i \in DOMAIN ledger : i \in DOMAIN ledger' /\ ledger'[i] = ledger[i]
  BY DEF Grows
<1>2. ASSUME NEW i \in DOMAIN ledger PROVE TickAt(i)' = TickAt(i)
  <2>1. \A k \in 1 .. i : k \in DOMAIN ledger BY <1>2
  <2>2. {k \in 1 .. i : OpSession[ledger'[k]] = OpSession[ledger'[i]]}
          = {k \in 1 .. i : OpSession[ledger[k]] = OpSession[ledger[i]]}
    BY <1>1, <1>2, <2>1
  <2> QED BY <2>2 DEF TickAt
<1>3. ASSUME NEW row \in Rows PROVE row \in Rows'
  <2>1. PICK i \in DOMAIN ledger : row = <<ledger[i], TickAt(i)>> BY <1>3 DEF Rows
  <2>2. i \in DOMAIN ledger' /\ row = <<ledger'[i], TickAt(i)'>> BY <1>1, <1>2, <2>1
  <2> QED BY <2>2 DEF Rows
<1> QED BY <1>1, <1>3

LEMMA KeptByGrowth ==
  ASSUME NEW rows, NEW more, rows \subseteq more, NEW pl, NEW call, NEW o, NEW tick
  PROVE  /\ PayloadOK(pl, rows) => PayloadOK(pl, more)
         /\ CallPre(call, o, pl, tick, rows) => CallPre(call, o, pl, tick, more)
<1>1. PayloadOK(pl, rows) => PayloadOK(pl, more) BY DEF PayloadOK
<1>2. CallPre(call, o, pl, tick, rows) => CallPre(call, o, pl, tick, more) BY DEF CallPre
<1> QED BY <1>1, <1>2
-----------------------------------------------------------------------------
(* The payload invariant: the file and the copies are well formed, and     *)
(* every call still has what it began with.                                *)

NoRepeats == \A i, j \in DOMAIN ledger : ledger[i] = ledger[j] => i = j

PInv ==
  /\ NotFenced /\ NoRepeats
  /\ PayloadOK(disk, Rows)
  /\ \A p \in Opens : PayloadOK(payload[p], Rows)
  /\ \A p \in Opens : CallOK(p)

LEMMA InitialOK == ASSUME NEW rows PROVE PayloadOK(InitialPayload, rows)
<1> DEFINE n == InitialPayload
<1>1. n = [revision |-> 0, regions |-> [r \in Regions |-> Gen0], status |-> [o \in Ops |-> "unknown"],
           stage |-> [o \in Ops |-> NoStage], ledger |-> [o \in Ops |-> 0]]
  BY DEF InitialPayload
<1>2. Gen0 \in RegionStates BY DEF Gen0, RegionStates
<1>3. NoStage \in Stages BY DEF NoStage, Stages
<1>4. /\ 0 \in 0 .. MaxRevision
      /\ [r \in Regions |-> Gen0] \in [Regions -> RegionStates]
      /\ [o \in Ops |-> "unknown"] \in [Ops -> {"unknown", "prepared", "finalized"}]
      /\ [o \in Ops |-> NoStage] \in [Ops -> Stages]
      /\ [o \in Ops |-> 0] \in [Ops -> Nat]
  BY <1>2, <1>3, MarkdownAssumption
<1>5. n \in Payloads BY <1>1, <1>4, IsPayload
<1>6. \A o \in Ops : n.status[o] = "unknown" BY <1>1
<1> HIDE DEF n
<1>7. PayloadOK(n, rows) BY <1>5, <1>6 DEF PayloadOK, OnePrepared
<1> QED BY <1>7 DEF n

\* What a call is about to write is well formed.
LEMMA NextOK ==
  ASSUME JInv, PInv, NEW p \in Opens, work[p].step \in InCall
  PROVE  /\ PayloadOK(NextRevision(p), Rows)
         /\ work[p].call \in Writing
         /\ work[p].call = "init" \/ work[p].op \in Ops
         /\ payload[p] \in Payloads
         /\ Changes(payload[p], NextRevision(p), work[p].call, work[p].op, work[p].tick)
<1>1. PICK pl, call, o, tick : pl = payload[p] /\ call = work[p].call /\ o = work[p].op /\ tick = work[p].tick
  OBVIOUS
<1>2. PICK rows : rows = Rows OBVIOUS
<1>3. NextRevision(p) = Revised(pl, call, o, tick) BY <1>1 DEF NextRevision
<1>4. call \in Writing BY <1>1 DEF JInv, WorkOK, WorkAt, InCall
<1>5. CallPre(call, o, pl, tick, rows) BY <1>1, <1>2 DEF PInv, CallOK
<1>6. PayloadOK(pl, rows) BY <1>1, <1>2 DEF PInv
<1>7. rows \in SUBSET (Ops \X Nat) BY <1>2, RowsType DEF JInv, JType
<1>8. PayloadOK(Revised(pl, call, o, tick), rows) BY <1>4, <1>5, <1>6, <1>7, RevisedOK
<1>9. pl \in Payloads BY <1>6 DEF PayloadOK
<1>10. call = "init" \/ o \in Ops BY <1>5 DEF CallPre
<1>11. Changes(pl, Revised(pl, call, o, tick), call, o, tick) BY <1>4, <1>9, <1>10, RevisedChanges
<1> QED BY <1>1, <1>2, <1>3, <1>4, <1>8, <1>9, <1>10, <1>11

LEMMA StepGrows == ASSUME Stands \/ \E p \in Opens : KindOf(p) PROVE Grows
BY DEF Stands, KindOf, Rests, GoesOn, Begins, Writes, Learns, Renders, Commits, Quiet, Grows

LEMMA PayloadsStep ==
  ASSUME JInv, PInv, Stands \/ \E p \in Opens : KindOf(p)
  PROVE  PayloadOK(disk', Rows') /\ \A q \in Opens : PayloadOK(payload'[q], Rows')
<1>1. Rows \subseteq Rows' BY StepGrows, GrownRows DEF JInv, JType
<1> DEFINE Good(v) == PayloadOK(v, Rows)
<1>2. \A v : Good(v) => PayloadOK(v, Rows')
  <2>1. PICK rows, more : rows = Rows /\ more = Rows' OBVIOUS
  <2>2. rows \subseteq more BY <1>1, <2>1
  <2> QED BY <2>1, <2>2, KeptByGrowth
<1>3. Good(disk) /\ (\A q \in Opens : Good(payload[q])) BY DEF PInv
<1>4. Good(InitialPayload) BY InitialOK
<1>5. \A q \in Opens : work[q].step \in InCall => Good(NextRevision(q)) BY NextOK
<1> HIDE DEF Good
<1>6. CASE Stands BY <1>2, <1>3, <1>6 DEF Stands, Quiet
<1>7. ASSUME NEW p \in Opens, KindOf(p)
      PROVE  Good(disk') /\ \A q \in Opens : Good(payload'[q])
  <2>1. CASE Rests(p) BY <1>3, <1>4, <2>1 DEF Rests, Quiet, Others
  <2>2. CASE GoesOn(p) BY <1>3, <2>2 DEF GoesOn, Quiet, Others
  <2>3. CASE Begins(p) BY <1>3, <2>3 DEF Begins, Quiet, Others
  <2>4. CASE Writes(p) BY <1>3, <1>5, <2>4 DEF Writes, Others, InCall
  <2>5. CASE Learns(p) BY <1>3, <1>5, <2>5 DEF Learns, Quiet, Others, InCall
  <2>6. CASE Renders(p) BY <1>3, <2>6 DEF Renders, Others
  <2>7. CASE \E o \in Ops : Commits(p, o) BY <1>3, <2>7 DEF Commits
  <2> QED BY <1>7, <2>1, <2>2, <2>3, <2>4, <2>5, <2>6, <2>7 DEF KindOf
<1> QED BY <1>2, <1>6, <1>7

LEMMA CallsStep ==
  ASSUME JInv, PInv, Stands \/ \E p \in Opens : KindOf(p)
  PROVE  \A q \in Opens : CallOK(q)'
<1>1. Rows \subseteq Rows' BY StepGrows, GrownRows DEF JInv, JType
<1>2. \A call, o, pl, tick : CallPre(call, o, pl, tick, Rows) => CallPre(call, o, pl, tick, Rows')
  <2>1. PICK rows, more : rows = Rows /\ more = Rows' OBVIOUS
  <2>2. rows \subseteq more BY <1>1, <2>1
  <2> QED BY <2>1, <2>2, KeptByGrowth
<1>3. ASSUME NEW q \in Opens, work'[q].step = work[q].step, work'[q].call = work[q].call,
             work'[q].op = work[q].op, work'[q].tick = work[q].tick, payload'[q] = payload[q]
      PROVE  CallOK(q)'
  BY <1>2, <1>3 DEF PInv, CallOK
<1>4. ASSUME NEW q \in Opens, work'[q].step \notin Busy PROVE CallOK(q)'
  BY <1>4 DEF CallOK, Busy, InCall
<1>5. CASE Stands BY <1>3, <1>5 DEF Stands
<1>6. ASSUME NEW p \in Opens, KindOf(p)
      PROVE  \A q \in Opens : CallOK(q)'
  <2>0. Others(p) \/ (work' = work /\ payload' = payload)
    BY <1>6 DEF KindOf, Rests, GoesOn, Begins, Writes, Learns, Renders, Commits
  <2>1. \A q \in Opens \ {p} : CallOK(q)' BY <1>3, <2>0 DEF Others
  <2>2. CASE Rests(p) BY <1>4, <2>1, <2>2 DEF Rests, Busy, InCall
  <2>3. CASE GoesOn(p)
    <3>1. CallOK(p)' BY <1>2, <2>3 DEF GoesOn, SameCall, PInv, CallOK, InCall
    <3> QED BY <2>1, <3>1
  <2>4. CASE Begins(p)
    <3>1. CallOK(p)' BY <1>2, <2>4 DEF Begins, CallOK, InCall
    <3> QED BY <2>1, <3>1
  <2>5. CASE Writes(p)
    <3>1. ASSUME payload'[p] = payload[p], work'[p].step = "observing", SameCall(p) PROVE CallOK(p)'
      BY <1>2, <2>5, <3>1 DEF Writes, SameCall, PInv, CallOK, InCall
    <3>2. ASSUME payload'[p] = NextRevision(p), work[p].call = "finalize", work'[p].step = "rendering", SameCall(p)
          PROVE  CallOK(p)'
      <4>1. work[p].step \in InCall BY <2>5 DEF Writes, InCall
      <4>2. work[p].op \in Ops /\ NextRevision(p).status[work[p].op] = "finalized"
        <5>1. /\ payload[p] \in Payloads /\ (work[p].call = "init" \/ work[p].op \in Ops)
              /\ Changes(payload[p], NextRevision(p), work[p].call, work[p].op, work[p].tick)
          BY <4>1, NextOK
        <5>2. payload[p].status \in [Ops -> {"unknown", "prepared", "finalized"}] BY <5>1 DEF Payloads
        <5>3. NextRevision(p).status = [payload[p].status EXCEPT ![work[p].op] = "finalized"]
          BY <3>2, <5>1 DEF Changes
        <5> QED BY <3>2, <5>1, <5>2, <5>3
      <4> QED BY <3>2, <4>2 DEF SameCall, CallOK, InCall
    <3>3. ASSUME work'[p].step = "idle" PROVE CallOK(p)' BY <1>4, <3>3 DEF Busy, InCall
    <3>4. CallOK(p)' BY <2>5, <3>1, <3>2, <3>3 DEF Writes
    <3> QED BY <2>1, <3>4
  <2>6. CASE Learns(p)
    <3>1. work[p].step \in InCall BY <2>6 DEF Learns, InCall
    <3>2. work[p].op \in Ops /\ NextRevision(p).status[work[p].op] = "finalized"
      <4>1. work[p].call = "finalize" BY <2>6 DEF Learns
      <4>2. work[p].op \in Ops BY <3>1, <4>1, NextOK
      <4>3. payload[p].status \in [Ops -> {"unknown", "prepared", "finalized"}] BY <3>1, NextOK DEF Payloads
      <4>4. Changes(payload[p], NextRevision(p), "finalize", work[p].op, work[p].tick)
        <5>1. Changes(payload[p], NextRevision(p), work[p].call, work[p].op, work[p].tick) BY <3>1, NextOK
        <5> QED BY <4>1, <5>1
      <4>5. NextRevision(p).status = [payload[p].status EXCEPT ![work[p].op] = "finalized"]
        BY <4>4 DEF Changes
      <4> QED BY <4>2, <4>3, <4>5
    <3>3. CallOK(p)' BY <2>6, <3>2 DEF Learns, SameCall, CallOK, InCall
    <3> QED BY <2>1, <3>3
  <2>7. CASE Renders(p) BY <1>4, <2>1, <2>7 DEF Renders, Busy, InCall
  <2>8. CASE \E o \in Ops : Commits(p, o) BY <1>3, <2>8 DEF Commits
  <2> QED BY <1>6, <2>2, <2>3, <2>4, <2>5, <2>6, <2>7, <2>8 DEF KindOf
<1> QED BY <1>5, <1>6

LEMMA PInvStep == IInv /\ JInv /\ PInv /\ [Next]_vars => PInv'
<1> SUFFICES ASSUME IInv, JInv, PInv, [Next]_vars PROVE PInv'
  OBVIOUS
<1>1. Stands \/ \E p \in Opens : KindOf(p) BY KindOfStep DEF PInv
<1>2. PayloadOK(disk', Rows') /\ \A q \in Opens : PayloadOK(payload'[q], Rows') BY <1>1, PayloadsStep
<1>3. \A q \in Opens : CallOK(q)' BY <1>1, CallsStep
<1>4. NoRepeats'
  <2>1. ledger \in Seq(Ops) BY DEF JInv, JType
  <2>2. ledger' = ledger \/ \E o \in Ops : o \notin Listed /\ ledger' = Append(ledger, o)
    BY <1>1 DEF Stands, KindOf, Rests, GoesOn, Begins, Writes, Learns, Renders, Commits, Quiet
  <2> QED BY <2>1, <2>2 DEF PInv, NoRepeats, Listed
<1>5. NotFenced'
  <2>1. CASE Stands BY <2>1 DEF Stands, PInv, NotFenced
  <2>2. ASSUME NEW p \in Opens, KindOf(p) PROVE NotFenced'
    <3> USE DEF PInv, NotFenced, Others, Busy, InCall
    <3>1. CASE Rests(p) BY <3>1 DEF Rests
    <3>2. CASE GoesOn(p) BY <3>2 DEF GoesOn
    <3>3. CASE Begins(p) BY <3>3 DEF Begins
    <3>4. CASE Writes(p) BY <3>4 DEF Writes
    <3>5. CASE Learns(p) BY <3>5 DEF Learns
    <3>6. CASE Renders(p) BY <3>6 DEF Renders
    <3>7. CASE \E o \in Ops : Commits(p, o) BY <3>7 DEF Commits
    <3> QED BY <2>2, <3>1, <3>2, <3>3, <3>4, <3>5, <3>6, <3>7 DEF KindOf
  <2> QED BY <1>1, <2>1, <2>2
<1>6. PayloadOK(disk, Rows)' /\ \A q \in Opens : PayloadOK(payload[q], Rows)' BY <1>2
<1> QED BY <1>3, <1>4, <1>5, <1>6 DEF PInv
-----------------------------------------------------------------------------
(* While the lease is exclusive, the file keeps what the ledger commits.   *)

LEMMA RacedStays == LeaseTypeOK /\ [Next]_vars => (raced => raced')
<1> SUFFICES ASSUME LeaseTypeOK, [Next]_vars PROVE raced => raced'
  OBVIOUS
<1>1. CASE UNCHANGED leaseVars BY <1>1 DEF leaseVars
<1>2. ASSUME NEW p \in Opens, AcquireStep(p) PROVE raced => raced' BY <1>2, AcquireSteps
<1>3. ASSUME NEW p \in Opens, ReleaseUnlinks(p) PROVE raced => raced' BY <1>3 DEF ReleaseUnlinks, Removes
<1>4. ASSUME NEW p \in Opens, AbandonOpen(p) PROVE raced => raced' BY <1>4 DEF AbandonOpen, Abandon, Removes
<1>5. ASSUME NEW p \in Opens, Close(p) PROVE raced => raced' BY <1>5 DEF Close, Release
<1>6. ASSUME NEW p \in Opens, Crash(p) PROVE raced => raced' BY <1>6 DEF Crash, CrashLease
<1>7. ASSUME NEW p \in Opens, Load(p) \/ LoadFails(p) PROVE UNCHANGED leaseVars BY <1>7 DEF Load, LoadFails
<1>8. ASSUME NEW p \in Opens, Call(p) PROVE UNCHANGED leaseVars
  BY <1>8 DEF Call, CallPrepare, Commit, CallFinalize, CallRepeat, CallAbort
<1>9. ASSUME NEW p \in Opens, Persist(p) PROVE UNCHANGED leaseVars
  BY <1>9 DEF Persist, CheckLease, CheckRevision, Rename, RenameFails, SyncFails, Observe, ObserveFails,
              Render, RenderFails
<1>10. CASE UNCHANGED vars BY <1>10 DEF vars, leaseVars
<1> QED BY <1>1, <1>2, <1>3, <1>4, <1>5, <1>6, <1>7, <1>8, <1>9, <1>10 DEF Next

\* A process inside a call, and one that accepts a call, has the file in its copy.
LEMMA WritesOver ==
  ASSUME JInv, PInv, ~raced, NEW p \in Opens
  PROVE  /\ work[p].step \in Busy => phase[p] = "held"
         /\ work[p].step = "writing" \/ work[p].step = "rendering" \/ Ready(p) => payload[p] = disk
<1>1. work[p].step \in Busy => phase[p] = "held" /\ p \notin fenced
  <2>1. work[p].step \in Busy => p \notin fenced BY DEF PInv, NotFenced
  <2>2. WorkAt(p) BY DEF JInv, WorkOK
  <2>3. phase[p] = "held" \/ phase[p] \notin {"held", "releasing", "released"}
        \/ phase[p] \in {"releasing", "released"}
    OBVIOUS
  <2> QED BY <2>1, <2>2, <2>3 DEF WorkAt, Busy, InCall
<1>2. CurrentAt(p) BY DEF JInv, Current
<1> QED BY <1>1, <1>2 DEF CurrentAt, Busy, InCall, Ready, Idle

\* The file knows every committed operation, and no call aborts one.
KeepsRows ==
  /\ \A i \in DOMAIN ledger : disk.status[ledger[i]] \in {"prepared", "finalized"}
  /\ \A p \in Opens : work[p].step \in InCall /\ work[p].call = "abort" => work[p].op \notin Listed

DInv == ~raced => KeepsRows

LEMMA AbortsKept ==
  ASSUME IInv, JInv, PInv, KeepsRows, ~raced, Stands \/ \E p \in Opens : KindOf(p)
  PROVE  \A q \in Opens : work'[q].step \in InCall /\ work'[q].call = "abort" => work'[q].op \notin Listed'
<1>0. ledger \in Seq(Ops) BY DEF JInv, JType
<1>1. ledger' = ledger => Listed' = Listed BY DEF Listed
<1>2. CASE Stands BY <1>1, <1>2 DEF Stands, Quiet, KeepsRows
<1>3. ASSUME NEW p \in Opens, KindOf(p), NEW q \in Opens, work'[q].step \in InCall, work'[q].call = "abort"
      PROVE  work'[q].op \notin Listed'
  <2>1. ASSUME NEW o \in Ops, Commits(p, o) PROVE work'[q].op \notin Listed'
    <3>1. work[q].step \in InCall /\ work[q].call = "abort" /\ work'[q].op = work[q].op BY <1>3, <2>1 DEF Commits
    <3>2. phase[q] = "held" BY <3>1, WritesOver DEF Busy
    <3>3. phase[p] = "held" /\ work[p].step = "idle" BY <2>1 DEF Commits, Ready, Idle
    <3>4. lock = p /\ lock = q BY <3>2, <3>3 DEF IInv, HolderHasLease, Holders
    <3> QED BY <3>1, <3>3, <3>4 DEF InCall
  <2>2. ASSUME ledger' = ledger, work'[q].step = work[q].step \/ work[q].step \in InCall,
               work'[q].call = work[q].call, work'[q].op = work[q].op
        PROVE  work'[q].op \notin Listed'
    BY <1>1, <1>3, <2>2 DEF KeepsRows
  <2>3. CASE Rests(p) BY <1>3, <2>2, <2>3 DEF Rests, Others, Quiet, InCall
  <2>4. CASE GoesOn(p) BY <1>3, <2>2, <2>4 DEF GoesOn, Others, Quiet, SameCall
  <2>5. CASE Begins(p) BY <1>1, <1>3, <2>2, <2>5 DEF Begins, Others, Quiet, InCall
  <2>6. CASE Writes(p) BY <1>3, <2>2, <2>6 DEF Writes, Others, SameCall, InCall
  <2>7. CASE Learns(p) BY <1>3, <2>2, <2>7 DEF Learns, Others, Quiet, SameCall, InCall
  <2>8. CASE Renders(p) BY <1>3, <2>2, <2>8 DEF Renders, Others, InCall
  <2> QED BY <1>3, <2>1, <2>3, <2>4, <2>5, <2>6, <2>7, <2>8 DEF KindOf
<1> QED BY <1>2, <1>3

\* A write replaces the file it was computed from.
LEMMA WriteChanges ==
  ASSUME JInv, PInv, ~raced, NEW p \in Opens, Writes(p)
  PROVE  /\ Changes(disk, disk', work[p].call, work[p].op, work[p].tick)
         /\ CallPre(work[p].call, work[p].op, disk, work[p].tick, Rows)
         /\ work[p].call \in Writing
         /\ disk \in Payloads
<1>1. work[p].step \in InCall /\ work[p].step = "writing" /\ disk' = NextRevision(p) BY DEF Writes, InCall
<1>2. payload[p] = disk BY <1>1, WritesOver
<1>3. Changes(payload[p], NextRevision(p), work[p].call, work[p].op, work[p].tick) /\ work[p].call \in Writing
  BY <1>1, NextOK
<1>4. CallPre(work[p].call, work[p].op, payload[p], work[p].tick, Rows) BY <1>1 DEF PInv, CallOK
<1> QED BY <1>1, <1>2, <1>3, <1>4 DEF PInv, PayloadOK

\* What a write does to the states of the operations.
LEMMA ChangedStatus ==
  ASSUME NEW pl \in Payloads, NEW n, NEW call \in Writing, NEW o, NEW tick, NEW rows,
         Changes(pl, n, call, o, tick), CallPre(call, o, pl, tick, rows)
  PROVE  /\ call # "init" => o \in Ops
         /\ \A q \in Ops : q # o => n.status[q] = pl.status[q] /\ n.ledger[q] = pl.ledger[q]
         /\ call = "init" => n.status = pl.status /\ n.ledger = pl.ledger
         /\ call = "prepare" => pl.status[o] = "unknown" /\ n.status[o] = "prepared"
         /\ call = "finalize" => /\ pl.status[o] = "prepared" /\ n.status[o] = "finalized"
                                 /\ <<o, tick>> \in rows /\ n.ledger[o] = tick
         /\ call = "abort" => pl.status[o] = "prepared" /\ n.status[o] = "unknown"
         /\ call # "finalize" => n.regions = pl.regions /\ n.ledger = pl.ledger
<1>1. pl.status \in [Ops -> {"unknown", "prepared", "finalized"}] /\ pl.ledger \in [Ops -> Nat] BY DEF Payloads
<1>2. call # "init" => o \in Ops BY DEF CallPre, Writing
<1>3. CASE call = "init" BY <1>1, <1>3 DEF Changes
<1>4. CASE call = "prepare" BY <1>1, <1>2, <1>4 DEF Changes, CallPre
<1>5. CASE call = "finalize" BY <1>1, <1>2, <1>5 DEF Changes, CallPre
<1>6. CASE call = "abort" BY <1>1, <1>2, <1>6 DEF Changes, CallPre
<1> QED BY <1>3, <1>4, <1>5, <1>6 DEF Writing

LEMMA RowsKept ==
  ASSUME IInv, JInv, PInv, KeepsRows, ~raced, Stands \/ \E p \in Opens : KindOf(p)
  PROVE  \A i \in DOMAIN ledger' : disk'.status[ledger'[i]] \in {"prepared", "finalized"}
<1>0. ledger \in Seq(Ops) BY DEF JInv, JType
<1>1. ASSUME disk' = disk, ledger' = ledger
      PROVE  \A i \in DOMAIN ledger' : disk'.status[ledger'[i]] \in {"prepared", "finalized"}
  BY <1>1 DEF KeepsRows
<1>2. ASSUME NEW p \in Opens, NEW o \in Ops, Commits(p, o), NEW i \in DOMAIN ledger'
      PROVE  disk'.status[ledger'[i]] \in {"prepared", "finalized"}
  <2>1. payload[p] = disk BY <1>2, WritesOver DEF Commits
  <2>2. disk' = disk /\ disk.status[o] = "prepared" /\ ledger' = Append(ledger, o) BY <1>2, <2>1 DEF Commits
  <2>3. ledger'[i] = o \/ (i \in DOMAIN ledger /\ ledger'[i] = ledger[i]) BY <1>0, <1>2, <2>2
  <2> QED BY <2>2, <2>3 DEF KeepsRows
<1>3. ASSUME NEW p \in Opens, Writes(p), NEW i \in DOMAIN ledger'
      PROVE  disk'.status[ledger'[i]] \in {"prepared", "finalized"}
  <2>1. ledger' = ledger /\ ledger[i] \in Ops /\ disk.status[ledger[i]] \in {"prepared", "finalized"}
    BY <1>0, <1>3 DEF Writes, KeepsRows
  <2>2. PICK q \in Ops : q = ledger[i] BY <2>1
  <2>3. PICK call, o, tick, rows : call = work[p].call /\ o = work[p].op /\ tick = work[p].tick /\ rows = Rows
    OBVIOUS
  <2>4. PICK pl, n : pl = disk /\ n = disk' OBVIOUS
  <2>5. pl \in Payloads /\ call \in Writing /\ Changes(pl, n, call, o, tick) /\ CallPre(call, o, pl, tick, rows)
    BY <1>3, <2>3, <2>4, WriteChanges
  <2>6. call = "abort" => q # o
    <3>1. work[p].step \in InCall BY <1>3 DEF Writes, InCall
    <3> QED BY <1>3, <2>1, <2>2, <2>3, <3>1 DEF KeepsRows, Listed
  <2>8. /\ q # o => n.status[q] = pl.status[q]
        /\ call = "init" => n.status = pl.status
        /\ call = "prepare" => n.status[o] = "prepared"
        /\ call = "finalize" => n.status[o] = "finalized"
    <3>1. \A j \in Ops : j # o => n.status[j] = pl.status[j] /\ n.ledger[j] = pl.ledger[j]
      BY <2>5, ChangedStatus
    <3>2. call = "init" => n.status = pl.status BY <2>5 DEF Changes
    <3>3. call = "prepare" => n.status[o] = "prepared" BY <2>5, ChangedStatus
    <3>4. call = "finalize" => n.status[o] = "finalized" BY <2>5, ChangedStatus
    <3> QED BY <3>1, <3>2, <3>3, <3>4
  <2>9. call \in {"init", "prepare", "finalize", "abort"} BY <2>5 DEF Writing
  <2>10. pl.status[q] \in {"prepared", "finalized"} BY <2>1, <2>2, <2>4
  <2>7. n.status[q] \in {"prepared", "finalized"} BY <2>6, <2>8, <2>9, <2>10
  <2> QED BY <2>1, <2>2, <2>4, <2>7
<1> QED BY <1>1, <1>2, <1>3 DEF Stands, KindOf, Rests, GoesOn, Begins, Learns, Renders, Quiet

LEMMA DInvStep == IInv /\ JInv /\ PInv /\ DInv /\ [Next]_vars => DInv'
<1> SUFFICES ASSUME IInv, JInv, PInv, DInv, [Next]_vars, ~raced' PROVE KeepsRows'
  BY DEF DInv
<1>1. Stands \/ \E p \in Opens : KindOf(p) BY KindOfStep DEF PInv
<1>2. ~raced BY RacedStays DEF IInv
<1>3. KeepsRows BY <1>2 DEF DInv
<1>4. \A q \in Opens : work'[q].step \in InCall /\ work'[q].call = "abort" => work'[q].op \notin Listed'
  BY <1>1, <1>2, <1>3, AbortsKept
<1>5. \A i \in DOMAIN ledger' : disk'.status[ledger'[i]] \in {"prepared", "finalized"}
  BY <1>1, <1>2, <1>3, RowsKept
<1> QED BY <1>4, <1>5 DEF KeepsRows

\* The invariant of the durable driver.
MInv == IInv /\ JInv /\ PInv /\ DInv

LEMMA MInvHolds == Spec => []MInv
<1>1. Init => PInv /\ DInv
  <2> SUFFICES ASSUME Init PROVE PInv /\ DInv
    OBVIOUS
  <2>1. ledger = << >> /\ disk = InitialPayload /\ fenced = {} BY DEF Init
  <2>2. \A p \in Opens : payload[p] = InitialPayload /\ work[p].step = "unloaded" BY DEF Init, Unloaded
  <2>3. PayloadOK(disk, Rows) /\ \A p \in Opens : PayloadOK(payload[p], Rows) BY <2>1, <2>2, InitialOK
  <2>4. \A p \in Opens : CallOK(p) BY <2>2 DEF CallOK, InCall
  <2>5. NotFenced /\ NoRepeats BY <2>1 DEF NotFenced, NoRepeats
  <2>6. KeepsRows BY <2>1, <2>2 DEF KeepsRows, InCall
  <2> QED BY <2>3, <2>4, <2>5, <2>6 DEF PInv, DInv
<1>2. (IInv /\ JInv) /\ (IInv /\ JInv)' /\ PInv /\ DInv /\ [Next]_vars => (PInv /\ DInv)'
  BY PInvStep, DInvStep
<1>3. MInv <=> (IInv /\ JInv) /\ PInv /\ DInv BY DEF MInv
<1> QED BY <1>1, <1>2, <1>3, JInvHolds, PTL DEF Spec
-----------------------------------------------------------------------------
(* Durability, and the abstract named memory.                              *)

LEMMA TickUnique ==
  ASSUME ledger \in Seq(Ops), NoRepeats, NEW o, NEW tick, <<o, tick>> \in Rows
  PROVE  TickOf(o) = tick /\ Contains(ledger, o)
<1> DEFINE i == CHOOSE k \in DOMAIN ledger : ledger[k] = o
<1>1. PICK k \in DOMAIN ledger : o = ledger[k] /\ tick = TickAt(k) BY DEF Rows
<1>2. Contains(ledger, o) BY <1>1 DEF Contains
<1>3. i = k BY <1>1 DEF NoRepeats
<1>4. TickOf(o) = TickAt(i) BY <1>2 DEF TickOf
<1> HIDE DEF i
<1> QED BY <1>1, <1>2, <1>3, <1>4

\* Whatever fails or crashes, and whoever opens the directory next, a committed
\* mutation stays in the file: finalized with its own row, or prepared with the
\* stage it has on the very state it will be finalized on.
THEOREM Durable == Spec => []CommittedIsDurable
<1>1. MInv => CommittedIsDurable
  <2> SUFFICES ASSUME MInv, ~raced, NEW o \in Range(ledger)
               PROVE  \/ disk.status[o] = "finalized" /\ disk.ledger[o] = TickOf(o)
                      \/ disk.status[o] = "prepared" /\ disk.stage[o] = FreshStage(disk, o)
    BY DEF CommittedIsDurable
  <2>1. ledger \in Seq(Ops) /\ NoRepeats BY DEF MInv, JInv, JType, PInv
  <2>2. o \in Ops /\ disk.status[o] \in {"prepared", "finalized"}
    BY <2>1 DEF MInv, DInv, KeepsRows, Range
  <2>3. PICK pl : pl = disk OBVIOUS
  <2>4. PayloadOK(pl, Rows) BY <2>3 DEF MInv, PInv
  <2>5. CASE disk.status[o] = "prepared"
    <3>1. pl.stage[o] = StageOn(o, pl.regions[OpRegion[o]]) BY <2>2, <2>3, <2>4, <2>5 DEF PayloadOK
    <3>2. FreshStage(pl, o) = pl.stage[o] BY <3>1, FreshIs
    <3> QED BY <2>3, <2>5, <3>2
  <2>6. CASE disk.status[o] = "finalized"
    <3>1. <<o, pl.ledger[o]>> \in Rows BY <2>2, <2>3, <2>4, <2>6 DEF PayloadOK
    <3>2. PICK t : t = pl.ledger[o] OBVIOUS
    <3>3. TickOf(o) = t BY <2>1, <3>1, <3>2, TickUnique
    <3> QED BY <2>3, <2>6, <3>2, <3>3
  <2> QED BY <2>2, <2>5, <2>6
<1> QED BY <1>1, MInvHolds, PTL

\* What a finalized operation makes of its region is what it does abstractly.
LEMMA MutatedIsApplied ==
  ASSUME NEW o \in Ops, NEW region \in RegionStates
  PROVE  Abstract!Apply(o, region) = MutatedOn(o, region)
<1>1. region = [generation |-> region.generation, state |-> region.state, cells |-> region.cells]
      /\ region.state \in {"open", "closed"}
  BY DEF RegionStates
<1>2. OpKind[o] = "store" \/ OpKind[o] = "forget" BY MarkdownAssumption
<1> QED BY <1>1, <1>2 DEF Abstract!Apply, MutatedOn, StageOn

LEMMA CommitMaps ==
  ASSUME MInv, ~raced, NEW p \in Opens, NEW o \in Ops, Commits(p, o)
  PROVE  Abstract!Commit(o)
<1>1. payload[p] = disk BY WritesOver DEF Commits, MInv
<1>2. disk.status[o] = "prepared" /\ o \notin Listed /\ disk' = disk /\ ledger' = Append(ledger, o)
  BY <1>1 DEF Commits
<1>3. \A q \in Listed : q \in Ops /\ disk.status[q] \in {"prepared", "finalized"}
  BY DEF MInv, JInv, JType, DInv, KeepsRows, Listed
<1>4. OnePrepared(disk) BY DEF MInv, PInv, PayloadOK
<1>5. Abstract!Committed = Listed BY DEF Abstract!Committed, Listed
<1>6. \A q \in Listed \ {k \in Ops : disk.status[k] = "finalized"} : OpRegion[q] # OpRegion[o]
  BY <1>2, <1>3, <1>4 DEF OnePrepared
<1> QED BY <1>2, <1>5, <1>6 DEF Abstract!Commit

LEMMA WriteMaps ==
  ASSUME MInv, ~raced, NEW p \in Opens, Writes(p)
  PROVE  (\E o \in Ops : Abstract!Show(o)) \/ UNCHANGED Abstract!memoryVars
<1>1. PICK call, o, tick, rows : call = work[p].call /\ o = work[p].op /\ tick = work[p].tick /\ rows = Rows
  OBVIOUS
<1>2. PICK pl, n : pl = disk /\ n = disk' OBVIOUS
<1>3. pl \in Payloads /\ call \in Writing /\ Changes(pl, n, call, o, tick) /\ CallPre(call, o, pl, tick, rows)
  BY <1>1, <1>2, WriteChanges DEF MInv
<1>4. ledger' = ledger BY DEF Writes
<1>5. \A q \in Ops : q # o => n.status[q] = pl.status[q] /\ n.ledger[q] = pl.ledger[q]
  BY <1>3, ChangedStatus
<1>6. CASE call = "finalize"
  <2>1. o \in Ops /\ pl.status[o] = "prepared" /\ n.status[o] = "finalized" /\ <<o, tick>> \in rows
    BY <1>3, <1>6, ChangedStatus
  <2>2. n.regions = [pl.regions EXCEPT ![OpRegion[o]] = MutatedOn(o, @)] BY <1>3, <1>6 DEF Changes
  <2>3. pl.regions \in [Regions -> RegionStates] BY <1>3 DEF Payloads
  <2>4. OpRegion[o] \in Regions BY <2>1, MarkdownAssumption
  <2>5. Abstract!Apply(o, pl.regions[OpRegion[o]]) = MutatedOn(o, pl.regions[OpRegion[o]])
    BY <2>1, <2>3, <2>4, MutatedIsApplied
  <2>6. n.regions = [pl.regions EXCEPT ![OpRegion[o]] = Abstract!Apply(o, @)] BY <2>2, <2>5
  <2>7. o \in Abstract!Committed BY <1>1, <2>1 DEF Rows, Abstract!Committed
  <2>8. {k \in Ops : n.status[k] = "finalized"} = {k \in Ops : pl.status[k] = "finalized"} \cup {o}
    BY <1>5, <2>1
  <2>9. o \notin {k \in Ops : pl.status[k] = "finalized"} BY <2>1
  <2>10. Abstract!Show(o) BY <1>2, <1>4, <2>6, <2>7, <2>8, <2>9 DEF Abstract!Show
  <2> QED BY <2>1, <2>10
<1>7. CASE call # "finalize"
  <2>1. n.regions = pl.regions BY <1>3, <1>7, ChangedStatus
  <2>2. CASE call = "init"
    <3>1. n.status = pl.status BY <1>3, <2>2 DEF Changes
    <3> QED BY <1>2, <1>4, <2>1, <3>1 DEF Abstract!memoryVars
  <2>3. CASE call = "prepare"
    <3>1. pl.status[o] = "unknown" /\ n.status[o] = "prepared" BY <1>3, <2>3, ChangedStatus
    <3>2. {k \in Ops : n.status[k] = "finalized"} = {k \in Ops : pl.status[k] = "finalized"} BY <1>5, <3>1
    <3> QED BY <1>2, <1>4, <2>1, <3>2 DEF Abstract!memoryVars
  <2>4. CASE call = "abort"
    <3>1. pl.status[o] = "prepared" /\ n.status[o] = "unknown" BY <1>3, <2>4, ChangedStatus
    <3>2. {k \in Ops : n.status[k] = "finalized"} = {k \in Ops : pl.status[k] = "finalized"} BY <1>5, <3>1
    <3> QED BY <1>2, <1>4, <2>1, <3>2 DEF Abstract!memoryVars
  <2> QED BY <1>3, <1>7, <2>2, <2>3, <2>4 DEF Writing
<1> QED BY <1>6, <1>7

\* Through crashes, restarts and failed writes, the rows of every region are
\* committed one at a time and the file shows them in the order of the ledger,
\* as long as the lease is exclusive.
THEOREM Implements == Spec => ImplementsNamedMemory
<1>1. Init => Abstract!Init
  <2> SUFFICES ASSUME Init PROVE Abstract!Init
    OBVIOUS
  <2>1. ledger = << >> /\ disk = InitialPayload BY DEF Init
  <2>2. {o \in Ops : InitialPayload.status[o] = "finalized"} = {} BY DEF InitialPayload
  <2>3. InitialPayload.regions = [r \in Regions |-> [generation |-> 0, state |-> "open", cells |-> << >>]]
    BY DEF InitialPayload, Gen0
  <2> QED BY <2>1, <2>2, <2>3 DEF Abstract!Init
<1>2. MInv /\ [Next]_vars => [raced' \/ Abstract!Next]_(Abstract!memoryVars)
  <2> SUFFICES ASSUME MInv, [Next]_vars, ~raced'
               PROVE  Abstract!Next \/ UNCHANGED Abstract!memoryVars
    OBVIOUS
  <2>1. Stands \/ \E p \in Opens : KindOf(p) BY KindOfStep DEF PInv, MInv
  <2>2. ~raced BY RacedStays DEF IInv, MInv
  <2>3. ASSUME disk' = disk, ledger' = ledger PROVE UNCHANGED Abstract!memoryVars
    BY <2>3 DEF Abstract!memoryVars
  <2>4. ASSUME NEW p \in Opens, NEW o \in Ops, Commits(p, o) PROVE Abstract!Next
    BY <2>2, <2>4, CommitMaps DEF Abstract!Next
  <2>5. ASSUME NEW p \in Opens, Writes(p) PROVE Abstract!Next \/ UNCHANGED Abstract!memoryVars
    BY <2>2, <2>5, WriteMaps DEF Abstract!Next
  <2> QED BY <2>1, <2>3, <2>4, <2>5 DEF Stands, KindOf, Rests, GoesOn, Begins, Learns, Renders, Quiet
<1> QED BY <1>1, <1>2, MInvHolds, PTL DEF Spec, ImplementsNamedMemory
-----------------------------------------------------------------------------
(* Types.                                                                  *)

TInv ==
  /\ fenced \subseteq Opens /\ overtaken \subseteq Opens
  /\ files \in [Regions -> Seq(RegionStates)]
  /\ acked \subseteq Ops
  /\ faults \in 0 .. MaxFaults

LEMMA AuxTypes ==
  ASSUME overtaken \subseteq Opens, faults \in 0 .. MaxFaults, [Next]_vars
  PROVE  overtaken' \subseteq Opens /\ faults' \in 0 .. MaxFaults
<1> USE MarkdownAssumption
<1>1. Fault => faults' \in 0 .. MaxFaults BY DEF Fault
<1>2. CASE UNCHANGED vars BY <1>2 DEF vars, journalVars
<1>3. CASE UNCHANGED journalVars BY <1>3 DEF journalVars
<1>4. ASSUME NEW p \in Opens, Load(p) \/ LoadFails(p) \/ AbandonOpen(p) \/ Close(p) \/ Crash(p)
      PROVE  overtaken' \subseteq Opens /\ faults' \in 0 .. MaxFaults
  BY <1>1, <1>4 DEF Load, LoadFails, AbandonOpen, Close, Crash
<1>5. ASSUME NEW p \in Opens, Call(p)
      PROVE  overtaken' \subseteq Opens /\ faults' \in 0 .. MaxFaults
  BY <1>5 DEF Call, CallPrepare, Commit, CallFinalize, CallRepeat, CallAbort
<1>6. ASSUME NEW p \in Opens, Persist(p)
      PROVE  overtaken' \subseteq Opens /\ faults' \in 0 .. MaxFaults
  BY <1>1, <1>6 DEF Persist, CheckLease, CheckRevision, Rename, RenameFails, SyncFails, Observe, ObserveFails,
                    Render, RenderFails, Overtakes
<1> QED BY <1>2, <1>3, <1>4, <1>5, <1>6 DEF Next

\* A rendered region is a file of its generation.
LEMMA RenderedOK ==
  ASSUME files \in [Regions -> Seq(RegionStates)], NEW p, NEW r \in Regions,
         payload[p].regions[r] \in RegionStates
  PROVE  /\ Rendered(p, r) \in Seq(RegionStates)
         /\ payload[p].regions[r].generation + 1 \in DOMAIN Rendered(p, r)
         /\ Rendered(p, r)[payload[p].regions[r].generation + 1] = payload[p].regions[r]
<1>1. PICK region, s : region = payload[p].regions[r] /\ s = files[r] OBVIOUS
<1>2. region \in RegionStates /\ s \in Seq(RegionStates) /\ region.generation \in Nat BY <1>1 DEF RegionStates
<1>3. PICK gen : gen = region.generation + 1 OBVIOUS
<1>4. PICK t : t = Generations(r, region.generation) OBVIOUS
<1>5. gen \in Nat \ {0} /\ Len(s) \in Nat BY <1>2, <1>3
<1>6. t \in Seq(RegionStates) /\ gen \in DOMAIN t
  <2>1. CASE gen \in DOMAIN s
    <3>1. t = s BY <1>1, <1>3, <1>4, <2>1 DEF Generations
    <3> QED BY <1>2, <2>1, <3>1
  <2>2. CASE gen \notin DOMAIN s
    <3>1. gen > Len(s) BY <1>2, <1>5, <2>2
    <3>2. PICK k : k = gen - Len(s) OBVIOUS
    <3>3. k \in Nat /\ k > 0 /\ Len(s) + k = gen BY <1>5, <3>1, <3>2
    <3>4. Gen0 \in RegionStates BY DEF Gen0, RegionStates
    <3> DEFINE fill == [i \in 1 .. k |-> Gen0]
    <3>5. fill \in Seq(RegionStates) /\ Len(fill) = k BY <3>3, <3>4
    <3>6. t = s \o fill
      <4>1. t = s \o [i \in 1 .. (region.generation + 1 - Len(s)) |-> Gen0]
        BY <1>1, <1>3, <1>4, <2>2 DEF Generations
      <4>2. region.generation + 1 - Len(s) = k
        <5>1. PICK a, b : a = region.generation /\ b = Len(s) OBVIOUS
        <5>2. a \in Nat /\ b \in Nat /\ gen = a + 1 BY <1>2, <1>3, <1>5, <5>1
        <5>3. a + 1 - b = gen - b BY <5>2
        <5> QED BY <3>2, <5>1, <5>3
      <4> QED BY <4>1, <4>2
    <3> HIDE DEF fill
    <3>7. t \in Seq(RegionStates) /\ Len(t) = gen
      <4>1. s \o fill \in Seq(RegionStates) BY <1>2, <3>5
      <4>2. Len(s \o fill) = Len(s) + Len(fill) BY <1>2, <3>5, ConcatProperties
      <4> QED BY <3>3, <3>5, <3>6, <4>1, <4>2
    <3> QED BY <1>5, <3>7
  <2> QED BY <2>1, <2>2
<1>7. Rendered(p, r) = [t EXCEPT ![gen] = region] BY <1>1, <1>3, <1>4 DEF Rendered
<1>8. [t EXCEPT ![gen] = region] \in Seq(RegionStates) BY <1>2, <1>6
<1> QED BY <1>1, <1>3, <1>6, <1>7, <1>8

LEMMA TInvStep == MInv /\ TInv /\ [Next]_vars => TInv'
<1> SUFFICES ASSUME MInv, TInv, [Next]_vars PROVE TInv'
  OBVIOUS
<1>1. Stands \/ \E p \in Opens : KindOf(p) BY KindOfStep DEF PInv, MInv
<1>2. overtaken' \subseteq Opens /\ faults' \in 0 .. MaxFaults BY AuxTypes DEF TInv
<1>3. fenced' \subseteq Opens
  BY <1>1 DEF TInv, Stands, KindOf, Rests, GoesOn, Begins, Writes, Learns, Renders, Commits
<1>4. ASSUME files' = files, acked' = acked PROVE files' \in [Regions -> Seq(RegionStates)] /\ acked' \subseteq Ops
  BY <1>4 DEF TInv
<1>5. ASSUME NEW p \in Opens, Renders(p)
      PROVE  files' \in [Regions -> Seq(RegionStates)] /\ acked' \subseteq Ops
  <2>1. work[p].op \in Ops BY <1>5 DEF Renders, MInv, PInv, CallOK
  <2>2. OpRegion[work[p].op] \in Regions BY <2>1, MarkdownAssumption
  <2>3. payload[p].regions \in [Regions -> RegionStates]
    <3>1. PICK pl : pl = payload[p] OBVIOUS
    <3>2. pl \in Payloads BY <3>1 DEF MInv, PInv, PayloadOK
    <3> QED BY <3>1, <3>2 DEF Payloads
  <2>4. Rendered(p, OpRegion[work[p].op]) \in Seq(RegionStates) BY <2>2, <2>3, RenderedOK DEF TInv
  <2> QED BY <1>5, <2>1, <2>4 DEF Renders, TInv
<1>6. files' \in [Regions -> Seq(RegionStates)] /\ acked' \subseteq Ops
  BY <1>1, <1>4, <1>5 DEF Stands, KindOf, Rests, GoesOn, Begins, Writes, Learns, Commits, Quiet
<1> QED BY <1>2, <1>3, <1>6 DEF TInv

LEMMA TInvHolds == Spec => []TInv
<1>1. Init => TInv
  BY MarkdownAssumption DEF Init, TInv
<1>2. QED BY <1>1, TInvStep, MInvHolds, PTL DEF Spec

\* The file, every copy and every rendered generation are well typed.
THEOREM TypeCorrect == Spec => []TypeOK
<1>1. MInv /\ TInv => TypeOK
  <2> SUFFICES ASSUME MInv, TInv PROVE TypeOK
    OBVIOUS
  <2>1. Driver(disk)!RegionState = RegionStates BY DEF Driver!RegionState, RegionStates
  <2>2. Driver(disk)!Stage = Stages BY DEF Driver!Stage, Stages
  <2>3. Payload = Payloads BY <2>1, <2>2 DEF Payload, Payloads
  <2>4. disk \in Payload /\ \A p \in Opens : payload[p] \in Payload BY <2>3 DEF MInv, PInv, PayloadOK
  <2>5. payload \in [Opens -> Payload] BY <2>4 DEF MInv, JInv, CopiesOK
  <2>6. work \in [Opens -> Works] /\ ledger \in Seq(Ops) BY DEF MInv, JInv, JType, JWorks, Works, Ticks
  <2>7. LeaseTypeOK BY DEF MInv, IInv
  <2> QED BY <2>1, <2>4, <2>5, <2>6, <2>7 DEF TInv, TypeOK
<1> QED BY <1>1, MInvHolds, TInvHolds, PTL

\* A write finalizes an operation or leaves what is finalized alone.
LEMMA FinalizedStays ==
  ASSUME MInv, ~raced, NEW p \in Opens, Writes(p)
  PROVE  \A q \in Ops : disk.status[q] = "finalized" => disk'.status[q] = "finalized"
<1>1. PICK call, o, tick, rows : call = work[p].call /\ o = work[p].op /\ tick = work[p].tick /\ rows = Rows
  OBVIOUS
<1>2. PICK pl, n : pl = disk /\ n = disk' OBVIOUS
<1>3. pl \in Payloads /\ call \in Writing /\ Changes(pl, n, call, o, tick) /\ CallPre(call, o, pl, tick, rows)
  BY <1>1, <1>2, WriteChanges DEF MInv
<1>4. \A q \in Ops : q # o => n.status[q] = pl.status[q] /\ n.ledger[q] = pl.ledger[q] BY <1>3, ChangedStatus
<1>5. CASE call = "init"
  <2>1. n.status = pl.status BY <1>3, <1>5 DEF Changes
  <2> QED BY <1>2, <2>1
<1>6. CASE call = "prepare"
  <2>1. n.status[o] = "prepared" /\ pl.status[o] = "unknown" BY <1>3, <1>6, ChangedStatus
  <2> QED BY <1>2, <1>4, <2>1
<1>7. CASE call = "finalize"
  <2>1. n.status[o] = "finalized" /\ pl.status[o] = "prepared" BY <1>3, <1>7, ChangedStatus
  <2> QED BY <1>2, <1>4, <2>1
<1>8. CASE call = "abort"
  <2>1. n.status[o] = "unknown" /\ pl.status[o] = "prepared" BY <1>3, <1>8, ChangedStatus
  <2> QED BY <1>2, <1>4, <2>1
<1> QED BY <1>3, <1>5, <1>6, <1>7, <1>8 DEF Writing

-----------------------------------------------------------------------------
(* Receipts.  A region has at most one row that the file does not show,    *)
(* its last one; so what is finalized next has the latest row of all.      *)

LEMMA TickOrder ==
  ASSUME ledger \in Seq(Ops), NEW i \in DOMAIN ledger, NEW j \in DOMAIN ledger, i < j,
         OpSession[ledger[i]] = OpSession[ledger[j]]
  PROVE  TickAt(i) < TickAt(j)
<1> DEFINE A == {k \in 1 .. i : OpSession[ledger[k]] = OpSession[ledger[i]]}
           B == {k \in 1 .. j : OpSession[ledger[k]] = OpSession[ledger[j]]}
<1>1. i \in Nat /\ j \in Nat /\ j >= 1 OBVIOUS
<1>2. A \subseteq B /\ j \in B /\ j \notin A BY <1>1
<1>3. IsFiniteSet(B)
  <2>1. IsFiniteSet(1 .. j) BY <1>1, FS_Interval
  <2> QED BY <2>1, FS_Subset
<1>4. TickAt(i) = Cardinality(A) /\ TickAt(j) = Cardinality(B) BY DEF TickAt
<1> HIDE DEF A, B
<1>5. Cardinality(A) <= Cardinality(B) /\ (Cardinality(A) = Cardinality(B) => A = B)
  BY <1>2, <1>3, FS_Subset
<1>6. Cardinality(A) \in Nat /\ Cardinality(B) \in Nat BY <1>2, <1>3, FS_Subset, FS_CardinalityType
<1> QED BY <1>2, <1>4, <1>5, <1>6

Ordered ==
  \A i, j \in DOMAIN ledger :
    i < j /\ OpRegion[ledger[i]] = OpRegion[ledger[j]] => disk.status[ledger[i]] = "finalized"

\* The operation has the latest row of its region.
Latest(pl, o) ==
  /\ pl.status[o] = "finalized"
  /\ \A q \in Ops : OpRegion[q] = OpRegion[o] /\ pl.status[q] = "finalized" => pl.ledger[q] <= pl.ledger[o]

Shows(pl, fs, r) ==
  /\ pl.regions[r].generation + 1 \in DOMAIN fs[r]
  /\ fs[r][pl.regions[r].generation + 1] = pl.regions[r]

Receipts ==
  \A o \in acked : disk.status[o] = "finalized" /\ (Latest(disk, o) => Shows(disk, files, OpRegion[o]))

RInv == ~raced => Ordered /\ Receipts

\* What is finalized next is later than what its region shows.
LEMMA NextIsLatest ==
  ASSUME MInv, ~raced, Ordered, NEW o \in Ops, NEW q \in Ops, NEW tick,
         disk.status[o] = "prepared", <<o, tick>> \in Rows,
         disk.status[q] = "finalized", OpRegion[q] = OpRegion[o]
  PROVE  disk.ledger[q] < tick
<1>1. ledger \in Seq(Ops) /\ NoRepeats BY DEF MInv, JInv, JType, PInv
<1>2. PICK j \in DOMAIN ledger : ledger[j] = o /\ tick = TickAt(j) BY DEF Rows
<1>3. <<q, disk.ledger[q]>> \in Rows BY DEF MInv, PInv, PayloadOK
<1>4. PICK i \in DOMAIN ledger : ledger[i] = q /\ disk.ledger[q] = TickAt(i) BY <1>3 DEF Rows
<1>5. i \in Nat /\ j \in Nat /\ i # j BY <1>1, <1>2, <1>4
<1>6. ~(j < i) BY <1>2, <1>4 DEF Ordered
<1>7. i < j BY <1>5, <1>6
<1>8. OpSession[ledger[i]] = OpSession[ledger[j]] BY <1>2, <1>4, MarkdownAssumption
<1>9. TickAt(i) < TickAt(j) BY <1>1, <1>7, <1>8, TickOrder
<1> QED BY <1>2, <1>4, <1>9

LEMMA OrderedStep ==
  ASSUME MInv, ~raced, Ordered, Stands \/ \E p \in Opens : KindOf(p)
  PROVE  Ordered'
<1>0. ledger \in Seq(Ops) BY DEF MInv, JInv, JType
<1>1. ASSUME disk' = disk, ledger' = ledger PROVE Ordered' BY <1>1 DEF Ordered
<1>2. ASSUME NEW p \in Opens, NEW o \in Ops, Commits(p, o) PROVE Ordered'
  <2>1. payload[p] = disk BY <1>2, WritesOver DEF Commits, MInv
  <2>2. disk' = disk /\ disk.status[o] = "prepared" /\ ledger' = Append(ledger, o) /\ o \notin Listed
    BY <1>2, <2>1 DEF Commits
  <2>3. OnePrepared(disk) BY DEF MInv, PInv, PayloadOK
  <2>4. \A i \in DOMAIN ledger : OpRegion[ledger[i]] = OpRegion[o] => disk.status[ledger[i]] = "finalized"
    <3>1. SUFFICES ASSUME NEW i \in DOMAIN ledger, OpRegion[ledger[i]] = OpRegion[o],
                          disk.status[ledger[i]] = "prepared"
                   PROVE  FALSE
      BY DEF MInv, DInv, KeepsRows
    <3>2. ledger[i] \in Ops /\ ledger[i] \in Listed BY <1>0, <3>1 DEF Listed
    <3> QED BY <2>2, <2>3, <3>1, <3>2 DEF OnePrepared
  <2>5. SUFFICES ASSUME NEW i \in DOMAIN ledger', NEW j \in DOMAIN ledger', i < j,
                        OpRegion[ledger'[i]] = OpRegion[ledger'[j]]
                 PROVE  disk'.status[ledger'[i]] = "finalized"
    BY DEF Ordered
  <2>6. i \in DOMAIN ledger /\ ledger'[i] = ledger[i] BY <1>0, <2>2, <2>5
  <2>7. (j \in DOMAIN ledger /\ ledger'[j] = ledger[j]) \/ ledger'[j] = o BY <1>0, <2>2, <2>5
  <2> QED BY <2>2, <2>4, <2>5, <2>6, <2>7 DEF Ordered
<1>3. ASSUME NEW p \in Opens, Writes(p) PROVE Ordered'
  <2>1. ledger' = ledger BY <1>3 DEF Writes
  <2>2. \A q \in Ops : disk.status[q] = "finalized" => disk'.status[q] = "finalized"
    BY <1>3, FinalizedStays
  <2> QED BY <1>0, <2>1, <2>2 DEF Ordered
<1> QED BY <1>1, <1>2, <1>3 DEF Stands, KindOf, Rests, GoesOn, Begins, Learns, Renders, Quiet

LEMMA ReceiptsStep ==
  ASSUME MInv, TInv, ~raced, Ordered, Receipts, Stands \/ \E p \in Opens : KindOf(p)
  PROVE  Receipts'
<1>1. ASSUME disk' = disk, acked' = acked, files' = files PROVE Receipts'
  BY <1>1 DEF Receipts, Latest, Shows
<1>2. ASSUME NEW p \in Opens, Renders(p) PROVE Receipts'
  <2>1. PICK pl, o, fs, ns, r : pl = disk /\ o = work[p].op /\ fs = files /\ ns = files' /\ r = OpRegion[o]
    OBVIOUS
  <2>2. payload[p] = pl BY <1>2, <2>1, WritesOver DEF Renders, MInv
  <2>3. o \in Ops /\ pl.status[o] = "finalized" BY <1>2, <2>1, <2>2 DEF Renders, MInv, PInv, CallOK
  <2>4. r \in Regions BY <2>1, <2>3, MarkdownAssumption
  <2>5. pl.regions \in [Regions -> RegionStates] BY <2>1 DEF MInv, PInv, PayloadOK, Payloads
  <2>6. fs \in [Regions -> Seq(RegionStates)] BY <2>1 DEF TInv
  <2>7. ns = [fs EXCEPT ![r] = Rendered(p, r)] /\ acked' = acked \cup {o} /\ disk' = pl
    BY <1>2, <2>1 DEF Renders
  <2>8. /\ pl.regions[r].generation + 1 \in DOMAIN Rendered(p, r)
        /\ Rendered(p, r)[pl.regions[r].generation + 1] = pl.regions[r]
    BY <2>1, <2>2, <2>4, <2>5, <2>6, RenderedOK
  <2>9. Shows(pl, ns, r) BY <2>4, <2>6, <2>7, <2>8 DEF Shows
  <2>10. \A q : q # r /\ q \in Regions => ns[q] = fs[q] BY <2>6, <2>7
  <2>11. ASSUME NEW a \in acked' PROVE pl.status[a] = "finalized" /\ (Latest(pl, a) => Shows(pl, ns, OpRegion[a]))
    <3>1. a \in Ops /\ OpRegion[a] \in Regions BY <2>3, <2>7, <2>11, MarkdownAssumption DEF TInv
    <3>2. CASE OpRegion[a] = r
      <4>1. pl.status[a] = "finalized" BY <2>1, <2>3, <2>7, <2>11 DEF Receipts
      <4> QED BY <2>9, <3>2, <4>1
    <3>3. CASE OpRegion[a] # r
      <4>1. a \in acked BY <2>1, <2>7, <2>11, <3>3
      <4>2. pl.status[a] = "finalized" /\ (Latest(pl, a) => Shows(pl, fs, OpRegion[a]))
        BY <2>1, <4>1 DEF Receipts
      <4>3. Shows(pl, fs, OpRegion[a]) => Shows(pl, ns, OpRegion[a]) BY <2>10, <3>1, <3>3 DEF Shows
      <4> QED BY <4>2, <4>3
    <3> QED BY <3>2, <3>3
  <2>12. disk' = pl /\ files' = ns BY <2>1, <2>7
  <2> QED BY <2>11, <2>12 DEF Receipts, Latest, Shows
<1>3. ASSUME NEW p \in Opens, Writes(p) PROVE Receipts'
  <2>1. PICK pl, n, fs : pl = disk /\ n = disk' /\ fs = files OBVIOUS
  <2>2. files' = fs /\ acked' = acked BY <1>3, <2>1 DEF Writes
  <2>3. PICK call, o, tick, rows : call = work[p].call /\ o = work[p].op /\ tick = work[p].tick /\ rows = Rows
    OBVIOUS
  <2>4. pl \in Payloads /\ call \in Writing /\ Changes(pl, n, call, o, tick) /\ CallPre(call, o, pl, tick, rows)
    BY <1>3, <2>1, <2>3, WriteChanges DEF MInv
  <2>5. \A q \in Ops : q # o => n.status[q] = pl.status[q] /\ n.ledger[q] = pl.ledger[q]
    BY <2>4, ChangedStatus
  <2>6. \A q \in Ops : pl.status[q] = "finalized" => n.status[q] = "finalized"
    BY <1>3, <2>1, FinalizedStays
  <2>7. ASSUME NEW a \in acked PROVE n.status[a] = "finalized" /\ (Latest(n, a) => Shows(n, fs, OpRegion[a]))
    <3>1. a \in Ops /\ OpRegion[a] \in Regions BY MarkdownAssumption DEF TInv
    <3>2. pl.status[a] = "finalized" /\ (Latest(pl, a) => Shows(pl, fs, OpRegion[a]))
      BY <2>1 DEF Receipts
    <3>3. n.status[a] = "finalized" BY <2>6, <3>1, <3>2
    <3>4. CASE call = "finalize"
      <4>1. o \in Ops /\ pl.status[o] = "prepared" /\ n.status[o] = "finalized" /\ <<o, tick>> \in rows
            /\ n.ledger[o] = tick
        <5>1. o \in Ops /\ pl.status[o] = "prepared" /\ n.status[o] = "finalized" /\ <<o, tick>> \in rows
          <6>1. o \in Ops BY <2>4, <3>4, ChangedStatus
          <6>2. pl.status[o] = "prepared" BY <2>4, <3>4 DEF CallPre
          <6>3. <<o, tick>> \in rows BY <2>4, <3>4 DEF CallPre
          <6>4. n.status[o] = "finalized" BY <2>4, <3>4, ChangedStatus
          <6> QED BY <6>1, <6>2, <6>3, <6>4
        <5>2. n.ledger[o] = tick
          <6>1. o \in Ops /\ pl.ledger \in [Ops -> Nat] BY <2>4, <5>1 DEF Payloads
          <6>2. n.ledger = [pl.ledger EXCEPT ![o] = tick] BY <2>4, <3>4 DEF Changes
          <6> QED BY <6>1, <6>2
        <5> QED BY <5>1, <5>2
      <4>2. pl.regions \in [Regions -> RegionStates] /\ pl.ledger \in [Ops -> Nat] BY <2>4 DEF Payloads
      <4>3. n.regions = [pl.regions EXCEPT ![OpRegion[o]] = MutatedOn(o, @)] BY <2>4, <3>4 DEF Changes
      <4>4. a # o /\ n.ledger[a] = pl.ledger[a] BY <2>5, <3>1, <3>2, <4>1
      <4>5. CASE OpRegion[a] = OpRegion[o]
        <5>1. pl.ledger[a] < tick BY <2>1, <2>3, <3>1, <3>2, <4>1, <4>5, NextIsLatest
        <5>2. pl.ledger[a] \in Nat /\ tick \in Nat
          <6>1. rows \in SUBSET (Ops \X Nat) BY <2>3, RowsType DEF MInv, JInv, JType
          <6> QED BY <3>1, <4>1, <4>2, <6>1
        <5>3. ~(tick <= pl.ledger[a]) BY <5>1, <5>2
        <5>4. ~Latest(n, a) BY <4>1, <4>4, <4>5, <5>3 DEF Latest
        <5> QED BY <3>3, <5>4
      <4>6. CASE OpRegion[a] # OpRegion[o]
        <5>1. n.regions[OpRegion[a]] = pl.regions[OpRegion[a]] BY <3>1, <4>2, <4>3, <4>6
        <5>2. Latest(n, a) => Latest(pl, a)
          <6>1. \A q \in Ops : OpRegion[q] = OpRegion[a] => n.status[q] = pl.status[q] /\ n.ledger[q] = pl.ledger[q]
            BY <2>5, <4>6
          <6> QED BY <3>1, <3>2, <6>1 DEF Latest
        <5>3. Shows(pl, fs, OpRegion[a]) => Shows(n, fs, OpRegion[a]) BY <5>1 DEF Shows
        <5> QED BY <3>2, <3>3, <5>2, <5>3
      <4> QED BY <4>5, <4>6
    <3>5. CASE call # "finalize"
      <4>1. n.regions = pl.regions /\ n.ledger = pl.ledger BY <2>4, <3>5, ChangedStatus
      <4>2. \A q \in Ops : pl.status[q] = "finalized" => n.status[q] = "finalized" BY <2>6
      <4>3. Latest(n, a) => Latest(pl, a) BY <3>1, <3>2, <4>1, <4>2 DEF Latest
      <4>4. Shows(pl, fs, OpRegion[a]) => Shows(n, fs, OpRegion[a]) BY <4>1 DEF Shows
      <4> QED BY <3>2, <3>3, <4>3, <4>4
    <3> QED BY <3>4, <3>5
  <2>8. disk' = n /\ files' = fs BY <2>1, <2>2
  <2> QED BY <2>2, <2>7, <2>8 DEF Receipts, Latest, Shows
<1> QED BY <1>1, <1>2, <1>3 DEF Stands, KindOf, Rests, GoesOn, Begins, Learns, Commits, Quiet

LEMMA RInvHolds == Spec => []RInv
<1>1. Init => RInv
  BY DEF Init, RInv, Ordered, Receipts
<1>2. MInv /\ TInv /\ RInv /\ [Next]_vars => RInv'
  <2> SUFFICES ASSUME MInv, TInv, RInv, [Next]_vars, ~raced' PROVE Ordered' /\ Receipts'
    BY DEF RInv
  <2>1. Stands \/ \E p \in Opens : KindOf(p) BY KindOfStep DEF PInv, MInv
  <2>2. ~raced BY RacedStays DEF IInv, MInv
  <2>3. Ordered /\ Receipts BY <2>2 DEF RInv
  <2> QED BY <2>1, <2>2, <2>3, OrderedStep, ReceiptsStep
<1> QED BY <1>1, <1>2, MInvHolds, TInvHolds, PTL DEF Spec

\* A receipt means that the Markdown file of the region is current, after every
\* crash and failure and whatever another opening has written since, as long as
\* the lease is exclusive.
THEOREM ReceiptsAreRendered == Spec => []ReceiptMeansRendered
<1>1. MInv /\ TInv /\ RInv => ReceiptMeansRendered
  <2> SUFFICES ASSUME MInv, TInv, RInv, ~raced, NEW r \in Regions, NEW o \in acked, o \in LastOf(r)
               PROVE  LET g == disk.regions[r].generation + 1
                      IN g \in DOMAIN files[r] /\ files[r][g] = disk.regions[r]
    BY DEF ReceiptMeansRendered
  <2>1. OpRegion[o] = r /\ Latest(disk, o) BY DEF LastOf, Latest
  <2>2. Shows(disk, files, r) BY <2>1 DEF RInv, Receipts
  <2> QED BY <2>2 DEF Shows
<1> QED BY <1>1, MInvHolds, TInvHolds, RInvHolds, PTL
-----------------------------------------------------------------------------
(* Reopening.  What a replay of the operations of the file, tick by tick,  *)
(* gives is followed as the file grows, one region at a time: the rows of  *)
(* a region are of one session, and their ticks grow with the ledger.      *)

LEMMA TickBounded ==
  ASSUME ledger \in Seq(Ops), NEW i \in DOMAIN ledger
  PROVE  TickAt(i) \in 0 .. Len(ledger)
<1> DEFINE A == {k \in 1 .. i : OpSession[ledger[k]] = OpSession[ledger[i]]}
<1>1. i \in Nat /\ i <= Len(ledger) /\ Len(ledger) \in Nat OBVIOUS
<1>2. IsFiniteSet(1 .. i) /\ Cardinality(1 .. i) = i BY <1>1, FS_Interval
<1>3. A \subseteq 1 .. i OBVIOUS
<1>4. TickAt(i) = Cardinality(A) BY DEF TickAt
<1> HIDE DEF A
<1>5. Cardinality(A) <= Cardinality(1 .. i) BY <1>2, <1>3, FS_Subset
<1>6. TickAt(i) \in Nat BY TickAtNat
<1> QED BY <1>1, <1>2, <1>4, <1>5, <1>6

RegionMaps == [Regions -> RegionStates]

FinalizedAt(pl, n, o) == o \in Ops /\ pl.status[o] = "finalized" /\ pl.ledger[o] = n

\* The states of the regions before each tick.  Operations of two regions may
\* stand at one tick, those of one region do not.
History(pl, g) ==
  /\ g \in [Nat -> RegionMaps]
  /\ g[0] = [r \in Regions |-> Gen0]
  /\ \A n \in Nat, o \in Ops : FinalizedAt(pl, n, o) =>
        /\ pl.stage[o] = StageOn(o, g[n][OpRegion[o]])
        /\ g[n + 1][OpRegion[o]] = MutatedOn(o, g[n][OpRegion[o]])
  /\ \A n \in Nat, r \in Regions :
        (\A o \in Ops : FinalizedAt(pl, n, o) => OpRegion[o] # r) => g[n + 1][r] = g[n][r]

EndsIn(g, n, maps) == \A k \in Nat : k >= n => g[k] = maps

Steady(g, n) == \A k \in Nat : k >= n => g[k + 1] = g[k]

Tells(pl, n) == \E g : History(pl, g) /\ EndsIn(g, n, pl.regions)

\* The replay of the file ends in the regions of the file.
HInv == ~raced => Tells(disk, Len(ledger) + 1)

LEMMA Least ==
  ASSUME NEW S \in SUBSET Nat, S # {}
  PROVE  \E n \in S : \A m \in S : n <= m
<1>1. PICK n \in S : \A m \in S : ~(<<m, n>> \in OpToRel(<, Nat))
  BY NatLessThanWellFounded, WFMin
<1>2. \A m \in S : ~(m < n) BY <1>1, Zenon DEF OpToRel
<1> QED BY <1>2

\* What does not change from tick to tick is what it is in the end.
LEMMA Backwards ==
  ASSUME NEW h, NEW t \in Nat, NEW m \in Nat, NEW end, t <= m, EndsIn(h, m, end), Steady(h, t)
  PROVE  EndsIn(h, t, end)
<1> USE DEF EndsIn, Steady
<1> DEFINE Bad == {k \in Nat : k >= t /\ h[k] # end}
           Left == {d \in Nat : d <= m /\ (m - d) \in Bad}
<1>1. SUFFICES ASSUME NEW b \in Bad PROVE FALSE OBVIOUS
<1>2. b \in Nat /\ b < m /\ b >= t BY <1>1
<1>3. (m - b) \in Nat /\ m - b <= m /\ m - (m - b) = b BY <1>2
<1>4. (m - b) \in Left BY <1>1, <1>3
<1>5. PICK d \in Left : \A e \in Left : d <= e
  <2>1. Left \in SUBSET Nat /\ Left # {} BY <1>4
  <2> HIDE DEF Left
  <2> QED BY <2>1, Least
<1>6. PICK k : k = m - d OBVIOUS
<1>7. d \in Nat /\ d <= m /\ k \in Nat /\ k >= t /\ h[k] # end BY <1>5, <1>6
<1>8. k < m BY <1>6, <1>7
<1>9. d # 0 BY <1>6, <1>7, <1>8
<1>10. (d - 1) \in Nat /\ d - 1 <= m /\ m - (d - 1) = k + 1 /\ ~(d <= d - 1) BY <1>6, <1>7, <1>9
<1>11. (d - 1) \notin Left BY <1>5, <1>10
<1>12. (k + 1) \in Nat /\ k + 1 >= t BY <1>7
<1>13. h[k + 1] = end BY <1>10, <1>11, <1>12
<1> QED BY <1>7, <1>13

\* One row of a session, one tick.
LEMMA OneAtATick ==
  ASSUME ledger \in Seq(Ops), NEW o, NEW q, NEW t, <<o, t>> \in Rows, <<q, t>> \in Rows,
         OpSession[o] = OpSession[q]
  PROVE  o = q
<1>1. PICK i \in DOMAIN ledger : o = ledger[i] /\ t = TickAt(i) BY DEF Rows
<1>2. PICK j \in DOMAIN ledger : q = ledger[j] /\ t = TickAt(j) BY DEF Rows
<1>3. TickAt(i) \in Nat /\ TickAt(j) \in Nat /\ TickAt(i) = TickAt(j) BY <1>1, <1>2, TickAtNat
<1>4. i \in Nat /\ j \in Nat OBVIOUS
<1>5. ~(i < j) BY <1>1, <1>2, <1>3, TickOrder
<1>6. ~(j < i) BY <1>1, <1>2, <1>3, TickOrder
<1>7. i = j BY <1>4, <1>5, <1>6
<1> QED BY <1>1, <1>2, <1>7

LEMMA TickOfRow ==
  ASSUME ledger \in Seq(Ops), NEW o, NEW t, <<o, t>> \in Rows
  PROVE  t \in 0 .. Len(ledger)
<1>1. PICK i \in DOMAIN ledger : t = TickAt(i) BY DEF Rows
<1> QED BY <1>1, TickBounded

LEMMA FinalizedRow ==
  ASSUME PayloadOK(disk, Rows), ledger \in Seq(Ops), NEW o, NEW t, FinalizedAt(disk, t, o)
  PROVE  <<o, t>> \in Rows /\ t \in 0 .. Len(ledger)
<1>1. <<o, t>> \in Rows BY DEF FinalizedAt, PayloadOK
<1> QED BY <1>1, TickOfRow

LEMMA HistorySteps ==
  ASSUME NEW pl, NEW g, History(pl, g), NEW k \in Nat, NEW q \in Ops, FinalizedAt(pl, k, q)
  PROVE  /\ pl.stage[q] = StageOn(q, g[k][OpRegion[q]])
         /\ g[k + 1][OpRegion[q]] = MutatedOn(q, g[k][OpRegion[q]])
BY Zenon DEF History

LEMMA HistoryRests ==
  ASSUME NEW pl, NEW g, History(pl, g), NEW k \in Nat, NEW a \in Regions,
         \A o \in Ops : FinalizedAt(pl, k, o) => OpRegion[o] # a
  PROVE  g[k + 1][a] = g[k][a]
BY Zenon DEF History

\* A finalized operation is inserted into the history at its tick: later ticks
\* are of other regions.
LEMMA HistoryFinalized ==
  ASSUME MInv, ~raced, Ordered, NEW g, NEW n, NEW o \in Ops, NEW tick,
         History(disk, g), EndsIn(g, Len(ledger) + 1, disk.regions),
         disk.status[o] = "prepared", <<o, tick>> \in Rows, disk \in Payloads,
         n.status = [disk.status EXCEPT ![o] = "finalized"],
         n.regions = [disk.regions EXCEPT ![OpRegion[o]] = MutatedOn(o, @)],
         n.stage = disk.stage, n.ledger = [disk.ledger EXCEPT ![o] = tick]
  PROVE  \E f : History(n, f) /\ EndsIn(f, Len(ledger) + 1, n.regions)
<1>1. PICK pl, r, last : pl = disk /\ r = OpRegion[o] /\ last = Len(ledger) OBVIOUS
<1>2. ledger \in Seq(Ops) /\ last \in Nat BY <1>1 DEF MInv, JInv, JType
<1>3. PayloadOK(disk, Rows) BY DEF MInv, PInv
<1>4. tick \in 0 .. last /\ tick \in Nat BY <1>1, <1>2, TickOfRow
<1>5. /\ pl.status \in [Ops -> {"unknown", "prepared", "finalized"}] /\ pl.ledger \in [Ops -> Nat]
      /\ pl.regions \in RegionMaps
  BY <1>1 DEF Payloads, RegionMaps
<1>6. r \in Regions /\ pl.regions[r] \in RegionStates BY <1>1, <1>5, MarkdownAssumption DEF RegionMaps
<1>7. PICK x : x = MutatedOn(o, pl.regions[r]) OBVIOUS
<1>8. x \in RegionStates BY <1>6, <1>7, OnTypes
<1>9. n.regions = [pl.regions EXCEPT ![r] = x] BY <1>1, <1>7
<1>10. History(pl, g) /\ EndsIn(g, last + 1, pl.regions) BY <1>1
<1>11. g \in [Nat -> RegionMaps] /\ g[0] = [q \in Regions |-> Gen0] BY <1>10 DEF History
\* The operations of each tick.
<1>12. \A k \in Nat : \A q : FinalizedAt(pl, k, q) => q # o /\ (OpRegion[q] = r => k < tick)
  <2>1. SUFFICES ASSUME NEW k \in Nat, NEW q, FinalizedAt(pl, k, q)
                 PROVE  q # o /\ (OpRegion[q] = r => k < tick)
    OBVIOUS
  <2>2. q \in Ops /\ disk.status[q] = "finalized" /\ disk.ledger[q] = k BY <1>1, <2>1 DEF FinalizedAt
  <2>3. q # o BY <2>2
  <2>4. OpRegion[q] = OpRegion[o] => k < tick BY <2>2, NextIsLatest
  <2> QED BY <1>1, <2>3, <2>4
<1>13. \A k \in Nat : \A q : FinalizedAt(n, k, q) <=> FinalizedAt(pl, k, q) \/ (q = o /\ k = tick)
  <2>1. \A q \in Ops : q # o => n.status[q] = pl.status[q] /\ n.ledger[q] = pl.ledger[q] BY <1>1, <1>5
  <2>2. n.status[o] = "finalized" /\ n.ledger[o] = tick BY <1>1, <1>5
  <2>3. pl.status[o] # "finalized" BY <1>1
  <2> QED BY <2>1, <2>2, <2>3 DEF FinalizedAt
\* From the tick on, nothing happens in the region.
<1>14. \A k \in Nat : k >= tick => g[k][r] = pl.regions[r]
  <2> DEFINE h == [k \in Nat |-> g[k][r]]
  <2> PICK m, end : m = last + 1 /\ end = pl.regions[r] OBVIOUS
  <2>1. \A k \in Nat : k >= m => h[k] = end BY <1>10 DEF EndsIn
  <2>2. ASSUME NEW k \in Nat, k >= tick PROVE g[k + 1][r] = g[k][r]
    <3>1. \A q \in Ops : FinalizedAt(pl, k, q) => OpRegion[q] # r BY <1>4, <1>12, <2>2
    <3> QED BY <1>6, <1>10, <3>1, HistoryRests
  <2>3. \A k \in Nat : k >= tick => h[k + 1] = h[k] BY <2>2
  <2>4. m \in Nat /\ tick <= m BY <1>2, <1>4
  <2>5. \A k \in Nat : h[k] = g[k][r] OBVIOUS
  <2> HIDE DEF h
  <2>6. PICK h2, t : h2 = h /\ t = tick OBVIOUS
  <2>7. t \in Nat /\ m \in Nat /\ t <= m BY <1>4, <2>4, <2>6
  <2>8. \A k \in Nat : k >= m => h2[k] = end BY <2>1, <2>6
  <2>9. \A k \in Nat : k >= t => h2[k + 1] = h2[k] BY <2>3, <2>6
  <2>11. EndsIn(h2, m, end) /\ Steady(h2, t) BY <2>8, <2>9 DEF EndsIn, Steady
  <2>12. EndsIn(h2, t, end) BY <2>7, <2>11, Backwards
  <2>10. \A k \in Nat : k >= t => h2[k] = end BY <2>12 DEF EndsIn
  <2> QED BY <2>5, <2>6, <2>10
<1> DEFINE Put(maps) == [maps EXCEPT ![r] = x]
           f == [k \in Nat |-> IF k <= tick THEN g[k] ELSE Put(g[k])]
<1>15. \A maps \in RegionMaps : Put(maps) \in RegionMaps BY <1>6, <1>8 DEF RegionMaps
<1>16. f \in [Nat -> RegionMaps] BY <1>11, <1>15
<1>17. \A k \in Nat : (k <= tick => f[k] = g[k]) /\ (k > tick => f[k] = Put(g[k])) BY <1>4
<1>18. f[0] = [q \in Regions |-> Gen0] BY <1>4, <1>11, <1>17
<1>19. \A maps \in RegionMaps : Put(maps)[r] = x /\ \A q \in Regions \ {r} : Put(maps)[q] = maps[q]
  BY <1>6 DEF RegionMaps
<1>21. n.regions = Put(pl.regions) BY <1>9
<1> HIDE DEF f, Put
\* The other regions have their old history, and this one the old one up to
\* the tick and x behind it.
<1>20. \A k \in Nat, a \in Regions : a # r => f[k][a] = g[k][a]
  <2>1. SUFFICES ASSUME NEW k \in Nat, NEW a \in Regions, a # r PROVE f[k][a] = g[k][a] OBVIOUS
  <2>2. g[k] \in RegionMaps BY <1>11
  <2>3. CASE k <= tick BY <1>17, <2>3
  <2>4. CASE k > tick
    <3>1. f[k] = Put(g[k]) BY <1>17, <2>4
    <3> QED BY <1>19, <2>1, <2>2, <3>1
  <2> QED BY <1>4, <2>3, <2>4
<1>27. \A k \in Nat : (k <= tick => f[k][r] = g[k][r]) /\ (k > tick => f[k][r] = x)
  <2>1. SUFFICES ASSUME NEW k \in Nat PROVE (k <= tick => f[k][r] = g[k][r]) /\ (k > tick => f[k][r] = x) OBVIOUS
  <2>2. g[k] \in RegionMaps BY <1>11
  <2> QED BY <1>17, <1>19, <2>2
<1>22. ASSUME NEW k \in Nat, NEW q \in Ops, FinalizedAt(n, k, q)
       PROVE  /\ n.stage[q] = StageOn(q, f[k][OpRegion[q]])
              /\ f[k + 1][OpRegion[q]] = MutatedOn(q, f[k][OpRegion[q]])
  <2>1. OpRegion[q] \in Regions /\ n.stage = pl.stage /\ k + 1 \in Nat
    BY <1>1, MarkdownAssumption
  <2>2. CASE q = o /\ k = tick
    <3>1. pl.stage[o] = StageOn(o, pl.regions[r]) BY <1>1, <1>3 DEF PayloadOK
    <3>2. g[k][r] = pl.regions[r] /\ f[k][r] = g[k][r] BY <1>4, <1>14, <1>27, <2>2
    <3>3. f[k + 1][r] = x BY <1>4, <1>27, <2>1, <2>2
    <3> QED BY <1>1, <1>7, <2>1, <2>2, <3>1, <3>2, <3>3
  <2>3. CASE FinalizedAt(pl, k, q)
    <3>1. OpRegion[q] = r => k < tick BY <1>12, <2>3
    <3>2. /\ pl.stage[q] = StageOn(q, g[k][OpRegion[q]])
          /\ g[k + 1][OpRegion[q]] = MutatedOn(q, g[k][OpRegion[q]])
      BY <1>10, <1>22, <2>3, HistorySteps
    <3>3. f[k][OpRegion[q]] = g[k][OpRegion[q]] /\ f[k + 1][OpRegion[q]] = g[k + 1][OpRegion[q]]
      BY <1>4, <1>20, <1>27, <2>1, <3>1
    <3> QED BY <2>1, <3>2, <3>3
  <2> QED BY <1>13, <1>22, <2>2, <2>3
<1>23. ASSUME NEW k \in Nat, NEW a \in Regions, \A q \in Ops : FinalizedAt(n, k, q) => OpRegion[q] # a
       PROVE  f[k + 1][a] = f[k][a]
  <2>1. \A q \in Ops : FinalizedAt(pl, k, q) => OpRegion[q] # a BY <1>13, <1>23
  <2>2. g[k + 1][a] = g[k][a] /\ k + 1 \in Nat BY <1>10, <1>23, <2>1, HistoryRests
  <2>3. CASE a # r BY <1>20, <2>2, <2>3
  <2>4. CASE a = r
    <3>1. k # tick BY <1>1, <1>4, <1>13, <1>23, <2>4
    <3> QED BY <1>4, <1>27, <2>2, <2>4, <3>1
  <2> QED BY <2>3, <2>4
<1>24. \A k \in Nat : k >= last + 1 => f[k] = n.regions
  <2>1. SUFFICES ASSUME NEW k \in Nat, k >= last + 1 PROVE f[k] = n.regions OBVIOUS
  <2>2. k > tick /\ g[k] = pl.regions BY <1>2, <1>4, <1>10, <2>1 DEF EndsIn
  <2> QED BY <1>17, <1>21, <2>2
<1>25. History(n, f) BY <1>16, <1>18, <1>22, <1>23 DEF History
<1>26. EndsIn(f, last + 1, n.regions) BY <1>24 DEF EndsIn
<1> QED BY <1>1, <1>25, <1>26

\* A write that finalizes nothing leaves the history as it is.
LEMMA HistoryStays ==
  ASSUME NEW pl, NEW n, NEW g, History(pl, g), n.regions = pl.regions,
         \A k, q : FinalizedAt(n, k, q) <=> FinalizedAt(pl, k, q),
         \A k, q : FinalizedAt(pl, k, q) => n.stage[q] = pl.stage[q]
  PROVE  History(n, g)
BY DEF History

LEMMA OthersStay ==
  ASSUME NEW pl \in Payloads, NEW n, NEW call \in Writing, call # "finalize", NEW o, NEW tick, NEW rows,
         Changes(pl, n, call, o, tick), CallPre(call, o, pl, tick, rows)
  PROVE  /\ n.regions = pl.regions
         /\ \A k, q : FinalizedAt(n, k, q) <=> FinalizedAt(pl, k, q)
         /\ \A k, q : FinalizedAt(pl, k, q) => n.stage[q] = pl.stage[q]
<1>1. n.regions = pl.regions /\ n.ledger = pl.ledger BY DEF Changes
<1>2. pl.status \in [Ops -> {"unknown", "prepared", "finalized"}] /\ pl.stage \in [Ops -> Stages] BY DEF Payloads
<1>3. call \in {"init", "prepare", "abort"} BY DEF Writing
<1>4. call # "init" => o \in Ops /\ pl.status[o] # "finalized" BY <1>3 DEF CallPre
<1>5. \A q \in Ops : n.status[q] = "finalized" <=> pl.status[q] = "finalized"
  <2>1. CASE call = "init" BY <2>1 DEF Changes
  <2>2. CASE call = "prepare" BY <1>2, <1>4, <2>2 DEF Changes
  <2>3. CASE call = "abort" BY <1>2, <1>4, <2>3 DEF Changes
  <2> QED BY <1>3, <2>1, <2>2, <2>3
<1>6. \A q \in Ops : pl.status[q] = "finalized" => n.stage[q] = pl.stage[q]
  <2>1. CASE call = "init" BY <2>1 DEF Changes
  <2>2. CASE call = "prepare" BY <1>2, <1>4, <2>2 DEF Changes
  <2>3. CASE call = "abort" BY <1>2, <1>4, <2>3 DEF Changes
  <2> QED BY <1>3, <2>1, <2>2, <2>3
<1>7. \A k, q : FinalizedAt(n, k, q) <=> FinalizedAt(pl, k, q) BY <1>1, <1>5 DEF FinalizedAt
<1>8. \A k, q : FinalizedAt(pl, k, q) => n.stage[q] = pl.stage[q] BY <1>6 DEF FinalizedAt
<1> QED BY <1>1, <1>7, <1>8

LEMMA TellsStep ==
  ASSUME MInv, ~raced, Ordered, Tells(disk, Len(ledger) + 1),
         Stands \/ \E p \in Opens : KindOf(p)
  PROVE  Tells(disk', Len(ledger') + 1)
<1>0. ledger \in Seq(Ops) BY DEF MInv, JInv, JType
<1>1. CASE disk' = disk /\ ledger' = ledger BY <1>1
<1>2. ASSUME NEW p \in Opens, NEW o \in Ops, Commits(p, o) PROVE Tells(disk', Len(ledger') + 1)
  <2>1. disk' = disk /\ Len(ledger) \in Nat /\ Len(ledger') = Len(ledger) + 1 BY <1>0, <1>2 DEF Commits
  <2>2. PICK g : History(disk, g) /\ EndsIn(g, Len(ledger) + 1, disk.regions) BY DEF Tells
  <2>3. EndsIn(g, Len(ledger') + 1, disk.regions) BY <2>1, <2>2 DEF EndsIn
  <2> QED BY <2>1, <2>2, <2>3 DEF Tells
<1>3. ASSUME NEW p \in Opens, Writes(p) PROVE Tells(disk', Len(ledger') + 1)
  <2>1. ledger' = ledger BY <1>3 DEF Writes
  <2>2. PICK call, o, tick, rows : call = work[p].call /\ o = work[p].op /\ tick = work[p].tick /\ rows = Rows
    OBVIOUS
  <2>3. PICK n : n = disk' OBVIOUS
  <2>4. disk \in Payloads /\ call \in Writing /\ Changes(disk, n, call, o, tick)
        /\ CallPre(call, o, disk, tick, rows)
    BY <1>3, <2>2, <2>3, WriteChanges DEF MInv
  <2>5. PICK g : History(disk, g) /\ EndsIn(g, Len(ledger) + 1, disk.regions) BY DEF Tells
  <2>6. CASE call = "finalize"
    <3>1. o \in Ops /\ disk.status[o] = "prepared" /\ <<o, tick>> \in Rows BY <2>2, <2>4, <2>6 DEF CallPre
    <3>2. n.status = [disk.status EXCEPT ![o] = "finalized"] BY <2>4, <2>6 DEF Changes
    <3>3. n.regions = [disk.regions EXCEPT ![OpRegion[o]] = MutatedOn(o, @)] BY <2>4, <2>6 DEF Changes
    <3>4. n.stage = disk.stage BY <2>4, <2>6 DEF Changes
    <3>5. n.ledger = [disk.ledger EXCEPT ![o] = tick] BY <2>4, <2>6 DEF Changes
    <3>6. \E f : History(n, f) /\ EndsIn(f, Len(ledger) + 1, n.regions)
      BY <2>4, <2>5, <3>1, <3>2, <3>3, <3>4, <3>5, HistoryFinalized
    <3> QED BY <2>1, <2>3, <3>6 DEF Tells
  <2>7. CASE call # "finalize"
    <3>1. n.regions = disk.regions BY <2>4, <2>7, OthersStay
    <3>2. \A k, q : FinalizedAt(n, k, q) <=> FinalizedAt(disk, k, q) BY <2>4, <2>7, OthersStay
    <3>3. \A k, q : FinalizedAt(disk, k, q) => n.stage[q] = disk.stage[q] BY <2>4, <2>7, OthersStay
    <3>4. History(n, g) BY <2>5, <3>1, <3>2, <3>3, HistoryStays
    <3> QED BY <2>1, <2>3, <2>5, <3>1, <3>4 DEF Tells
  <2> QED BY <2>6, <2>7
<1> QED BY <1>1, <1>2, <1>3 DEF Stands, KindOf, Rests, GoesOn, Begins, Learns, Renders, Quiet

LEMMA HInvHolds == Spec => []HInv
<1>1. Init => HInv
  <2> SUFFICES ASSUME Init PROVE Tells(disk, Len(ledger) + 1)
    BY DEF HInv
  <2>1. ledger = << >> /\ disk = InitialPayload BY DEF Init
  <2>2. disk.regions = [r \in Regions |-> Gen0] /\ \A k, q : ~FinalizedAt(disk, k, q)
    BY <2>1 DEF InitialPayload, FinalizedAt
  <2>3. PICK start : start = [r \in Regions |-> Gen0] OBVIOUS
  <2>4. Gen0 \in RegionStates BY DEF Gen0, RegionStates
  <2>5. start \in RegionMaps BY <2>3, <2>4 DEF RegionMaps
  <2> DEFINE g == [k \in Nat |-> start]
  <2>6. History(disk, g) BY <2>2, <2>3, <2>5 DEF History
  <2>7. EndsIn(g, Len(ledger) + 1, disk.regions) BY <2>2, <2>3 DEF EndsIn
  <2> QED BY <2>6, <2>7 DEF Tells
<1>2. MInv /\ RInv /\ HInv /\ [Next]_vars => HInv'
  <2> SUFFICES ASSUME MInv, RInv, HInv, [Next]_vars, ~raced' PROVE Tells(disk', Len(ledger') + 1)
    BY DEF HInv
  <2>1. Stands \/ \E p \in Opens : KindOf(p) BY KindOfStep DEF PInv, MInv
  <2>2. ~raced BY RacedStays DEF IInv, MInv
  <2>3. Ordered /\ Tells(disk, Len(ledger) + 1) BY <2>2 DEF RInv, HInv, Tells
  <2> QED BY <2>1, <2>2, <2>3, TellsStep
<1> QED BY <1>1, <1>2, MInvHolds, RInvHolds, PTL DEF Spec
-----------------------------------------------------------------------------
StartsFrom == [agrees |-> TRUE, regions |-> [r \in Regions |-> Gen0]]

Done(pl) == {o \in Ops : pl.status[o] = "finalized"}

Replaying(pl, before, tick) ==
  IF tick = 0 THEN StartsFrom
  ELSE IF \E o \in Done(pl) : pl.ledger[o] = tick - 1
  THEN Driver(pl)!Replay(before[tick - 1], CHOOSE o \in Done(pl) : pl.ledger[o] = tick - 1)
  ELSE before[tick - 1]

ReplayOf(pl) == CHOOSE before : before = [tick \in Nat |-> Replaying(pl, before, tick)]

TicksOf(pl) == {pl.ledger[o] : o \in Done(pl)}

LEMMA ReplayedIs ==
  ASSUME NEW pl
  PROVE  Driver(pl)!Replayed =
           ReplayOf(pl)[IF TicksOf(pl) = {} THEN 0
                        ELSE (CHOOSE t \in TicksOf(pl) : \A u \in TicksOf(pl) : u <= t) + 1]
BY DEF Driver!Replayed, Driver!Finalizations, Driver!EmptyRegion, Done, TicksOf, ReplayOf, Replaying, StartsFrom, Gen0

\* Replaying an operation on the regions it was finalized on.
LEMMA ReplayIs ==
  ASSUME NEW pl, NEW maps \in RegionMaps, NEW o \in Ops, pl.stage[o] = StageOn(o, maps[OpRegion[o]])
  PROVE  Driver(pl)!Replay([agrees |-> TRUE, regions |-> maps], o)
           = [agrees |-> TRUE, regions |-> [maps EXCEPT ![OpRegion[o]] = MutatedOn(o, maps[OpRegion[o]])]]
<1>1. PICK r, x : r = OpRegion[o] /\ x = MutatedOn(o, maps[r]) OBVIOUS
<1>2. r \in Regions BY <1>1, MarkdownAssumption
<1>3. Driver(pl)!StageFor(OpKind[o], maps[r]) = StageOn(o, maps[r])
  BY DEF StageOn, Driver!StageFor, Driver!NextGeneration, Driver!Tombstoned
<1>4. Driver(pl)!Mutated(o, OpKind[o], pl.stage[o].generation, maps[r]) = x BY <1>1, MutatedIs
<1>5. [maps EXCEPT ![r] = Driver(pl)!Mutated(o, OpKind[o], pl.stage[o].generation, maps[r])]
        = [maps EXCEPT ![r] = x]
  BY <1>4
<1>6. (pl.stage[o] = Driver(pl)!StageFor(OpKind[o], maps[r])) = TRUE BY <1>1, <1>3
<1>7. Driver(pl)!Replay([agrees |-> TRUE, regions |-> maps], o)
        = [agrees |-> pl.stage[o] = Driver(pl)!StageFor(OpKind[o], maps[r]),
           regions |-> [maps EXCEPT ![r] = Driver(pl)!Mutated(o, OpKind[o], pl.stage[o].generation, maps[r])]]
  BY <1>1 DEF Driver!Replay
<1> QED BY <1>1, <1>5, <1>6, <1>7

\* The replay goes through the history.
LEMMA ReplayTells ==
  ASSUME NEW pl, NEW g, History(pl, g),
         \A k, o, q : FinalizedAt(pl, k, o) /\ FinalizedAt(pl, k, q) => o = q
  PROVE  \A k \in Nat : ReplayOf(pl)[k] = [agrees |-> TRUE, regions |-> g[k]]
<1> DEFINE f == [k \in Nat |-> [agrees |-> TRUE, regions |-> g[k]]]
<1>1. g \in [Nat -> RegionMaps] /\ g[0] = [r \in Regions |-> Gen0] BY DEF History
<1>2. \A k \in Nat : f[k] = [agrees |-> TRUE, regions |-> g[k]] OBVIOUS
<1>3. f = [k \in Nat |-> f[k]] OBVIOUS
<1> HIDE DEF f
<1>4. ASSUME NEW k \in Nat PROVE f[k] = Replaying(pl, f, k)
  <2>1. CASE k = 0 BY <1>1, <1>2, <2>1 DEF Replaying, StartsFrom
  <2>2. ASSUME NEW j \in Nat, k = j + 1 PROVE f[k] = Replaying(pl, f, k)
    <3>1. k # 0 /\ k - 1 = j BY <2>2
    <3>2. CASE \E o \in Done(pl) : pl.ledger[o] = j
      <4>1. PICK o : o = CHOOSE q \in Done(pl) : pl.ledger[q] = j OBVIOUS
      <4>2. o \in Done(pl) /\ pl.ledger[o] = j BY <3>2, <4>1
      <4>3. o \in Ops /\ FinalizedAt(pl, j, o) BY <4>2 DEF Done, FinalizedAt
      <4>4. pl.stage[o] = StageOn(o, g[j][OpRegion[o]]) BY <2>2, <4>3, HistorySteps
      <4>5. g[k] = [g[j] EXCEPT ![OpRegion[o]] = MutatedOn(o, g[j][OpRegion[o]])]
        <5>1. g[j] \in RegionMaps /\ g[k] \in RegionMaps BY <1>1
        <5>2. g[k][OpRegion[o]] = MutatedOn(o, g[j][OpRegion[o]]) BY <2>2, <4>3, HistorySteps
        <5>3. ASSUME NEW a \in Regions, a # OpRegion[o] PROVE g[k][a] = g[j][a]
          <6>1. \A q \in Ops : FinalizedAt(pl, j, q) => OpRegion[q] # a BY <4>3, <5>3
          <6> QED BY <2>2, <6>1, HistoryRests
        <5> QED BY <5>1, <5>2, <5>3 DEF RegionMaps
      <4>6. Replaying(pl, f, k) = Driver(pl)!Replay(f[j], o) BY <3>1, <3>2, <4>1 DEF Replaying
      <4>7. g[j] \in RegionMaps BY <1>1
      <4>8. Driver(pl)!Replay([agrees |-> TRUE, regions |-> g[j]], o)
              = [agrees |-> TRUE, regions |-> [g[j] EXCEPT ![OpRegion[o]] = MutatedOn(o, g[j][OpRegion[o]])]]
        BY <4>3, <4>4, <4>7, ReplayIs
      <4> QED BY <1>2, <4>5, <4>6, <4>8
    <3>3. CASE ~\E o \in Done(pl) : pl.ledger[o] = j
      <4>1. \A o \in Ops : ~FinalizedAt(pl, j, o) BY <3>3 DEF Done, FinalizedAt
      <4>2. g[k] = g[j]
        <5>1. g[j] \in RegionMaps /\ g[k] \in RegionMaps BY <1>1
        <5>2. \A a \in Regions : g[k][a] = g[j][a] BY <2>2, <4>1, HistoryRests
        <5> QED BY <5>1, <5>2 DEF RegionMaps
      <4>3. Replaying(pl, f, k) = f[j] BY <3>1, <3>3 DEF Replaying
      <4> QED BY <1>2, <2>2, <4>2, <4>3
    <3> QED BY <3>2, <3>3
  <2>3. k = 0 \/ (k - 1 \in Nat /\ k = (k - 1) + 1) OBVIOUS
  <2> QED BY <2>1, <2>2, <2>3
<1>5. f = [k \in Nat |-> Replaying(pl, f, k)] BY <1>3, <1>4
<1>6. PICK h : h = ReplayOf(pl) OBVIOUS
<1>7. h = [k \in Nat |-> Replaying(pl, h, k)] BY <1>5, <1>6 DEF ReplayOf
<1>8. \A k \in Nat : h[k] = Replaying(pl, h, k) BY <1>7
<1> DEFINE Bad == {k \in Nat : h[k] # f[k]}
<1>9. Bad = {}
  <2>1. SUFFICES ASSUME Bad # {} PROVE FALSE OBVIOUS
  <2>2. PICK k \in Bad : \A j \in Bad : k <= j BY <2>1, Least
  <2>3. k \in Nat /\ h[k] # f[k] BY <2>2
  <2>4. Replaying(pl, h, k) # Replaying(pl, f, k) BY <1>4, <1>8, <2>3
  <2>5. k # 0 BY <2>4 DEF Replaying
  <2>6. (k - 1) \in Nat /\ ~(k <= k - 1) BY <2>3, <2>5
  <2>7. (k - 1) \notin Bad BY <2>2, <2>6
  <2>8. h[k - 1] = f[k - 1] BY <2>6, <2>7
  <2> QED BY <2>4, <2>8 DEF Replaying
<1> QED BY <1>2, <1>6, <1>9

\* The last tick of the file.
LEMMA LastTick ==
  ASSUME NEW S, NEW n \in Nat, S \subseteq 0 .. n, S # {}
  PROVE  \E t \in S : \A u \in S : u <= t
<1> DEFINE Left == {d \in 0 .. n : (n - d) \in S}
<1>1. PICK s \in S : TRUE OBVIOUS
<1>2. s \in 0 .. n /\ (n - s) \in 0 .. n /\ n - (n - s) = s OBVIOUS
<1>3. Left # {} /\ Left \in SUBSET Nat BY <1>2
<1>4. PICK d \in Left : \A e \in Left : d <= e
  <2> HIDE DEF Left
  <2> QED BY <1>3, Least
<1>5. PICK t : t = n - d OBVIOUS
<1>6. d \in 0 .. n /\ t \in S BY <1>4, <1>5
<1>7. ASSUME NEW u \in S PROVE u <= t
  <2>1. u \in 0 .. n /\ (n - u) \in 0 .. n /\ n - (n - u) = u OBVIOUS
  <2>2. (n - u) \in Left BY <2>1
  <2>3. d <= n - u BY <1>4, <2>2
  <2> QED BY <1>5, <1>6, <2>1, <2>3
<1> QED BY <1>6, <1>7

\* Replaying the file gives the regions of the file.
LEMMA ReplayEnds ==
  ASSUME NEW pl, NEW g, NEW n \in Nat, History(pl, g), EndsIn(g, n + 1, pl.regions),
         \A k, o, q : FinalizedAt(pl, k, o) /\ FinalizedAt(pl, k, q) => o = q,
         \A k, o : FinalizedAt(pl, k, o) => k \in 0 .. n
  PROVE  Driver(pl)!Replayed = [agrees |-> TRUE, regions |-> pl.regions]
<1>1. \A k \in Nat : ReplayOf(pl)[k] = [agrees |-> TRUE, regions |-> g[k]] BY ReplayTells
<1>2. ASSUME NEW t \in Nat, t <= n + 1, \A k \in Nat, o \in Ops : k >= t => ~FinalizedAt(pl, k, o)
      PROVE  g[t] = pl.regions
  <2>1. Steady(g, t)
    <3>1. SUFFICES ASSUME NEW k \in Nat, k >= t PROVE g[k + 1] = g[k] BY DEF Steady
    <3>2. g[k] \in RegionMaps /\ g[k + 1] \in RegionMaps BY DEF History
    <3>3. \A a \in Regions : g[k + 1][a] = g[k][a] BY <1>2, <3>1, HistoryRests
    <3> QED BY <3>2, <3>3 DEF RegionMaps
  <2>2. PICK h, m, end : h = g /\ m = n + 1 /\ end = pl.regions OBVIOUS
  <2>3. m \in Nat /\ t <= m /\ EndsIn(h, m, end) /\ Steady(h, t) BY <1>2, <2>1, <2>2
  <2>4. EndsIn(h, t, end) BY <2>3, Backwards
  <2> QED BY <1>2, <2>2, <2>4 DEF EndsIn
<1>3. \A k, o : FinalizedAt(pl, k, o) => k \in TicksOf(pl) BY DEF FinalizedAt, TicksOf, Done
<1>4. TicksOf(pl) \subseteq 0 .. n
  <2>1. SUFFICES ASSUME NEW o \in Done(pl) PROVE pl.ledger[o] \in 0 .. n BY DEF TicksOf
  <2>2. FinalizedAt(pl, pl.ledger[o], o) BY DEF FinalizedAt, Done
  <2> QED BY <2>2
<1>5. CASE TicksOf(pl) = {}
  <2>1. g[0] = pl.regions BY <1>2, <1>3, <1>5
  <2>2. Driver(pl)!Replayed = ReplayOf(pl)[0] BY <1>5, ReplayedIs
  <2> QED BY <1>1, <2>1, <2>2
<1>6. CASE TicksOf(pl) # {}
  <2>1. PICK last : last = CHOOSE t \in TicksOf(pl) : \A u \in TicksOf(pl) : u <= t OBVIOUS
  <2>2. \E t \in TicksOf(pl) : \A u \in TicksOf(pl) : u <= t
    <3>1. PICK S : S = TicksOf(pl) OBVIOUS
    <3>2. S \subseteq 0 .. n /\ S # {} BY <1>4, <1>6, <3>1
    <3>3. \E t \in S : \A u \in S : u <= t BY <3>2, LastTick
    <3> QED BY <3>1, <3>3
  <2>3. last \in TicksOf(pl) /\ \A u \in TicksOf(pl) : u <= last BY <2>1, <2>2
  <2>4. last \in 0 .. n /\ last + 1 \in Nat /\ last + 1 <= n + 1 BY <1>4, <2>3
  <2>5. \A k \in Nat, o \in Ops : k >= last + 1 => ~FinalizedAt(pl, k, o) BY <1>3, <2>3, <2>4
  <2>6. g[last + 1] = pl.regions BY <1>2, <2>4, <2>5
  <2>7. Driver(pl)!Replayed = ReplayOf(pl)[last + 1] BY <1>6, <2>1, ReplayedIs
  <2> QED BY <1>1, <2>4, <2>6, <2>7
<1> QED BY <1>5, <1>6

LEMMA DiskRebuilds ==
  ASSUME MInv, ~raced, HInv, ~SharesTick(disk)
  PROVE  Rebuilds(disk)
<1>1. ledger \in Seq(Ops) /\ PayloadOK(disk, Rows) BY DEF MInv, JInv, JType, PInv
<1>2. PICK pl, n : pl = disk /\ n = Len(ledger) OBVIOUS
<1>3. n \in Nat BY <1>1, <1>2
<1>4. PICK g : History(pl, g) /\ EndsIn(g, n + 1, pl.regions) BY <1>2 DEF HInv, Tells
<1>5. ASSUME NEW k, NEW o, NEW q, FinalizedAt(pl, k, o), FinalizedAt(pl, k, q) PROVE o = q
  <2>1. <<o, k>> \in Rows /\ <<q, k>> \in Rows BY <1>1, <1>2, <1>5, FinalizedRow
  <2>2. OpSession[o] = OpSession[q] BY <1>2, <1>5 DEF SharesTick, FinalizedAt
  <2> QED BY <1>1, <2>1, <2>2, OneAtATick
<1>6. ASSUME NEW k, NEW o, FinalizedAt(pl, k, o) PROVE k \in 0 .. n
  <2>1. k \in 0 .. Len(ledger) BY <1>1, <1>2, <1>6, FinalizedRow
  <2> QED BY <1>2, <2>1
<1>7. Driver(pl)!Replayed = [agrees |-> TRUE, regions |-> pl.regions]
  <2>1. \A k, o, q : FinalizedAt(pl, k, o) /\ FinalizedAt(pl, k, q) => o = q BY <1>5
  <2>2. \A k, o : FinalizedAt(pl, k, o) => k \in 0 .. n BY <1>6
  <2> QED BY <1>3, <1>4, <2>1, <2>2, ReplayEnds
<1>8. Driver(pl)!BoundOnce BY <1>5 DEF Driver!BoundOnce, Driver!Finalizations, FinalizedAt
<1>9. Driver(pl)!Restores BY <1>7, <1>8 DEF Driver!Restores, Driver!ShowsReplay
<1>10. ASSUME NEW o \in Ops, pl.status[o] = "prepared"
       PROVE  HolderIn(pl)[OpRegion[o]] = o /\ pl.stage[o] = FreshStage(pl, o)
  <2>1. pl.stage[o] = StageOn(o, pl.regions[OpRegion[o]]) BY <1>1, <1>2, <1>10 DEF PayloadOK
  <2>2. OpRegion[o] \in Regions BY MarkdownAssumption
  <2> DEFINE h == CHOOSE k \in Ops : OpRegion[k] = OpRegion[o] /\ pl.status[k] = "prepared"
  <2>3. h \in Ops /\ OpRegion[h] = OpRegion[o] /\ pl.status[h] = "prepared" BY <1>10
  <2>4. HolderIn(pl)[OpRegion[o]] = h BY <1>10, <2>2 DEF HolderIn
  <2> HIDE DEF h
  <2>5. h = o BY <1>1, <1>2, <1>10, <2>3 DEF PayloadOK, OnePrepared
  <2> QED BY <2>1, <2>4, <2>5, FreshIs
<1>11. Rebuilds(pl) BY <1>9, <1>10 DEF Rebuilds
<1> QED BY <1>2, <1>11

\* The file can be loaded by the next process after every write, failure, crash
\* and restart, as long as the lease is exclusive, exactly when no operations of
\* two sessions have one tick in it: the stages of the finalized operations are
\* those of a replay in tick order, and the replay ends in the regions the file
\* shows; a tick that was given twice is refused by the journal.
THEOREM Reopens == Spec => []FileReopens
<1>1. SharesTick(disk) => ~Rebuilds(disk)
  <2> SUFFICES ASSUME SharesTick(disk), Rebuilds(disk) PROVE FALSE OBVIOUS
  <2>1. Driver(disk)!BoundOnce BY DEF Rebuilds, Driver!Restores
  <2>2. PICK o \in Ops, q \in Ops :
          /\ OpSession[o] # OpSession[q]
          /\ disk.status[o] = "finalized" /\ disk.status[q] = "finalized"
          /\ disk.ledger[o] = disk.ledger[q]
    BY DEF SharesTick
  <2>3. o = q BY <2>1, <2>2 DEF Driver!BoundOnce, Driver!Finalizations
  <2> QED BY <2>2, <2>3
<1>2. MInv /\ HInv => FileReopens BY <1>1, DiskRebuilds DEF FileReopens
<1> QED BY <1>2, MInvHolds, HInvHolds, PTL

\* Neither crash nor failure nor restart undoes what was reported, as long as the
\* lease is exclusive: what is committed is in the file and what has a receipt is
\* rendered, and a tick of two sessions is all that can keep a process out.
THEOREM ReportedStays == Spec => []ReportedIsOnDisk
<1>1. TypeOK /\ CommittedIsDurable /\ FileReopens /\ ReceiptMeansRendered => ReportedIsOnDisk
  BY DEF ReportedIsOnDisk
<1> QED BY <1>1, TypeCorrect, Durable, Reopens, ReceiptsAreRendered, PTL
=============================================================================
