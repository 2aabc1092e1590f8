--------------------------- MODULE TurnScheduler ---------------------------
(***************************************************************************)
(* The turn scheduler of agape-ts/src/interp.ts: drainTasks runs a batch   *)
(* of queued background deliveries as concurrent fibers (runTurnFiber) and *)
(* every provider call of a fiber goes through inTurnOrder.  A turn is a   *)
(* promise on the chain turnChain; here it is a ticket, the promise before *)
(* ticket n is ticket n - 1, and a promise is resolved when its ticket is  *)
(* in "released" (ticket 0 is the resolved promise the chain starts with). *)
(*                                                                         *)
(* A fiber is numbered by its submission.  Its handler is Calls[f] provider*)
(* calls with a segment of appends before, between and after them.         *)
(***************************************************************************)
EXTENDS Naturals, Sequences, FiniteSets

CONSTANTS
  MaxFibers,     \* bound: deliveries ever submitted
  MaxTopLevel,   \* bound: rows the top level appends
  Calls,         \* Calls[f]: provider calls of the handler of f, retries included
  Outcomes       \* how a call may end: "resolve", "reject", "throw", "fault"

Fibers == 1 .. MaxFibers

ASSUME SchedulerAssumption ==
  /\ MaxFibers \in Nat
  /\ MaxTopLevel \in Nat
  /\ Calls \in [Fibers -> Nat]
  /\ Outcomes \subseteq {"resolve", "reject", "throw", "fault"}

VARIABLES
  submitted,     \* deliveries pushed on pendingDeliveries so far
  started,       \* those a drain has taken off it
  batch,         \* number of the current batch
  draining,      \* drainingTasks
  stopped,       \* start or sendPrompt has rejected, and nothing was prompted since
  turnChain,     \* the ticket issued last
  released,      \* the tickets whose promise is resolved
  pc,            \* where a fiber is
  mine,          \* the ticket a fiber waits for or runs under
  held,          \* fiber.held, 0 for null
  lost,          \* history: the tickets whose result was thrown on by its apply
  seg,           \* calls a fiber has come back from
  batchOf,       \* the batch a fiber belongs to
  outcome,       \* how the last call of a fiber ended
  ledger         \* the rows, each with its batch, segment and fiber

vars == <<submitted, started, batch, draining, stopped, turnChain, released, pc, mine,
          held, lost, seg, batchOf, outcome, ledger>>
turnVars == <<turnChain, released, mine, held, lost>>
batchVars == <<started, batch, batchOf>>
drainVars == <<submitted, batchVars, draining, stopped>>

States == {"none", "queued", "running", "working", "settled", "crashed",
           "faulting", "ended", "faulted"}

Init ==
  /\ submitted = 0
  /\ started = 0
  /\ batch = 0
  /\ draining = FALSE
  /\ stopped = FALSE
  /\ turnChain = 0
  /\ released = {0}
  /\ pc = [f \in Fibers |-> "none"]
  /\ mine = [f \in Fibers |-> 0]
  /\ held = [f \in Fibers |-> 0]
  /\ lost = {}
  /\ seg = [f \in Fibers |-> 0]
  /\ batchOf = [f \in Fibers |-> 0]
  /\ outcome = [f \in Fibers |-> "resolve"]
  /\ ledger = << >>

-----------------------------------------------------------------------------
(* The rows.                                                               *)

Row(f) == [batch |-> batchOf[f], seg |-> seg[f], fiber |-> f]

ResumedRow(f) == [batch |-> batchOf[f], seg |-> seg[f] + 1, fiber |-> f]

TopRow == [batch |-> batch + 1, seg |-> 0, fiber |-> 0]

TopRows == {i \in DOMAIN ledger : ledger[i].fiber = 0}

Ended(f) == pc[f] \in {"ended", "faulted"}

\* Promise.all of the batch resolves once all of its fibers have.
BatchDone == \A f \in Fibers : f <= started /\ batchOf[f] = batch => pc[f] = "ended"

-----------------------------------------------------------------------------
(* The top level and the drain.                                            *)

\* A top-level statement, or the delivery of a prompt, appends a row, and may
\* delegate in the background.
TopLevel ==
  /\ ~draining
  /\ ~stopped
  /\ Cardinality(TopRows) < MaxTopLevel
  /\ ledger' = Append(ledger, TopRow)
  /\ submitted' \in {submitted, submitted + 1} \cap (0 .. MaxFibers)
  /\ UNCHANGED <<turnVars, batchVars, draining, stopped, pc, seg, outcome>>

\* A delivery queued by a handler is taken at once.
TakenAtOnce == submitted > started /\ ~stopped \* mutant

\* drainTasks looks at the queue when the batch before has ended.
BatchDue == submitted > started /\ ~stopped /\ (draining => BatchDone)

\* drainTasks takes everything queued as one batch and starts a fiber for
\* each, whose runTurnFiber puts its turn on the chain before it first waits.
StartBatch ==
  /\ BatchDue
  /\ LET new == {f \in Fibers : f > started /\ f <= submitted} IN
       /\ mine' = [f \in Fibers |-> IF f \in new THEN turnChain + (f - started) ELSE mine[f]]
       /\ pc' = [f \in Fibers |-> IF f \in new THEN "queued" ELSE pc[f]]
       /\ batchOf' = [f \in Fibers |-> IF f \in new THEN batch + 1 ELSE batchOf[f]]
  /\ turnChain' = turnChain + (submitted - started)
  /\ started' = submitted
  /\ batch' = batch + 1
  /\ draining' = TRUE
  /\ UNCHANGED <<submitted, stopped, released, held, lost, seg, outcome, ledger>>

\* The queue is empty and the last batch has ended.
DrainEnds ==
  /\ draining
  /\ submitted = started
  /\ BatchDone
  /\ draining' = FALSE
  /\ UNCHANGED <<turnVars, batchVars, submitted, stopped, pc, seg, outcome, ledger>>

\* A fiber of the batch rejects with an error that is no contained crash:
\* Promise.all rejects at once, the drain is over, and start (or sendPrompt)
\* rejects with it: what is queued stays queued.
DrainRejects ==
  /\ draining
  /\ \E f \in Fibers : batchOf[f] = batch /\ pc[f] = "faulted"
  /\ draining' = FALSE
  /\ stopped' = TRUE
  /\ UNCHANGED <<turnVars, batchVars, submitted, pc, seg, outcome, ledger>>

\* sendPrompt on a session that has rejected: start returns at once (started
\* is set), the prompt is delivered and the queue drained.
Prompt ==
  /\ stopped
  /\ stopped' = FALSE
  /\ UNCHANGED <<turnVars, batchVars, submitted, draining, pc, seg, outcome, ledger>>

-----------------------------------------------------------------------------
(* A fiber.                                                                *)

\* The promise before the fiber's own on the chain.
Previous(f) == mine[f] - 1

HasTurn(f) == Previous(f) \in released

\* runTurnFiber gets its turn and the delivery appends its Delivered row.
Acquire(f) ==
  /\ pc[f] = "queued"
  /\ HasTurn(f)
  /\ held' = [held EXCEPT ![f] = mine[f]]
  /\ pc' = [pc EXCEPT ![f] = "running"]
  /\ ledger' = Append(ledger, Row(f))
  /\ UNCHANGED <<turnChain, released, mine, lost, drainVars, seg, outcome>>

\* A running handler delegates in the background, with its Sent row.
Enqueue(f) ==
  /\ pc[f] = "running"
  /\ submitted < MaxFibers
  /\ submitted' = submitted + 1
  /\ ledger' = Append(ledger, Row(f))
  /\ UNCHANGED <<turnVars, batchVars, draining, stopped, pc, seg, outcome>>

\* What fiber f gives up when it calls: its held turn, if it holds one.
Yielded(f) == {held[f]} \ {0}

\* The next ticket of the chain.
NextTicket == turnChain + 1

\* evalSend appends Sent; inTurnOrder puts a new turn on the chain, yields
\* the one held and waits for the provider.
Call(f) ==
  /\ pc[f] = "running"
  /\ seg[f] < Calls[f]
  /\ ledger' = Append(ledger, Row(f))
  /\ turnChain' = NextTicket
  /\ mine' = [mine EXCEPT ![f] = NextTicket]
  /\ released' = released \cup Yielded(f)
  /\ held' = [held EXCEPT ![f] = 0]
  /\ pc' = [pc EXCEPT ![f] = "working"]
  /\ UNCHANGED <<lost, drainVars, seg, outcome>>

\* The provider answers, in any order among the fibers.
Settle(f) ==
  /\ pc[f] = "working"
  /\ outcome' \in {[outcome EXCEPT ![f] = o] : o \in Outcomes}
  /\ pc' = [pc EXCEPT ![f] = "settled"]
  /\ UNCHANGED <<turnVars, drainVars, seg, ledger>>

\* A result leaves the fiber without its turn.
HeldNothing(f) == 0 * mine[f] \* mutant

\* What the fiber holds once its result is applied: inTurnOrder sets
\* fiber.held after apply returned, or at once when the call rejected.
HeldAfter(f) == IF outcome[f] = "throw" THEN held[f] ELSE mine[f]

\* A result is applied as soon as it is there.
AppliesAtOnce(f) == mine[f] > 0 \* mutant

\* A result is applied in turn.
MayApply(f) == HasTurn(f)

\* The connector of a structured send fails, or its reply has the wrong type
\* ("throw"): apply throws.  That faults the handler, unless a retry block
\* around the call repeats it.
AfterResult(f) ==
  CASE outcome[f] = "resolve" -> {"running"}
    [] outcome[f] = "reject" -> {"crashed"}
    [] outcome[f] = "throw" -> {"crashed"} \cup (IF seg[f] + 1 < Calls[f] THEN {"running"} ELSE {})
    [] OTHER -> {"faulting"}

\* The row apply appends: Resolved, or the TypeMismatch it then throws.
Applied(f) ==
  (IF outcome[f] \in {"resolve", "throw"} THEN {<<ResumedRow(f)>>} ELSE {}) \cup
  (IF outcome[f] = "resolve" THEN {} ELSE {<< >>})

\* The ticket a throwing apply leaves behind: release is called by nobody.
LostBy(f) == IF outcome[f] = "throw" THEN {mine[f]} ELSE {}

\* Back in turn, the result is applied; a rejected call ("reject", "fault")
\* throws instead.  Only a reply is asked for again, no failed connector.
Resume(f) ==
  /\ pc[f] = "settled"
  /\ MayApply(f)
  /\ seg' = [seg EXCEPT ![f] = @ + 1]
  /\ held' = [held EXCEPT ![f] = HeldAfter(f)]
  /\ pc' \in {[pc EXCEPT ![f] = s] : s \in AfterResult(f)}
  /\ ledger' \in {ledger \o rows : rows \in Applied(f)}
  /\ pc'[f] = "running" => ledger' # ledger
  /\ lost' = lost \cup LostBy(f)
  /\ UNCHANGED <<turnChain, released, mine, drainVars, outcome>>

\* The finally of runTurnFiber releases what the fiber holds.
Release(f, final) ==
  /\ released' = released \cup Yielded(f)
  /\ held' = [held EXCEPT ![f] = 0]
  /\ pc' = [pc EXCEPT ![f] = final]
  /\ UNCHANGED <<turnChain, mine, lost, drainVars, seg, outcome>>

\* The handler completes its task, after its last call.
Finish(f) ==
  /\ pc[f] = "running"
  /\ seg[f] = Calls[f]
  /\ ledger' = Append(ledger, Row(f))
  /\ Release(f, "ended")

\* A CrashError is contained: AgentCrashed is appended and the fiber ends.
Crash(f) ==
  /\ pc[f] = "crashed"
  /\ ledger' = Append(ledger, Row(f))
  /\ Release(f, "ended")

\* Any other error leaves deliverTask and rejects the fiber.
Fault(f) ==
  /\ pc[f] = "faulting"
  /\ UNCHANGED ledger
  /\ Release(f, "faulted")

Step(f) ==
  \/ Acquire(f)
  \/ Enqueue(f)
  \/ Call(f)
  \/ Settle(f)
  \/ Resume(f)
  \/ Finish(f)
  \/ Crash(f)
  \/ Fault(f)

Next ==
  \/ TopLevel \/ StartBatch \/ DrainEnds \/ DrainRejects \/ Prompt
  \/ \E f \in Fibers : Step(f)

Spec == Init /\ [][Next]_vars

\* A continuation whose promise is resolved runs, and every provider call
\* comes to an end (a connector has its own timeout).  Nobody has to prompt a
\* session that has rejected.
Fairness ==
  /\ WF_vars(StartBatch)
  /\ WF_vars(DrainRejects)
  /\ \A f \in Fibers :
       /\ WF_vars(Acquire(f))
       /\ WF_vars(Call(f))
       /\ WF_vars(Settle(f))
       /\ WF_vars(Resume(f))
       /\ WF_vars(Finish(f))
       /\ WF_vars(Crash(f))
       /\ WF_vars(Fault(f))

FairSpec == Spec /\ Fairness

-----------------------------------------------------------------------------
(* Properties.                                                             *)

RowType == [batch : Nat, seg : Nat, fiber : 0 .. MaxFibers]

\* Every variable has its type.
TypeOK ==
  /\ submitted \in 0 .. MaxFibers
  /\ started \in 0 .. submitted
  /\ batch \in Nat
  /\ draining \in BOOLEAN
  /\ stopped \in BOOLEAN
  /\ turnChain \in Nat
  /\ released \subseteq 0 .. turnChain
  /\ pc \in [Fibers -> States]
  /\ mine \in [Fibers -> 0 .. turnChain]
  /\ held \in [Fibers -> 0 .. turnChain]
  /\ lost \subseteq 0 .. turnChain
  /\ seg \in [Fibers -> Nat]
  /\ batchOf \in [Fibers -> 0 .. batch]
  /\ outcome \in [Fibers -> {"resolve", "reject", "throw", "fault"}]
  /\ ledger \in Seq(RowType)

\* A fiber that is between two waits: its appends must not mix with others'.
Active(f) == pc[f] \in {"running", "crashed", "faulting"}

\* At most one fiber is in a segment (the turn of inTurnOrder).
OneAtATime ==
  \A f, g \in Fibers : Active(f) /\ Active(g) => f = g

\* Rows are ordered by batch, then by segment, then by submission.
Before(a, b) ==
  \/ a.batch < b.batch
  \/ a.batch = b.batch /\ a.seg < b.seg
  \/ a.batch = b.batch /\ a.seg = b.seg /\ a.fiber <= b.fiber

Ordered == \A i, j \in DOMAIN ledger : i < j => Before(ledger[i], ledger[j])

\* A delivery has failed with an error that deliverTask does not contain.
Broken == \E f \in Fibers : pc[f] = "faulted"

\* The ledger is in issue order whatever the order in which the provider
\* calls resolve, so the chain head is a function of the journal (the claim
\* of the comment in drainTasks).  An error that is not contained ends this:
\* the drain rejects at once, and the other fibers of its batch go on behind
\* whatever the top level does next.
IssueOrder == ~Broken => Ordered

\* The live fibers.
Live == {f \in Fibers : pc[f] \notin {"none", "ended", "faulted"}}

\* Where a fiber waits for its turn, or for the answer it then takes in turn.
Waiting(f) == pc[f] \in {"queued", "working", "settled"}

\* Fiber f waits behind a turn that is never released.
Behind(f) == Waiting(f) /\ \E t \in lost : t < mine[f]

\* A turn that is not released is a live fiber's, or one whose result was
\* thrown on by its apply: there inTurnOrder leaves fiber.held unset, so the
\* finally of runTurnFiber has nothing to release.  That turn is lost for good
\* and the fibers behind it wait for ever, against "The turn is always released
\* at fiber end, whatever the outcome, so a sibling can never deadlock behind
\* it"; nothing but a throwing apply does it, and nobody acts behind it.
NoOrphanTurn ==
  /\ \A t \in 1 .. turnChain : t \in released \/ t \in lost \/ \E f \in Live : mine[f] = t
  /\ lost \cap released = {}
  /\ \A t \in lost, f \in Fibers : Active(f) => mine[f] <= t

\* What the tickets are for: deliveries take turns, the ledger is in the order
\* they were issued in, and a turn is given on unless an apply threw.
TurnsInOrder == OneAtATime /\ IssueOrder /\ NoOrphanTurn

\* Every delivery that is queued is started and comes to an end, also when its
\* drain rejects meanwhile.  It may wait for ever behind a turn that an apply has
\* lost, and before it is started for a prompt to a session that has rejected.
EveryDeliveryEnds ==
  \A f \in Fibers :
    submitted >= f ~>
      \/ Ended(f) \/ Behind(f)
      \/ started < f /\ (stopped \/ \E g \in Fibers : Behind(g))

\* The live fibers in the order of their tickets.
LiveQueue ==
  [i \in 1 .. Cardinality(Live) |->
     CHOOSE f \in Live : Cardinality({g \in Live : mine[g] < mine[f]}) = i - 1]

\* The tickets implement the first-in-first-out queue of turns.
Abstract == INSTANCE TurnQueue WITH
  queue <- IF Broken THEN << >> ELSE LiveQueue,
  ledger <- IF Broken THEN << >> ELSE ledger,
  broken <- Broken

ImplementsTurnQueue == Abstract!Spec
=============================================================================
