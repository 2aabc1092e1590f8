------------------------ MODULE TurnScheduler_proofs ------------------------
(***************************************************************************)
(* Proofs about TurnScheduler.  The invariant has two parts.  TurnInv is of *)
(* the tickets and holds whatever the calls do: live fibers have different  *)
(* tickets, released tickets form an initial segment of the chain, and a    *)
(* fiber past its wait holds its ticket unless an apply has lost it.        *)
(* OrderInv relates tickets to segments: the live fibers queue up in the    *)
(* order of their next segments, nobody has more than one segment of lead,  *)
(* and every row lies behind all of them.  It holds until a delivery fails  *)
(* with an error that is not contained.                                     *)
(***************************************************************************)
EXTENDS MCTurnScheduler, TLAPS, FiniteSetTheorems

\* The segment a live fiber is in or is waiting to start.
Coming(f) == IF pc[f] \in {"working", "settled"} THEN seg[f] + 1 ELSE seg[f]

NextRow(f) == [batch |-> batchOf[f], seg |-> Coming(f), fiber |-> f]

\* f comes before g in the queue.
Ahead(f, g) ==
  \/ Coming(f) = Coming(g) /\ f < g
  \/ Coming(g) = Coming(f) + 1 /\ g < f

FiberShape(f) ==
  /\ pc[f] = "none" <=> f > started
  /\ pc[f] = "none" => seg[f] = 0
  /\ f \in Live => mine[f] > 0 /\ mine[f] \notin released
  /\ Active(f) => HasTurn(f)
  /\ Active(f) => held[f] = (IF mine[f] \in lost THEN 0 ELSE mine[f])
  /\ ~Active(f) => held[f] = 0
  /\ Waiting(f) => mine[f] \notin lost

Shape == \A f \in Fibers : FiberShape(f)

Prefix == 0 \in released /\ \A t \in released : \A u \in 0 .. t : u \in released

Distinct == \A f, g \in Live : f # g => mine[f] # mine[g]

Covered == \A t \in 1 .. turnChain : t \in released \/ t \in lost \/ \E f \in Live : mine[f] = t

Kept == lost \cap released = {}

TurnInv ==
  /\ TypeOK
  /\ Shape
  /\ Prefix
  /\ Distinct
  /\ Covered
  /\ Kept

Together == \A f \in Live : batchOf[f] = batch

InOrder == \A f, g \in Live : f # g /\ mine[f] < mine[g] => Ahead(f, g)

Idle == draining \/ Live = {}

RowShape(r) == r.batch <= batch \/ (~draining /\ r = TopRow)

LedgerShape == \A i \in DOMAIN ledger : RowShape(ledger[i])

LedgerBehind == \A i \in DOMAIN ledger : \A f \in Live : Before(ledger[i], NextRow(f))

OrderInv ==
  /\ Together
  /\ InOrder
  /\ Idle
  /\ LedgerShape
  /\ LedgerBehind
  /\ Ordered

IInv == TurnInv /\ (Broken \/ OrderInv)

-----------------------------------------------------------------------------
(* Facts about rows and turns.                                             *)

LEMMA RowTypes ==
  ASSUME TypeOK
  PROVE  /\ TopRow \in RowType
         /\ \A f \in Fibers : Row(f) \in RowType /\ NextRow(f) \in RowType
                              /\ ResumedRow(f) \in RowType
<1>1. batch \in Nat /\ 0 \in 0 .. MaxFibers BY SchedulerAssumption DEF TypeOK
<1>2. TopRow \in RowType BY <1>1 DEF TopRow, RowType
<1>3. ASSUME NEW f \in Fibers
      PROVE  Row(f) \in RowType /\ NextRow(f) \in RowType /\ ResumedRow(f) \in RowType
  <2>1. batchOf[f] \in Nat /\ seg[f] \in Nat /\ f \in 0 .. MaxFibers
    BY <1>1, SchedulerAssumption DEF TypeOK, Fibers
  <2>2. seg[f] + 1 \in Nat /\ Coming(f) \in Nat BY <2>1 DEF Coming
  <2> QED BY <2>1, <2>2 DEF Row, NextRow, ResumedRow, RowType
<1> QED BY <1>2, <1>3

\* Appending a row that nothing is ahead of keeps the ledger in issue order.
LEMMA AppendOrder ==
  ASSUME ledger \in Seq(RowType), Ordered, NEW r \in RowType,
         \A i \in DOMAIN ledger : Before(ledger[i], r),
         ledger' = Append(ledger, r)
  PROVE  Ordered'
<1>1. SUFFICES ASSUME NEW i \in DOMAIN ledger', NEW j \in DOMAIN ledger', i < j
               PROVE  Before(ledger'[i], ledger'[j])
  BY DEF Ordered, Before
<1>2. i \in DOMAIN ledger /\ ledger'[i] = ledger[i] BY <1>1
<1>3. CASE j \in DOMAIN ledger
  <2>1. ledger'[j] = ledger[j] BY <1>3
  <2> QED BY <1>1, <1>2, <1>3, <2>1 DEF Ordered
<1>4. CASE j \notin DOMAIN ledger
  <2>1. ledger'[j] = r BY <1>4
  <2> QED BY <1>2, <2>1
<1> QED BY <1>3, <1>4

\* The rows of a ledger that grew by one.
LEMMA AppendCases ==
  ASSUME ledger \in Seq(RowType), NEW r \in RowType, ledger' = Append(ledger, r),
         NEW i \in DOMAIN ledger'
  PROVE  \/ i \in DOMAIN ledger /\ ledger'[i] = ledger[i]
         \/ ledger'[i] = r
OBVIOUS

\* A fiber that has its turn has the least ticket of the live ones.
LEMMA LeastTicket ==
  ASSUME TurnInv, NEW f \in Live, HasTurn(f), NEW g \in Live, f # g
  PROVE  mine[f] < mine[g]
<1>1. f \in Fibers /\ g \in Fibers BY DEF Live
<1>2. mine[f] \in Nat /\ mine[g] \in Nat /\ mine[f] > 0 /\ mine[g] \notin released
  BY <1>1 DEF TurnInv, TypeOK, Shape, FiberShape
<1>3. mine[f] # mine[g] BY DEF TurnInv, Distinct
<1>4. ~(mine[g] < mine[f])
  <2>1. SUFFICES ASSUME mine[g] < mine[f] PROVE FALSE OBVIOUS
  <2>2. mine[g] \in 0 .. mine[f] - 1 BY <1>2, <2>1
  <2> QED BY <1>2, <2>2 DEF HasTurn, Previous, TurnInv, Prefix
<1> QED BY <1>2, <1>3, <1>4

\* It is the first of the queue.
LEMMA FirstInQueue ==
  ASSUME TurnInv, OrderInv, NEW f \in Live, HasTurn(f), NEW g \in Live, f # g
  PROVE  Ahead(f, g)
BY LeastTicket DEF OrderInv, InOrder

\* Nothing that is still to come is ahead of the segment of that fiber.
LEMMA RowIsFirst ==
  ASSUME TurnInv, OrderInv, NEW f \in Live, HasTurn(f), NEW g \in Live
  PROVE  Before(NextRow(f), NextRow(g))
<1>1. f \in Fibers /\ g \in Fibers BY DEF Live
<1>2. batchOf[f] = batch /\ batchOf[g] = batch BY <1>1 DEF OrderInv, Together
<1>3. Coming(f) \in Nat /\ Coming(g) \in Nat BY <1>1 DEF TurnInv, TypeOK, Coming
<1>4. batch \in Nat /\ f \in Nat /\ g \in Nat BY <1>1 DEF TurnInv, TypeOK, Fibers
<1>5. CASE f = g BY <1>3, <1>4, <1>5 DEF Before, NextRow
<1>6. CASE f # g
  <2>1. Ahead(f, g) BY <1>6, FirstInQueue
  <2> QED BY <1>2, <1>3, <1>4, <2>1 DEF Before, NextRow, Ahead
<1> QED BY <1>5, <1>6

-----------------------------------------------------------------------------
(* Type correctness.                                                       *)

LEMMA InitType == Init => TypeOK
<1>1. << >> \in Seq(RowType) OBVIOUS
<1>2. 0 \in 0 .. 0 /\ {0} \subseteq 0 .. 0 /\ 0 \in 0 .. MaxFibers /\ 0 \in Nat
  BY SchedulerAssumption
<1>3. SUFFICES ASSUME Init PROVE TypeOK OBVIOUS
<1>4. /\ submitted \in 0 .. MaxFibers /\ started \in 0 .. submitted
      /\ batch \in Nat /\ draining \in BOOLEAN /\ stopped \in BOOLEAN /\ turnChain \in Nat
      /\ released \subseteq 0 .. turnChain /\ lost \subseteq 0 .. turnChain
  BY <1>2, <1>3 DEF Init
<1>5. /\ pc \in [Fibers -> States] /\ mine \in [Fibers -> 0 .. turnChain]
      /\ held \in [Fibers -> 0 .. turnChain] /\ seg \in [Fibers -> Nat]
  BY <1>2, <1>3 DEF Init, States
<1>6. /\ batchOf \in [Fibers -> 0 .. batch] /\ ledger \in Seq(RowType)
      /\ outcome \in [Fibers -> {"resolve", "reject", "throw", "fault"}]
  BY <1>1, <1>2, <1>3 DEF Init
<1> QED BY <1>4, <1>5, <1>6 DEF TypeOK

LEMMA NextType ==
  ASSUME TypeOK, [Next]_vars
  PROVE  TypeOK'
<1> USE SchedulerAssumption
<1>0. \A f \in Fibers : Row(f) \in RowType /\ ResumedRow(f) \in RowType
  BY RowTypes
<1>1. CASE TopLevel
  <2>1. ledger' \in Seq(RowType) BY <1>1, RowTypes DEF TopLevel, TypeOK
  <2>2. submitted' \in 0 .. MaxFibers /\ submitted <= submitted' BY <1>1 DEF TopLevel, TypeOK
  <2> QED BY <1>1, <2>1, <2>2 DEF TopLevel, TypeOK, turnVars, batchVars
<1>2. CASE StartBatch
  <2> DEFINE new == {f \in Fibers : f > started /\ f <= submitted}
  <2>1. submitted \in Nat /\ started \in Nat /\ started < submitted /\ submitted <= MaxFibers
    BY <1>2 DEF StartBatch, BatchDue, TypeOK
  <2>2. turnChain' \in Nat /\ turnChain <= turnChain' BY <1>2, <2>1 DEF StartBatch, TypeOK
  <2>3. mine' \in [Fibers -> 0 .. turnChain']
    <3>1. \A f \in new : turnChain + (f - started) \in 0 .. turnChain'
      BY <1>2, <2>1 DEF StartBatch, TypeOK, Fibers
    <3>2. \A f \in Fibers : mine[f] \in 0 .. turnChain' BY <2>2 DEF TypeOK
    <3>3. mine' = [f \in Fibers |-> IF f \in new THEN turnChain + (f - started) ELSE mine[f]]
      BY <1>2 DEF StartBatch
    <3> QED BY <3>1, <3>2, <3>3
  <2>4. pc' \in [Fibers -> States] BY <1>2 DEF StartBatch, TypeOK, States
  <2>5. batchOf' \in [Fibers -> 0 .. batch'] BY <1>2 DEF StartBatch, TypeOK
  <2>6. /\ held' \in [Fibers -> 0 .. turnChain'] /\ released' \subseteq 0 .. turnChain'
        /\ lost' \subseteq 0 .. turnChain'
    BY <1>2, <2>2 DEF StartBatch, TypeOK
  <2> QED BY <1>2, <2>1, <2>2, <2>3, <2>4, <2>5, <2>6 DEF StartBatch, TypeOK
<1>3. CASE DrainEnds BY <1>3 DEF DrainEnds, TypeOK, turnVars, batchVars
<1>4. CASE DrainRejects BY <1>4 DEF DrainRejects, TypeOK, turnVars, batchVars
<1>5. ASSUME NEW f \in Fibers, Step(f) PROVE TypeOK'
  <2>1. CASE Acquire(f) BY <1>0, <2>1 DEF Acquire, TypeOK, drainVars, batchVars, States
  <2>2. CASE Enqueue(f) BY <1>0, <2>2 DEF Enqueue, TypeOK, turnVars, batchVars
  <2>3. CASE Call(f)
    <3>1. turnChain' = turnChain + 1 BY <2>3 DEF Call, NextTicket
    <3>2. mine' \in [Fibers -> 0 .. turnChain'] BY <2>3, <3>1 DEF Call, NextTicket, TypeOK
    <3>3. held' \in [Fibers -> 0 .. turnChain'] BY <2>3, <3>1 DEF Call, TypeOK
    <3>4. released' \subseteq 0 .. turnChain' 
      <4>1. held[f] \in 0 .. turnChain /\ turnChain \in Nat BY DEF TypeOK
      <4>2. Yielded(f) \subseteq 0 .. turnChain BY <4>1 DEF Yielded
      <4>3. released' \subseteq 0 .. turnChain BY <2>3, <4>2 DEF Call, TypeOK
      <4>4. 0 .. turnChain \subseteq 0 .. turnChain' BY <3>1, <4>1
      <4> QED BY <4>3, <4>4
    <3>5. ledger' \in Seq(RowType) /\ lost' \subseteq 0 .. turnChain'
      BY <1>0, <2>3, <3>1 DEF Call, TypeOK
    <3>6. pc' \in [Fibers -> States] BY <2>3 DEF Call, TypeOK, States
    <3> QED BY <2>3, <3>1, <3>2, <3>3, <3>4, <3>5, <3>6 DEF Call, TypeOK, drainVars, batchVars
  <2>4. CASE Settle(f) BY <2>4 DEF Settle, TypeOK, turnVars, drainVars, batchVars, States
  <2>5. CASE Resume(f)
    <3>1. ledger' \in Seq(RowType)
      <4>1. ResumedRow(f) \in RowType BY <1>0
      <4>2. <<ResumedRow(f)>> \in Seq(RowType) /\ << >> \in Seq(RowType) BY <4>1
      <4>3. Applied(f) \subseteq Seq(RowType) BY <4>2 DEF Applied
      <4>4. \A s \in Seq(RowType) : ledger \o s \in Seq(RowType) BY DEF TypeOK
      <4> QED BY <2>5, <4>3, <4>4 DEF Resume
    <3>2. pc' \in [Fibers -> States]
      <4>1. AfterResult(f) \subseteq States BY DEF AfterResult, States
      <4> QED BY <2>5, <4>1 DEF Resume, TypeOK
    <3>3. held' \in [Fibers -> 0 .. turnChain'] BY <2>5 DEF Resume, TypeOK, HeldAfter
    <3>4. seg' \in [Fibers -> Nat] BY <2>5 DEF Resume, TypeOK
    <3>5. lost' \subseteq 0 .. turnChain'
      <4>1. mine[f] \in 0 .. turnChain BY DEF TypeOK
      <4>2. LostBy(f) \subseteq 0 .. turnChain BY <4>1 DEF LostBy
      <4> QED BY <2>5, <4>2 DEF Resume, TypeOK
    <3> QED BY <2>5, <3>1, <3>2, <3>3, <3>4, <3>5 DEF Resume, TypeOK, drainVars, batchVars
  <2>6. ASSUME NEW final \in {"ended", "faulted"}, Release(f, final),
               ledger' = ledger \/ ledger' = Append(ledger, Row(f))
        PROVE  TypeOK'
    <3>1. ledger \in Seq(RowType) /\ Row(f) \in RowType BY <1>0 DEF TypeOK
    <3>2. ledger' \in Seq(RowType) BY <2>6, <3>1
    <3>3. held[f] \in 0 .. turnChain BY DEF TypeOK
    <3>4. released' \subseteq 0 .. turnChain BY <2>6, <3>3 DEF Release, Yielded, TypeOK
    <3> QED BY <2>6, <3>2, <3>4 DEF Release, TypeOK, drainVars, batchVars, States
  <2>7. CASE Finish(f) BY <2>6, <2>7 DEF Finish
  <2>8. CASE Crash(f) BY <2>6, <2>8 DEF Crash
  <2>9. CASE Fault(f) BY <2>6, <2>9 DEF Fault
  <2> QED BY <1>5, <2>1, <2>2, <2>3, <2>4, <2>5, <2>7, <2>8, <2>9 DEF Step
<1>6. CASE UNCHANGED vars BY <1>6 DEF vars, TypeOK
<1>7. CASE Prompt BY <1>7 DEF Prompt, TypeOK, turnVars, batchVars
<1> QED BY <1>1, <1>2, <1>3, <1>4, <1>5, <1>6, <1>7 DEF Next

-----------------------------------------------------------------------------
(* The steps of a fiber.                                                   *)

\* A step of f leaves the other fibers and the drain alone.
LEMMA StepFrame ==
  ASSUME TypeOK, NEW f \in Fibers, Step(f)
  PROVE  /\ started' = started /\ batch' = batch /\ draining' = draining
         /\ batchOf' = batchOf
         /\ \A g \in Fibers : g # f =>
              /\ pc'[g] = pc[g] /\ mine'[g] = mine[g] /\ held'[g] = held[g]
              /\ seg'[g] = seg[g] /\ outcome'[g] = outcome[g]
<1> USE DEF TypeOK
<1>1. CASE Acquire(f) BY <1>1 DEF Acquire, drainVars, batchVars
<1>2. CASE Enqueue(f) BY <1>2 DEF Enqueue, turnVars, batchVars
<1>3. CASE Call(f) BY <1>3 DEF Call, drainVars, batchVars
<1>4. CASE Settle(f) BY <1>4 DEF Settle, turnVars, drainVars, batchVars
<1>5. CASE Resume(f) BY <1>5 DEF Resume, drainVars, batchVars
<1>6. ASSUME NEW final, Release(f, final)
      PROVE  /\ started' = started /\ batch' = batch /\ draining' = draining
             /\ batchOf' = batchOf
             /\ \A g \in Fibers : g # f =>
                  /\ pc'[g] = pc[g] /\ mine'[g] = mine[g] /\ held'[g] = held[g]
                  /\ seg'[g] = seg[g] /\ outcome'[g] = outcome[g]
  BY <1>6 DEF Release, drainVars, batchVars
<1>7. CASE Finish(f) BY <1>6, <1>7 DEF Finish
<1>8. CASE Crash(f) BY <1>6, <1>8 DEF Crash
<1>9. CASE Fault(f) BY <1>6, <1>9 DEF Fault
<1> QED BY <1>1, <1>2, <1>3, <1>4, <1>5, <1>7, <1>8, <1>9 DEF Step

\* What a step of f does to f itself: it runs in turn unless it only hears
\* from its provider, releases at most its own ticket, and moves to the end of
\* the chain when it calls.
LEMMA StepOwn ==
  ASSUME TurnInv, NEW f \in Fibers, Step(f)
  PROVE
    /\ f \in Live
    /\ pc'[f] \in States \ {"none"}
    /\ HasTurn(f) \/ (released' = released /\ ledger' = ledger /\ lost' = lost)
    /\ released' = released \/ released' = released \cup {mine[f]}
    /\ lost' = lost \/ (lost' = lost \cup {mine[f]} /\ released' = released)
    /\ f \in Live' =>
         \/ /\ Coming(f)' = Coming(f)
            /\ mine' = mine
            /\ turnChain' = turnChain
            /\ released' = released
         \/ /\ Coming(f)' = Coming(f) + 1
            /\ turnChain' = turnChain + 1
            /\ mine'[f] = turnChain + 1
            /\ HasTurn(f)
            /\ mine[f] \in released' \cup lost'
    /\ f \notin Live' => turnChain' = turnChain /\ mine[f] \in released' \cup lost'
    /\ ledger' = ledger \/ ledger' = Append(ledger, NextRow(f))
    /\ mine[f] \in lost => released' = released
    /\ FiberShape(f)'
<1>0. /\ TypeOK /\ FiberShape(f) /\ seg[f] \in Nat /\ turnChain \in Nat /\ mine[f] \in 0 .. turnChain
      /\ released \subseteq 0 .. turnChain /\ lost \subseteq 0 .. turnChain /\ Kept
  BY DEF TurnInv, Shape, TypeOK
<1> DEFINE Own ==
         /\ f \in Live
         /\ pc'[f] \in States \ {"none"}
         /\ HasTurn(f) \/ (released' = released /\ ledger' = ledger /\ lost' = lost)
         /\ released' = released \/ released' = released \cup {mine[f]}
         /\ lost' = lost \/ (lost' = lost \cup {mine[f]} /\ released' = released)
         /\ f \in Live' =>
              \/ /\ Coming(f)' = Coming(f)
                 /\ mine' = mine
                 /\ turnChain' = turnChain
                 /\ released' = released
              \/ /\ Coming(f)' = Coming(f) + 1
                 /\ turnChain' = turnChain + 1
                 /\ mine'[f] = turnChain + 1
                 /\ HasTurn(f)
                 /\ mine[f] \in released' \cup lost'
         /\ f \notin Live' => turnChain' = turnChain /\ mine[f] \in released' \cup lost'
         /\ ledger' = ledger \/ ledger' = Append(ledger, NextRow(f))
         /\ mine[f] \in lost => released' = released
         /\ FiberShape(f)'
<1> USE <1>0 DEF FiberShape, Live, HasTurn, Previous, TypeOK, Active, Waiting
<1>1. CASE Acquire(f)
  BY <1>1 DEF Acquire, drainVars, batchVars, States, NextRow, Row, Coming
<1>2. CASE Enqueue(f)
  BY <1>2 DEF Enqueue, turnVars, batchVars, States, NextRow, Row, Coming
<1>3. CASE Call(f)
  <2>1. Yielded(f) = IF mine[f] \in lost THEN {} ELSE {mine[f]} BY <1>3 DEF Call, Yielded
  <2>2. /\ turnChain' = turnChain + 1 /\ mine'[f] = turnChain + 1 /\ lost' = lost
        /\ released' = released \cup Yielded(f) /\ pc'[f] = "working" /\ held'[f] = 0
    BY <1>3 DEF Call, NextTicket
  <2>3. mine'[f] \notin released' /\ mine'[f] > 0 /\ mine'[f] \notin lost' BY <2>1, <2>2
  <2>4. seg' = seg /\ started' = started
    BY <1>3 DEF Call, drainVars, batchVars
  <2>5. pc[f] = "running" /\ ledger' = Append(ledger, Row(f)) BY <1>3 DEF Call
  <2>6. FiberShape(f)' BY <2>2, <2>3, <2>4, <2>5
  <2>7. mine[f] \in released' \cup lost' /\ (mine[f] \in lost => released' = released)
    BY <2>1, <2>2
  <2>8. released' = released \/ released' = released \cup {mine[f]} BY <2>1, <2>2
  <2> QED BY <2>2, <2>4, <2>5, <2>6, <2>7, <2>8 DEF States, NextRow, Row, Coming
<1>4. CASE Settle(f)
  BY <1>4 DEF Settle, turnVars, drainVars, batchVars, States, Coming
<1>5. CASE Resume(f)
  <2>1. outcome[f] \in {"resolve", "reject", "throw", "fault"} OBVIOUS
  <2>2. pc[f] = "settled" /\ HasTurn(f) /\ held[f] = 0 /\ mine[f] \notin lost
    BY <1>5 DEF Resume, MayApply
  <2>3. /\ seg'[f] = seg[f] + 1 /\ released' = released /\ mine' = mine
        /\ started' = started /\ turnChain' = turnChain /\ lost' = lost \cup LostBy(f)
    BY <1>5 DEF Resume, drainVars, batchVars
  <2>7. ResumedRow(f) = NextRow(f) BY <2>2 DEF NextRow, ResumedRow, Coming
  <2>8. ledger \o << >> = ledger /\ ledger \o <<NextRow(f)>> = Append(ledger, NextRow(f))
    BY <1>0, RowTypes
  <2>9. CASE outcome[f] # "throw"
    <3>1. pc'[f] \in {"running", "crashed", "faulting"} /\ held'[f] = mine[f] /\ lost' = lost
      BY <1>5, <2>3, <2>9 DEF Resume, HeldAfter, AfterResult, LostBy
    <3>2. ledger' = ledger \/ ledger' = Append(ledger, NextRow(f))
      BY <1>5, <2>9, <2>7, <2>8 DEF Resume, Applied
    <3> QED BY <2>2, <2>3, <3>1, <3>2 DEF States, Coming
  <2>6. CASE outcome[f] = "throw"
    <3>1. pc'[f] \in {"crashed", "running"} /\ held'[f] = 0 /\ lost' = lost \cup {mine[f]}
      BY <1>5, <2>2, <2>3, <2>6 DEF Resume, HeldAfter, AfterResult, LostBy
    <3>2. ledger' \in {ledger, Append(ledger, NextRow(f))}
      BY <1>5, <2>6, <2>7, <2>8 DEF Resume, Applied
    <3> QED BY <2>2, <2>3, <3>1, <3>2 DEF States, Coming
  <2> QED BY <2>6, <2>9
<1>6. ASSUME NEW final \in {"ended", "faulted"}, Active(f), Release(f, final),
             ledger' = ledger \/ ledger' = Append(ledger, Row(f))
      PROVE  Own
  <2>1. Yielded(f) = IF mine[f] \in lost THEN {} ELSE {mine[f]} BY <1>6 DEF Yielded
  <2>2. released' = released \cup Yielded(f) /\ lost' = lost /\ turnChain' = turnChain
    BY <1>6 DEF Release
  <2>3. pc'[f] \in {"ended", "faulted"} /\ held'[f] = 0 BY <1>6 DEF Release
  <2>4. seg' = seg /\ started' = started BY <1>6 DEF Release, drainVars, batchVars
  <2>5. ~(pc[f] \in {"working", "settled", "none"}) BY <1>6
  <2>6. NextRow(f) = Row(f) BY <2>5 DEF NextRow, Row, Coming
  <2>7. FiberShape(f)' BY <2>3, <2>4, <2>5
  <2> QED BY <1>6, <2>1, <2>2, <2>3, <2>5, <2>6, <2>7 DEF States
<1>7. CASE Finish(f) BY <1>6, <1>7 DEF Finish
<1>8. CASE Crash(f) BY <1>6, <1>8 DEF Crash
<1>9. CASE Fault(f) BY <1>6, <1>9 DEF Fault
<1> QED BY <1>1, <1>2, <1>3, <1>4, <1>5, <1>7, <1>8, <1>9 DEF Step

\* The released tickets stay an initial segment of the chain.
LEMMA StepPrefix ==
  ASSUME TurnInv, NEW f \in Fibers, Step(f)
  PROVE  Prefix'
<1>1. mine[f] \in Nat /\ Prefix BY DEF TurnInv, TypeOK
<1>2. \/ released' = released
      \/ HasTurn(f) /\ released' = released \cup {mine[f]}
  BY StepOwn
<1>3. CASE released' = released BY <1>1, <1>3 DEF Prefix
<1>4. CASE HasTurn(f) /\ released' = released \cup {mine[f]}
  <2>1. mine[f] - 1 \in released BY <1>4 DEF HasTurn, Previous
  <2>2. SUFFICES ASSUME NEW t \in released', NEW u \in 0 .. t PROVE u \in released'
    BY <1>1, <1>4 DEF Prefix
  <2>3. CASE t \in released BY <1>1, <1>4, <2>3 DEF Prefix
  <2>4. CASE t = mine[f]
    <3>1. u = mine[f] \/ u \in 0 .. mine[f] - 1 BY <1>1, <2>4
    <3> QED BY <1>1, <1>4, <2>1, <3>1 DEF Prefix
  <2> QED BY <1>4, <2>3, <2>4
<1> QED BY <1>2, <1>3, <1>4

\* A live fiber after the step was live before it.
LEMMA StepLive ==
  ASSUME TurnInv, NEW f \in Fibers, Step(f), NEW g \in Live'
  PROVE  g \in Live /\ g \in Fibers
<1>1. g \in Fibers BY DEF Live
<1>2. CASE g = f BY <1>1, <1>2, StepOwn
<1>3. CASE g # f
  <2>1. pc'[g] = pc[g] BY <1>1, <1>3, StepFrame DEF TurnInv
  <2> QED BY <1>1, <2>1 DEF Live
<1> QED BY <1>2, <1>3

LEMMA StepShape ==
  ASSUME TurnInv, NEW f \in Fibers, Step(f)
  PROVE  Shape'
<1>1. SUFFICES ASSUME NEW g \in Fibers PROVE FiberShape(g)'
  BY DEF Shape
<1>2. CASE g = f BY <1>2, StepOwn
<1>3. CASE g # f
  <2>1. /\ pc'[g] = pc[g] /\ mine'[g] = mine[g] /\ held'[g] = held[g]
        /\ seg'[g] = seg[g] /\ started' = started
    BY <1>3, StepFrame DEF TurnInv
  <2>2. released \subseteq released' /\ released' \subseteq released \cup {mine[f]} BY StepOwn
  <2>6. lost \subseteq lost' /\ lost' \subseteq lost \cup {mine[f]} BY StepOwn
  <2>3. g \in Live' <=> g \in Live BY <2>1 DEF Live
  <2>4. g \in Live => mine[g] # mine[f] BY <1>3, StepOwn DEF TurnInv, Distinct
  <2>5. FiberShape(g) BY DEF TurnInv, Shape
  <2>7. Active(g) \/ Waiting(g) => g \in Live BY DEF Active, Waiting, Live
  <2>8. Active(g)' = Active(g) /\ Waiting(g)' = Waiting(g) BY <2>1 DEF Active, Waiting
  <2>9. HasTurn(g) => HasTurn(g)' BY <2>1, <2>2 DEF HasTurn, Previous
  <2>10. g \in Live => (mine[g] \in lost' <=> mine[g] \in lost)
    BY <2>4, <2>6
  <2> QED BY <2>1, <2>2, <2>3, <2>4, <2>5, <2>7, <2>8, <2>9, <2>10 DEF FiberShape
<1> QED BY <1>2, <1>3

\* Fibers keep different tickets: a new one is past the end of the chain.
LEMMA StepDistinct ==
  ASSUME TurnInv, NEW f \in Fibers, Step(f)
  PROVE  Distinct'
<1>0. \A g \in Fibers : mine[g] \in 0 .. turnChain /\ turnChain \in Nat
  BY DEF TurnInv, TypeOK
<1>1. f \in Live BY StepOwn
<1>2. ASSUME NEW g \in Live', g # f
      PROVE  g \in Live /\ mine'[g] = mine[g] /\ mine[g] \in 0 .. turnChain
  <2>1. g \in Live /\ g \in Fibers BY StepLive
  <2> QED BY <1>0, <1>2, <2>1, StepFrame DEF TurnInv
<1>3. ASSUME NEW g \in Live', g # f, f \in Live' PROVE mine'[g] # mine'[f]
  <2>1. CASE mine' = mine BY <1>1, <1>2, <1>3, <2>1 DEF TurnInv, Distinct
  <2>2. CASE mine'[f] = turnChain + 1 BY <1>0, <1>2, <1>3, <2>2
  <2> QED BY <1>3, <2>1, <2>2, StepOwn
<1>4. ASSUME NEW g \in Live', NEW h \in Live', g # h, g # f, h # f PROVE mine'[g] # mine'[h]
  BY <1>2, <1>4 DEF TurnInv, Distinct
<1> QED BY <1>3, <1>4 DEF Distinct

\* A ticket that f leaves is released or lost, never both.
LEMMA StepCovers ==
  ASSUME TurnInv, NEW f \in Fibers, Step(f)
  PROVE  Covered' /\ Kept'
<1>0. f \in Live /\ turnChain \in Nat /\ released \subseteq released' /\ lost \subseteq lost'
  BY StepOwn DEF TurnInv, TypeOK
<1>1. ASSUME NEW g \in Live, g # f PROVE g \in Live' /\ mine'[g] = mine[g]
  BY <1>1, StepFrame DEF TurnInv, Live
<1>2. Kept'
  <2>1. mine[f] \notin released BY <1>0 DEF TurnInv, Shape, FiberShape
  <2>2. CASE lost' = lost
    BY <2>2, StepOwn DEF TurnInv, Kept
  <2>3. CASE lost' = lost \cup {mine[f]} /\ released' = released
    BY <2>1, <2>3 DEF TurnInv, Kept
  <2> QED BY <2>2, <2>3, StepOwn
<1>3. ASSUME NEW t \in 1 .. turnChain,
             mine[f] \in released' \cup lost' \/ (f \in Live' /\ mine'[f] = mine[f])
      PROVE  t \in released' \/ t \in lost' \/ \E g \in Live' : mine'[g] = t
  <2>1. t \in released \/ t \in lost \/ \E g \in Live : mine[g] = t BY DEF TurnInv, Covered
  <2>2. ASSUME NEW g \in Live, mine[g] = t
        PROVE  t \in released' \/ t \in lost' \/ \E h \in Live' : mine'[h] = t
    <3>1. CASE g = f BY <1>3, <2>2, <3>1
    <3>2. CASE g # f BY <1>1, <2>2, <3>2
    <3> QED BY <3>1, <3>2
  <2> QED BY <1>0, <2>1, <2>2
<1>4. CASE f \notin Live'
  <2>1. turnChain' = turnChain /\ mine[f] \in released' \cup lost' BY <1>4, StepOwn
  <2> QED BY <1>2, <1>3, <2>1 DEF Covered
<1>5. CASE f \in Live' /\ mine' = mine /\ turnChain' = turnChain
  BY <1>2, <1>3, <1>5 DEF Covered
<1>6. CASE /\ f \in Live' /\ turnChain' = turnChain + 1 /\ mine'[f] = turnChain + 1
           /\ mine[f] \in released' \cup lost'
  <2>1. \A t \in 1 .. turnChain' : t \in 1 .. turnChain \/ t = mine'[f] BY <1>0, <1>6
  <2> QED BY <1>2, <1>3, <1>6, <2>1 DEF Covered
<1> QED BY <1>4, <1>5, <1>6, StepOwn

LEMMA StepTurns ==
  ASSUME TurnInv, NEW f \in Fibers, Step(f)
  PROVE  TurnInv'
<1>1. TypeOK' BY NextType DEF TurnInv, Next
<1> QED BY <1>1, StepPrefix, StepShape, StepDistinct, StepCovers DEF TurnInv

LEMMA StepInOrder ==
  ASSUME TurnInv, OrderInv, NEW f \in Fibers, Step(f)
  PROVE  InOrder'
<1>0. \A g \in Fibers : /\ mine[g] \in 0 .. turnChain /\ turnChain \in Nat
                        /\ Coming(g) \in Nat /\ g \in Nat
  BY DEF TurnInv, TypeOK, Coming, Fibers
<1>1. f \in Live BY StepOwn
<1>2. ASSUME NEW g \in Live', g # f
      PROVE  g \in Live /\ mine'[g] = mine[g] /\ Coming(g)' = Coming(g)
  <2>1. g \in Live /\ g \in Fibers BY StepLive
  <2>2. pc'[g] = pc[g] /\ mine'[g] = mine[g] /\ seg'[g] = seg[g]
    BY <1>2, <2>1, StepFrame DEF TurnInv
  <2> QED BY <2>1, <2>2 DEF Coming
<1>3. ASSUME NEW g \in Live', NEW h \in Live', g # h, g # f, h # f
      PROVE  mine'[g] < mine'[h] => Ahead(g, h)'
  <2>1. /\ g \in Live /\ mine'[g] = mine[g] /\ Coming(g)' = Coming(g)
        /\ h \in Live /\ mine'[h] = mine[h] /\ Coming(h)' = Coming(h)
    BY <1>2, <1>3
  <2> QED BY <1>3, <2>1 DEF OrderInv, InOrder, Ahead
<1>4. ASSUME NEW g \in Live', g # f, f \in Live'
      PROVE  /\ mine'[g] < mine'[f] => Ahead(g, f)'
             /\ mine'[f] < mine'[g] => Ahead(f, g)'
  <2>1. g \in Live /\ mine'[g] = mine[g] /\ Coming(g)' = Coming(g) /\ g \in Fibers
    BY <1>2, <1>4 DEF Live
  <2>2. CASE Coming(f)' = Coming(f) /\ mine' = mine
    BY <1>1, <1>4, <2>1, <2>2 DEF OrderInv, InOrder, Ahead
  <2>3. CASE Coming(f)' = Coming(f) + 1 /\ mine'[f] = turnChain + 1 /\ HasTurn(f)
    <3>1. Ahead(f, g) BY <1>1, <1>4, <2>1, <2>3, FirstInQueue
    <3>2. mine'[g] < mine'[f] BY <1>0, <2>1, <2>3
    <3>3. Ahead(g, f)' BY <1>0, <2>1, <2>3, <3>1 DEF Ahead
    <3> QED BY <1>0, <2>1, <2>3, <3>2, <3>3
  <2> QED BY <1>4, <2>2, <2>3, StepOwn
<1>5. SUFFICES ASSUME NEW g \in Live', NEW h \in Live', g # h
               PROVE  mine'[g] < mine'[h] => Ahead(g, h)'
  BY DEF InOrder
<1> QED BY <1>3, <1>4, <1>5

LEMMA StepLedger ==
  ASSUME TurnInv, OrderInv, NEW f \in Fibers, Step(f)
  PROVE  LedgerShape' /\ LedgerBehind' /\ Ordered'
<1>0. /\ ledger \in Seq(RowType) /\ NextRow(f) \in RowType /\ batch \in Nat
      /\ \A g \in Fibers : batchOf[g] \in Nat /\ Coming(g) \in Nat /\ g \in Nat
  BY RowTypes DEF TurnInv, TypeOK, Coming, Fibers
<1>1. f \in Live /\ draining /\ draining' = draining /\ batch' = batch
  BY StepOwn, StepFrame DEF TurnInv, OrderInv, Idle
<1>2. batchOf[f] = batch BY <1>1 DEF OrderInv, Together
<1>3. \A i \in DOMAIN ledger : Before(ledger[i], NextRow(f)) BY <1>1 DEF OrderInv, LedgerBehind
<1>4. ASSUME NEW r \in RowType, NEW g \in Live', Before(r, NextRow(g))
      PROVE  Before(r, NextRow(g))'
  <2>1. g \in Live /\ g \in Fibers BY StepLive
  <2>2. batchOf' = batchOf BY StepFrame DEF TurnInv
  <2>3. Coming(g)' \in {Coming(g), Coming(g) + 1}
    <3>1. CASE g = f BY <1>4, <3>1, StepOwn
    <3>2. CASE g # f
      <4>1. pc'[g] = pc[g] /\ seg'[g] = seg[g] BY <2>1, <3>2, StepFrame DEF TurnInv
      <4> QED BY <4>1 DEF Coming
    <3> QED BY <3>1, <3>2
  <2>4. r.batch \in Nat /\ r.seg \in Nat /\ r.fiber \in Nat BY DEF RowType
  <2> QED BY <1>0, <1>4, <2>1, <2>2, <2>3, <2>4 DEF Before, NextRow
<1>5. CASE ledger' = ledger
  <2>1. LedgerShape' BY <1>1, <1>5 DEF OrderInv, LedgerShape, RowShape, TopRow
  <2>2. Ordered' BY <1>5 DEF OrderInv, Ordered, Before
  <2>3. ASSUME NEW i \in DOMAIN ledger, NEW g \in Live'
        PROVE  Before(ledger'[i], NextRow(g)')
    <3>1. g \in Live /\ ledger[i] \in RowType BY <1>0, StepLive
    <3>2. Before(ledger[i], NextRow(g)) BY <3>1 DEF OrderInv, LedgerBehind
    <3>3. Before(ledger[i], NextRow(g)') BY <1>4, <3>1, <3>2 DEF Before
    <3> QED BY <1>5, <3>3
  <2> QED BY <1>5, <2>1, <2>2, <2>3 DEF LedgerBehind, Before
<1>6. CASE ledger' = Append(ledger, NextRow(f)) /\ HasTurn(f)
  <2>1. Ordered' BY <1>0, <1>3, <1>6, AppendOrder DEF OrderInv
  <2> DEFINE Shaped(r) == r.batch <= batch' \/ (~draining' /\ r = TopRow')
  <2>2. ASSUME NEW i \in DOMAIN ledger'
        PROVE  Shaped(ledger'[i])
    <3>1. CASE i \in DOMAIN ledger /\ ledger'[i] = ledger[i]
      BY <1>1, <3>1 DEF OrderInv, LedgerShape, RowShape, TopRow
    <3>2. CASE ledger'[i] = NextRow(f)
      BY <1>0, <1>1, <1>2, <3>2 DEF RowShape, NextRow
    <3> QED BY <1>0, <1>6, <3>1, <3>2, AppendCases
  <2>3. ASSUME NEW i \in DOMAIN ledger', NEW g \in Live'
        PROVE  Before(ledger'[i], NextRow(g)')
    <3>1. g \in Live BY StepLive
    <3>2. CASE i \in DOMAIN ledger /\ ledger'[i] = ledger[i]
      <4>1. ledger[i] \in RowType BY <1>0, <3>2
      <4>2. Before(ledger[i], NextRow(g)) BY <3>1, <3>2 DEF OrderInv, LedgerBehind
      <4>3. Before(ledger[i], NextRow(g)') BY <1>4, <4>1, <4>2 DEF Before
      <4> QED BY <3>2, <4>3
    <3>3. CASE ledger'[i] = NextRow(f)
      <4>1. Before(NextRow(f), NextRow(g)) BY <1>1, <1>6, <3>1, RowIsFirst
      <4> DEFINE r == NextRow(f)
      <4>2. r \in RowType /\ Before(r, NextRow(g)) BY <1>0, <4>1
      <4> HIDE DEF r
      <4>3. PICK k \in RowType : k = r BY <4>2
      <4>4. Before(k, NextRow(g)') BY <1>4, <4>2, <4>3 DEF Before
      <4>5. k = ledger'[i] BY <3>3, <4>3 DEF r
      <4> QED BY <4>4, <4>5
    <3> QED BY <1>0, <1>6, <3>2, <3>3, AppendCases
  <2>4. LedgerShape' BY <2>2 DEF LedgerShape, RowShape
  <2>5. LedgerBehind' BY <2>3 DEF LedgerBehind, Before
  <2> QED BY <2>1, <2>4, <2>5
<1> QED BY <1>5, <1>6, StepOwn

LEMMA StepOrder ==
  ASSUME TurnInv, OrderInv, NEW f \in Fibers, Step(f)
  PROVE  OrderInv'
<1>1. Idle' BY StepOwn, StepFrame DEF TurnInv, OrderInv, Idle
<1>2. Together'
  <2>1. \A g \in Live' : g \in Live BY StepLive
  <2>2. batchOf' = batchOf /\ batch' = batch BY StepFrame DEF TurnInv
  <2> QED BY <2>1, <2>2 DEF OrderInv, Together
<1> QED BY <1>1, <1>2, StepInOrder, StepLedger DEF OrderInv

\* A delivery that has failed stays so.
LEMMA StaysBroken ==
  ASSUME TurnInv, [Next]_vars, Broken
  PROVE  Broken'
<1>1. PICK f \in Fibers : pc[f] = "faulted" BY DEF Broken
<1>2. f <= started /\ f \in Nat /\ started \in Nat /\ submitted \in Nat
  BY <1>1 DEF TurnInv, TypeOK, Shape, FiberShape, Fibers
<1>3. ASSUME NEW g \in Fibers, Step(g) PROVE pc'[f] = pc[f]
  <2>1. f # g BY <1>1, <1>3, StepOwn DEF Live
  <2> QED BY <1>3, <2>1, StepFrame DEF TurnInv
<1>4. CASE StartBatch
  <2>1. ~(f > started) BY <1>2
  <2> QED BY <1>1, <1>4, <2>1 DEF StartBatch, Broken
<1>5. CASE pc' = pc BY <1>1, <1>5 DEF Broken
<1>6. TopLevel \/ DrainEnds \/ DrainRejects \/ Prompt \/ UNCHANGED vars => pc' = pc
  BY DEF TopLevel, DrainEnds, DrainRejects, Prompt, vars
<1> QED BY <1>1, <1>3, <1>4, <1>5, <1>6 DEF Next, Broken

-----------------------------------------------------------------------------
(* The steps of the top level and of the drain.                            *)

\* The tickets depend only on these variables.
LEMMA TurnsFrame ==
  ASSUME TurnInv, TypeOK', started' = started,
         UNCHANGED <<turnVars, pc, seg>>
  PROVE  TurnInv'
BY DEF turnVars, TurnInv, Shape, FiberShape, HasTurn, Previous, Prefix, Distinct, Covered,
       Kept, Live, Active, Waiting

LEMMA TopLevelOrder ==
  ASSUME TurnInv, OrderInv, TopLevel
  PROVE  OrderInv'
<1>2. /\ Live = {} /\ ~draining /\ Live' = Live /\ batch' = batch /\ draining' = draining
      /\ ledger \in Seq(RowType) /\ batch \in Nat /\ ledger' = Append(ledger, TopRow)
      /\ TopRow \in RowType
  BY RowTypes DEF TopLevel, TurnInv, OrderInv, Idle, TypeOK, Live, batchVars
<1>3. Together' /\ InOrder' /\ Idle' /\ LedgerBehind'
  BY <1>2 DEF Together, InOrder, Idle, LedgerBehind
<1>4. ASSUME NEW i \in DOMAIN ledger PROVE Before(ledger[i], TopRow)
  <2>1. RowShape(ledger[i]) /\ ledger[i] \in RowType BY <1>2 DEF OrderInv, LedgerShape
  <2> QED BY <1>2, <2>1 DEF RowShape, Before, TopRow, RowType
<1>5. Ordered' BY <1>2, <1>4, AppendOrder DEF OrderInv
<1> DEFINE Shaped(r) == r.batch <= batch' \/ (~draining' /\ r = TopRow')
<1>6. ASSUME NEW i \in DOMAIN ledger' PROVE Shaped(ledger'[i])
  <2>1. CASE i \in DOMAIN ledger /\ ledger'[i] = ledger[i]
    BY <1>2, <2>1 DEF OrderInv, LedgerShape, RowShape, TopRow
  <2>2. CASE ledger'[i] = TopRow BY <1>2, <2>2 DEF RowShape, TopRow
  <2> QED BY <1>2, <2>1, <2>2, AppendCases
<1>7. LedgerShape' BY <1>6 DEF LedgerShape, RowShape
<1> QED BY <1>3, <1>5, <1>7 DEF OrderInv

LEMMA StartBatchSets ==
  ASSUME TurnInv, StartBatch
  PROVE  /\ released' = released /\ held' = held /\ seg' = seg /\ lost' = lost
         /\ ledger' = ledger /\ started' = submitted /\ batch' = batch + 1 /\ draining'
         /\ started \in Nat /\ submitted \in Nat /\ submitted <= MaxFibers /\ started < submitted
         /\ turnChain \in Nat /\ turnChain' = turnChain + (submitted - started)
         /\ \A f \in Fibers :
              IF f > started /\ f <= submitted
              THEN /\ pc[f] = "none" /\ pc'[f] = "queued" /\ f \notin Live /\ f \in Live'
                   /\ mine'[f] = turnChain + (f - started) /\ batchOf'[f] = batch + 1
              ELSE /\ pc'[f] = pc[f] /\ mine'[f] = mine[f] /\ batchOf'[f] = batchOf[f]
                   /\ f \in Live' <=> f \in Live
<1>1. /\ released' = released /\ held' = held /\ seg' = seg /\ lost' = lost
      /\ ledger' = ledger /\ started' = submitted /\ batch' = batch + 1 /\ draining'
      /\ turnChain' = turnChain + (submitted - started)
  BY DEF StartBatch
<1>2. /\ started \in Nat /\ submitted \in Nat /\ submitted <= MaxFibers /\ started < submitted
      /\ turnChain \in Nat
  BY SchedulerAssumption DEF StartBatch, BatchDue, TurnInv, TypeOK
<1>3. ASSUME NEW f \in Fibers
      PROVE  IF f > started /\ f <= submitted
             THEN /\ pc[f] = "none" /\ pc'[f] = "queued"
                  /\ mine'[f] = turnChain + (f - started) /\ batchOf'[f] = batch + 1
             ELSE pc'[f] = pc[f] /\ mine'[f] = mine[f] /\ batchOf'[f] = batchOf[f]
  <2>1. f > started => pc[f] = "none" BY DEF TurnInv, Shape, FiberShape
  <2> QED BY <2>1 DEF StartBatch
<1> QED BY <1>1, <1>2, <1>3 DEF Live

\* A batch takes the tickets that follow the last one.
LEMMA StartBatchTurns ==
  ASSUME TurnInv, StartBatch
  PROVE  TurnInv'
<1>1. TypeOK' BY NextType DEF TurnInv, Next
<1>2. /\ \A f \in Fibers : f \in Nat /\ mine[f] \in 0 .. turnChain
      /\ released \subseteq 0 .. turnChain /\ lost \subseteq 0 .. turnChain
  BY DEF TurnInv, TypeOK, Fibers
<1>3. ASSUME NEW f \in Fibers, f > started, f <= submitted
      PROVE  mine'[f] = turnChain + (f - started) /\ mine'[f] > turnChain /\ mine'[f] \in Nat
  BY <1>2, <1>3, StartBatchSets
<1>4. Shape'
  <2>1. SUFFICES ASSUME NEW f \in Fibers PROVE FiberShape(f)' BY DEF Shape
  <2>2. FiberShape(f) BY DEF TurnInv, Shape
  <2>3. CASE f > started /\ f <= submitted
    <3>1. mine'[f] \notin released' /\ mine'[f] \notin lost' /\ mine'[f] > 0
      BY <1>2, <1>3, <2>3, StartBatchSets
    <3>2. pc[f] = "none" /\ pc'[f] = "queued" /\ ~(f > started') /\ held[f] = 0 /\ held'[f] = 0
      BY <1>2, <2>2, <2>3, StartBatchSets DEF FiberShape, Active
    <3> QED BY <3>1, <3>2 DEF FiberShape, Active, Waiting
  <2>4. CASE ~(f > started /\ f <= submitted)
    <3>1. pc'[f] = pc[f] /\ mine'[f] = mine[f] /\ (f \in Live' <=> f \in Live)
      BY <2>4, StartBatchSets
    <3>2. f > started <=> f > started' BY <1>2, <2>4, StartBatchSets
    <3>3. released' = released /\ held' = held /\ seg' = seg /\ lost' = lost BY StartBatchSets
    <3> QED BY <2>2, <3>1, <3>2, <3>3 DEF FiberShape, HasTurn, Previous, Active, Waiting
  <2> QED BY <2>3, <2>4
<1>5. Distinct'
  <2>1. SUFFICES ASSUME NEW f \in Live', NEW g \in Live', f # g PROVE mine'[f] # mine'[g]
    BY DEF Distinct
  <2>2. f \in Fibers /\ g \in Fibers BY DEF Live
  <2> DEFINE fresh(h) == h > started /\ h <= submitted
  <2>3. CASE fresh(f) /\ fresh(g)
    BY <1>2, <1>3, <2>1, <2>2, <2>3, StartBatchSets
  <2>4. CASE fresh(f) /\ ~fresh(g)
    <3>1. mine'[g] = mine[g] BY <2>2, <2>4, StartBatchSets
    <3> QED BY <1>2, <1>3, <2>2, <2>4, <3>1, StartBatchSets
  <2>5. CASE ~fresh(f) /\ fresh(g)
    <3>1. mine'[f] = mine[f] BY <2>2, <2>5, StartBatchSets
    <3> QED BY <1>2, <1>3, <2>2, <2>5, <3>1, StartBatchSets
  <2>6. CASE ~fresh(f) /\ ~fresh(g)
    <3>1. f \in Live /\ g \in Live /\ mine'[f] = mine[f] /\ mine'[g] = mine[g]
      BY <2>1, <2>2, <2>6, StartBatchSets
    <3> QED BY <2>1, <3>1 DEF TurnInv, Distinct
  <2> QED BY <2>3, <2>4, <2>5, <2>6
<1>6. Covered'
  <2>1. SUFFICES ASSUME NEW t \in 1 .. turnChain'
                 PROVE  t \in released' \/ t \in lost' \/ \E f \in Live' : mine'[f] = t
    BY DEF Covered
  <2>2. CASE t <= turnChain
    <3>1. t \in 1 .. turnChain BY <2>2, StartBatchSets
    <3>2. ASSUME NEW f \in Live PROVE f \in Live' /\ mine'[f] = mine[f]
      <4>1. f \in Fibers BY DEF Live
      <4> QED BY <4>1, StartBatchSets
    <3> QED BY <3>1, <3>2, StartBatchSets DEF TurnInv, Covered
  <2>3. CASE ~(t <= turnChain)
    <3> DEFINE f == t - turnChain + started
    <3>1. f \in Fibers /\ f > started /\ f <= submitted
      BY <2>3, StartBatchSets, SchedulerAssumption DEF Fibers
    <3>2. mine'[f] = turnChain + (f - started) /\ f \in Live' BY <3>1, StartBatchSets
    <3>3. mine'[f] = t BY <3>2, StartBatchSets
    <3> QED BY <3>2, <3>3
  <2> QED BY <2>2, <2>3
<1>7. Prefix' /\ Kept' BY StartBatchSets DEF TurnInv, Prefix, Kept
<1> QED BY <1>1, <1>4, <1>5, <1>6, <1>7 DEF TurnInv

\* When a batch is due no fiber is live, unless a drain has rejected.
LEMMA BatchDoneEndsAll ==
  ASSUME TurnInv, OrderInv, draining => BatchDone
  PROVE  Live = {}
<1>1. SUFFICES ASSUME NEW f \in Live PROVE FALSE OBVIOUS
<1>2. f \in Fibers /\ batchOf[f] = batch /\ draining BY DEF Live, OrderInv, Together, Idle
<1>3. f \in Nat /\ started \in Nat /\ ~(f > started)
  BY <1>2 DEF TurnInv, TypeOK, Shape, FiberShape, Live, Fibers
<1>4. pc[f] = "ended" BY <1>2, <1>3 DEF BatchDone
<1> QED BY <1>4 DEF Live

LEMMA StartBatchOrder ==
  ASSUME TurnInv, OrderInv, StartBatch
  PROVE  OrderInv'
<1> DEFINE new == {f \in Fibers : f > started /\ f <= submitted}
<1>0. /\ started \in Nat /\ submitted \in Nat /\ turnChain \in Nat /\ batch \in Nat
      /\ ledger \in Seq(RowType)
      /\ \A f \in Fibers : f \in Nat /\ seg[f] \in Nat
  BY DEF TurnInv, TypeOK, Fibers
<1>2. Live = {} BY BatchDoneEndsAll DEF StartBatch, BatchDue
<1>3. /\ seg' = seg /\ ledger' = ledger /\ batch' = batch + 1 /\ draining'
      /\ started < submitted
  BY StartBatchSets
<1>4. \A f \in new : /\ pc[f] = "none" /\ pc'[f] = "queued"
                     /\ mine'[f] = turnChain + (f - started) /\ batchOf'[f] = batch + 1
  BY StartBatchSets
<1>5. Live' = new
  <2>1. \A f \in Fibers : f \in Live' <=> f \in new BY <1>2, StartBatchSets
  <2> QED BY <2>1 DEF Live
<1>6. Together' BY <1>3, <1>4, <1>5 DEF Together
<1>7. InOrder'
  <2>1. ASSUME NEW f \in new PROVE Coming(f)' = 0 /\ mine'[f] = turnChain + (f - started)
    <3>1. pc[f] = "none" /\ seg[f] = 0 BY <1>4 DEF TurnInv, Shape, FiberShape
    <3> QED BY <1>3, <1>4, <3>1 DEF Coming
  <2>2. ASSUME NEW f \in new, NEW g \in new, f # g
        PROVE  mine'[f] < mine'[g] => Ahead(f, g)'
    BY <1>0, <2>1, <2>2 DEF Ahead
  <2> QED BY <1>5, <2>2 DEF InOrder
<1>8. Idle' /\ Ordered'
  BY <1>3 DEF OrderInv, Idle, Ordered, Before
<1>9. \A i \in DOMAIN ledger : ledger[i].batch \in Nat /\ ledger[i].batch <= batch + 1
                               /\ ledger[i].seg \in Nat /\ ledger[i].fiber \in Nat
                               /\ (ledger[i].batch = batch + 1 => ledger[i].seg = 0 /\ ledger[i].fiber = 0)
  <2>1. SUFFICES ASSUME NEW i \in DOMAIN ledger
                 PROVE  ledger[i].batch \in Nat /\ ledger[i].batch <= batch + 1
                        /\ ledger[i].seg \in Nat /\ ledger[i].fiber \in Nat
                        /\ (ledger[i].batch = batch + 1 => ledger[i].seg = 0 /\ ledger[i].fiber = 0)
    OBVIOUS
  <2>2. ledger[i] \in RowType /\ RowShape(ledger[i]) BY <1>0 DEF OrderInv, LedgerShape
  <2> QED BY <1>0, <2>2 DEF RowType, RowShape, TopRow
<1>10. LedgerShape' BY <1>3, <1>9 DEF LedgerShape, RowShape
<1>11. LedgerBehind'
  <2>1. SUFFICES ASSUME NEW i \in DOMAIN ledger, NEW f \in new
                 PROVE  Before(ledger[i], NextRow(f)')
    BY <1>3, <1>5 DEF LedgerBehind, Before
  <2>2. NextRow(f)' = [batch |-> batch + 1, seg |-> Coming(f)', fiber |-> f]
    BY <1>4 DEF NextRow
  <2>3. Coming(f)' \in Nat /\ f \in Nat BY <1>0, <1>3 DEF Coming
  <2> QED BY <1>0, <1>9, <2>2, <2>3 DEF Before
<1> QED BY <1>6, <1>7, <1>8, <1>10, <1>11 DEF OrderInv

LEMMA DrainEndsOrder ==
  ASSUME TurnInv, OrderInv, DrainEnds
  PROVE  OrderInv'
<1>1. Live = {} /\ Live' = Live BY BatchDoneEndsAll DEF DrainEnds, Live
<1>2. /\ ledger' = ledger /\ batch' = batch /\ draining /\ batchOf' = batchOf
  BY DEF DrainEnds, batchVars
<1>3. LedgerShape' BY <1>2 DEF OrderInv, LedgerShape, RowShape
<1>4. Ordered' BY <1>2 DEF OrderInv, Ordered, Before
<1> QED BY <1>1, <1>3, <1>4 DEF OrderInv, Together, InOrder, Idle, LedgerBehind

LEMMA PromptOrder ==
  ASSUME OrderInv, Prompt \/ UNCHANGED vars
  PROVE  OrderInv'
BY DEF Prompt, vars, turnVars, batchVars, OrderInv, Together, InOrder, Ahead, Coming, Idle,
       LedgerShape, RowShape, TopRow, LedgerBehind, NextRow, Ordered, Before, Live

-----------------------------------------------------------------------------
(* The theorems.                                                           *)

\* Every variable keeps its type.
THEOREM TypeCorrect == Spec => []TypeOK
<1>1. Init => TypeOK BY InitType
<1>2. TypeOK /\ [Next]_vars => TypeOK' BY NextType
<1> QED BY <1>1, <1>2, PTL DEF Spec

LEMMA NextTurns ==
  ASSUME TurnInv, [Next]_vars
  PROVE  TurnInv'
<1>1. TypeOK' BY NextType DEF TurnInv
<1>2. CASE TopLevel BY <1>1, <1>2, TurnsFrame DEF TopLevel, batchVars
<1>3. CASE DrainEnds BY <1>1, <1>3, TurnsFrame DEF DrainEnds, batchVars
<1>4. CASE DrainRejects BY <1>1, <1>4, TurnsFrame DEF DrainRejects, batchVars
<1>5. CASE Prompt BY <1>1, <1>5, TurnsFrame DEF Prompt, batchVars
<1>6. CASE UNCHANGED vars BY <1>1, <1>6, TurnsFrame DEF vars, turnVars
<1> QED BY <1>2, <1>3, <1>4, <1>5, <1>6, StartBatchTurns, StepTurns DEF Next

LEMMA NextOrder ==
  ASSUME TurnInv, OrderInv, [Next]_vars
  PROVE  Broken' \/ OrderInv'
<1>1. CASE DrainRejects
  <2>1. Broken BY <1>1 DEF DrainRejects, Broken
  <2> QED BY <2>1, StaysBroken
<1> QED BY <1>1, TopLevelOrder, StartBatchOrder, DrainEndsOrder, PromptOrder, StepOrder DEF Next

LEMMA InitInv ==
  ASSUME Init
  PROVE  IInv
<1>1. Live = {} /\ ledger = << >> /\ lost = {} BY DEF Init, Live
<1>2. Shape BY <1>1 DEF Init, Shape, FiberShape, Fibers, Active, Waiting
<1>3. TurnInv BY <1>1, <1>2, InitType DEF Init, TurnInv, Prefix, Distinct, Covered, Kept
<1>4. OrderInv
  BY <1>1 DEF OrderInv, Together, InOrder, Idle, LedgerShape, LedgerBehind, Ordered
<1> QED BY <1>3, <1>4 DEF IInv

LEMMA NextInv ==
  ASSUME IInv, [Next]_vars
  PROVE  IInv'
BY NextTurns, NextOrder, StaysBroken DEF IInv

\* The relation between tickets, segments and rows is inductive.
THEOREM Invariance == Spec => []IInv
<1>1. Init => IInv BY InitInv
<1>2. IInv /\ [Next]_vars => IInv' BY NextInv
<1> QED BY <1>1, <1>2, PTL DEF Spec

\* At most one delivery is between two waits at a time, so that what a
\* handler appends there is not mixed with the rows of another.
THEOREM TakesTurns == Spec => []OneAtATime
<1>1. IInv => OneAtATime
  <2>1. SUFFICES ASSUME IInv, NEW f \in Fibers, NEW g \in Fibers, Active(f), Active(g), f # g
                 PROVE  FALSE
    BY DEF OneAtATime
  <2>2. f \in Live /\ g \in Live /\ HasTurn(f) /\ HasTurn(g)
    BY <2>1 DEF Active, Live, IInv, TurnInv, Shape, FiberShape
  <2>3. mine[f] < mine[g] /\ mine[g] < mine[f] BY <2>1, <2>2, LeastTicket DEF IInv
  <2>4. mine[f] \in Nat /\ mine[g] \in Nat BY <2>1 DEF TypeOK, IInv, TurnInv
  <2> QED BY <2>3, <2>4
<1> QED BY <1>1, Invariance, PTL

\* The ledger is in issue order whatever the order in which calls resolve,
\* until a delivery fails with an error that nothing contains.
THEOREM OrderIsIssueOrder == Spec => []IssueOrder
<1>1. IInv => IssueOrder BY DEF IInv, OrderInv, IssueOrder
<1> QED BY <1>1, Invariance, PTL

\* A ticket that is not released belongs to a live delivery, or an apply has
\* thrown on it; such a ticket stays unreleased and nobody acts behind it.
THEOREM NoTurnIsLost == Spec => []NoOrphanTurn
<1>1. IInv => NoOrphanTurn
  <2>1. SUFFICES ASSUME IInv, NEW t \in lost, NEW f \in Fibers, Active(f)
                 PROVE  mine[f] <= t
    BY DEF IInv, TurnInv, Covered, Kept, NoOrphanTurn
  <2>2. HasTurn(f) /\ mine[f] \in Nat /\ t \in Nat /\ t \notin released
    BY <2>1 DEF IInv, TurnInv, TypeOK, Shape, FiberShape, Kept
  <2>3. ~(t < mine[f])
    <3>1. SUFFICES ASSUME t < mine[f] PROVE FALSE OBVIOUS
    <3>2. t \in 0 .. mine[f] - 1 BY <2>2, <3>1
    <3> QED BY <2>1, <2>2, <3>2 DEF HasTurn, Previous, IInv, TurnInv, Prefix
  <2> QED BY <2>2, <2>3
<1> QED BY <1>1, Invariance, PTL

\* The three together, whatever the calls do.
THEOREM TakesTurnsInOrder == Spec => []TurnsInOrder
<1>1. OneAtATime /\ IssueOrder /\ NoOrphanTurn => TurnsInOrder BY DEF TurnsInOrder
<1> QED BY <1>1, TakesTurns, OrderIsIssueOrder, NoTurnIsLost, PTL

-----------------------------------------------------------------------------
(* The tickets implement the queue of TurnQueue: the live deliveries in the *)
(* order of their tickets are its queue, until an error is not contained.   *)

\* q lists the members of S in the order of m.
Lists(q, S, m) ==
  /\ q \in Seq(Fibers)
  /\ \A i \in 1 .. Len(q) : q[i] \in S
  /\ \A f \in S : \E i \in 1 .. Len(q) : q[i] = f
  /\ \A i, j \in 1 .. Len(q) : i < j => m[q[i]] < m[q[j]]

LEMMA ListCount ==
  ASSUME NEW q \in Seq(Fibers), NEW k \in Nat, k <= Len(q),
         \A i, j \in 1 .. Len(q) : q[i] = q[j] => i = j
  PROVE  Cardinality({q[j] : j \in 1 .. k}) = k
<1> DEFINE b == [j \in 1 .. k |-> q[j]]
<1>1. 1 .. k \subseteq 1 .. Len(q) OBVIOUS
<1>2. PICK S : S = {q[j] : j \in 1 .. k} OBVIOUS
<1>3. b \in [1 .. k -> S] BY <1>2
<1>4. ASSUME NEW i \in 1 .. k, NEW j \in 1 .. k, b[i] = b[j] PROVE i = j
  <2>1. i \in 1 .. Len(q) /\ j \in 1 .. Len(q) BY <1>1
  <2>2. q[i] = q[j] BY <1>4
  <2> QED BY <2>1, <2>2
<1>5. \A f \in S : \E i \in 1 .. k : b[i] = f BY <1>2
<1> HIDE DEF b
<1>6. b \in Injection(1 .. k, S) BY <1>3, <1>4 DEF Injection, IsInjective
<1>7. b \in Surjection(1 .. k, S) BY <1>3, <1>5 DEF Surjection
<1>8. ExistsBijection(1 .. k, S) BY <1>6, <1>7 DEF ExistsBijection, Bijection
<1> QED BY <1>2, <1>8, FS_CountingElements

\* There is one such list: a member is found by counting those before it.
LEMMA OneList ==
  ASSUME NEW S \in SUBSET Fibers, NEW m \in [Fibers -> Nat], NEW q, Lists(q, S, m)
  PROVE  q = [i \in 1 .. Cardinality(S) |->
                CHOOSE f \in S : Cardinality({g \in S : m[g] < m[f]}) = i - 1]
<1> DEFINE Before_(f) == {g \in S : m[g] < m[f]}
<1>1. /\ q \in Seq(Fibers) /\ Len(q) \in Nat
      /\ \A i \in 1 .. Len(q) : q[i] \in S
      /\ \A f \in S : \E i \in 1 .. Len(q) : q[i] = f
      /\ \A i, j \in 1 .. Len(q) : i < j => m[q[i]] < m[q[j]]
  BY DEF Lists
<1>2. \A i \in 1 .. Len(q) : m[q[i]] \in Nat BY <1>1
<1>3. \A i, j \in 1 .. Len(q) : m[q[i]] < m[q[j]] <=> i < j
  <2>1. SUFFICES ASSUME NEW i \in 1 .. Len(q), NEW j \in 1 .. Len(q)
                 PROVE  m[q[i]] < m[q[j]] <=> i < j
    OBVIOUS
  <2>2. i < j \/ j < i \/ i = j OBVIOUS
  <2> QED BY <1>1, <1>2, <2>2
<1>4. \A i, j \in 1 .. Len(q) : q[i] = q[j] => i = j
  <2>1. SUFFICES ASSUME NEW i \in 1 .. Len(q), NEW j \in 1 .. Len(q), q[i] = q[j]
                 PROVE  i = j
    OBVIOUS
  <2>2. i < j \/ j < i \/ i = j OBVIOUS
  <2> QED BY <1>2, <1>3, <2>1, <2>2
<1>5. Cardinality(S) = Len(q)
  <2>1. S = {q[j] : j \in 1 .. Len(q)} BY <1>1
  <2>2. Len(q) <= Len(q) BY <1>1
  <2>3. Cardinality({q[j] : j \in 1 .. Len(q)}) = Len(q) BY <1>1, <1>4, <2>2, ListCount
  <2> QED BY <2>1, <2>3
<1>6. ASSUME NEW i \in 1 .. Len(q) PROVE Cardinality(Before_(q[i])) = i - 1
  <2>1. Before_(q[i]) = {q[j] : j \in 1 .. i - 1}
    <3>1. \A j \in 1 .. i - 1 : j \in 1 .. Len(q) /\ j < i BY <1>1
    <3>2. \A j \in 1 .. Len(q) : j < i => j \in 1 .. i - 1 OBVIOUS
    <3>3. ASSUME NEW g \in Before_(q[i]) PROVE g \in {q[j] : j \in 1 .. i - 1}
      <4>1. PICK j \in 1 .. Len(q) : q[j] = g BY <1>1
      <4>2. j < i BY <1>3, <4>1
      <4> QED BY <3>2, <4>1, <4>2
    <3>4. ASSUME NEW j \in 1 .. i - 1 PROVE q[j] \in Before_(q[i])
      <4>1. j \in 1 .. Len(q) /\ j < i BY <3>1
      <4> QED BY <1>1, <1>3, <4>1
    <3> QED BY <3>3, <3>4
  <2>2. i - 1 \in Nat /\ i - 1 <= Len(q) OBVIOUS
  <2> QED BY <1>1, <1>4, <2>1, <2>2, ListCount
<1>7. ASSUME NEW i \in 1 .. Len(q)
      PROVE  q[i] = CHOOSE f \in S : Cardinality(Before_(f)) = i - 1
  <2>1. \A f \in S : Cardinality(Before_(f)) = i - 1 <=> f = q[i]
    <3>1. SUFFICES ASSUME NEW f \in S PROVE Cardinality(Before_(f)) = i - 1 <=> f = q[i]
      OBVIOUS
    <3>2. PICK j \in 1 .. Len(q) : q[j] = f BY <1>1
    <3>3. Cardinality(Before_(f)) = j - 1 BY <1>6, <3>2
    <3>4. i - 1 = j - 1 <=> i = j OBVIOUS
    <3> HIDE DEF Before_
    <3> QED BY <1>4, <3>2, <3>3, <3>4
  <2>2. q[i] \in S BY <1>1
  <2> HIDE DEF Before_
  <2> QED BY <2>1, <2>2
<1> DEFINE r == [i \in 1 .. Len(q) |-> CHOOSE f \in S : Cardinality(Before_(f)) = i - 1]
<1>8. q = [i \in 1 .. Len(q) |-> q[i]] BY <1>1
<1>9. q = r
  <2> HIDE DEF Before_
  <2> QED BY <1>7, <1>8
<1> QED BY <1>5, <1>9

LEMMA TailLists ==
  ASSUME NEW S, NEW m, NEW q, Lists(q, S, m), q # << >>, m \in [Fibers -> Nat]
  PROVE  Lists(Tail(q), S \ {Head(q)}, m)
<1>1. /\ q \in Seq(Fibers) /\ Len(q) \in Nat /\ Len(q) > 0
      /\ \A i \in 1 .. Len(q) : q[i] \in S
      /\ \A f \in S : \E i \in 1 .. Len(q) : q[i] = f
      /\ \A i, j \in 1 .. Len(q) : i < j => m[q[i]] < m[q[j]]
  BY DEF Lists
<1>2. /\ Head(q) = q[1] /\ Tail(q) \in Seq(Fibers) /\ Len(Tail(q)) = Len(q) - 1
      /\ \A i \in 1 .. Len(q) - 1 : Tail(q)[i] = q[i + 1]
  BY <1>1
<1>3. \A i \in 1 .. Len(q) - 1 : i + 1 \in 1 .. Len(q) /\ 1 < i + 1 BY <1>1
<1>4. 1 \in 1 .. Len(q) /\ \A i \in 1 .. Len(q) : m[q[i]] \in Nat BY <1>1
<1>5. \A i \in 1 .. Len(q) - 1 : Tail(q)[i] \in S \ {Head(q)}
  <2>1. SUFFICES ASSUME NEW i \in 1 .. Len(q) - 1 PROVE q[i + 1] \in S /\ q[i + 1] # q[1]
    BY <1>2
  <2>2. q[i + 1] \in S /\ m[q[1]] < m[q[i + 1]] BY <1>1, <1>3, <1>4
  <2> QED BY <1>3, <1>4, <2>2
<1>6. \A f \in S \ {Head(q)} : \E i \in 1 .. Len(q) - 1 : Tail(q)[i] = f
  <2>1. SUFFICES ASSUME NEW f \in S, f # q[1] PROVE \E i \in 1 .. Len(q) - 1 : Tail(q)[i] = f
    BY <1>2
  <2>2. PICK i \in 1 .. Len(q) : q[i] = f BY <1>1
  <2>3. i # 1 BY <2>1, <2>2
  <2>4. i - 1 \in 1 .. Len(q) - 1 /\ i - 1 + 1 = i BY <1>1, <2>3
  <2>5. Tail(q)[i - 1] = q[i] BY <1>2, <2>4
  <2> QED BY <2>2, <2>4, <2>5
<1>7. \A i, j \in 1 .. Len(q) - 1 : i < j => m[Tail(q)[i]] < m[Tail(q)[j]]
  <2>1. SUFFICES ASSUME NEW i \in 1 .. Len(q) - 1, NEW j \in 1 .. Len(q) - 1, i < j
                 PROVE  m[q[i + 1]] < m[q[j + 1]]
    BY <1>2
  <2>2. i + 1 \in 1 .. Len(q) /\ j + 1 \in 1 .. Len(q) /\ i + 1 < j + 1 BY <1>3, <2>1
  <2> QED BY <1>1, <2>2
<1> QED BY <1>2, <1>5, <1>6, <1>7 DEF Lists

\* A member whose number is raised above all others comes last.
LEMMA LastLists ==
  ASSUME NEW S, NEW m, NEW k, NEW q, NEW f \in Fibers, Lists(q, S \ {f}, m), f \in S,
         m \in [Fibers -> Nat], k \in [Fibers -> Nat],
         \A g \in S \ {f} : k[g] = m[g] /\ k[g] < k[f]
  PROVE  Lists(Append(q, f), S, k)
<1> DEFINE r == Append(q, f)
<1>1. /\ q \in Seq(Fibers) /\ Len(q) \in Nat
      /\ \A i \in 1 .. Len(q) : q[i] \in S \ {f}
      /\ \A g \in S \ {f} : \E i \in 1 .. Len(q) : q[i] = g
      /\ \A i, j \in 1 .. Len(q) : i < j => m[q[i]] < m[q[j]]
  BY DEF Lists
<1>2. /\ r \in Seq(Fibers) /\ Len(r) = Len(q) + 1 /\ r[Len(q) + 1] = f
      /\ \A i \in 1 .. Len(q) : r[i] = q[i]
  BY <1>1
<1>3. \A i \in 1 .. Len(q) + 1 : i \in 1 .. Len(q) \/ i = Len(q) + 1 BY <1>1
<1>4. 1 .. Len(q) \subseteq 1 .. Len(q) + 1 /\ Len(q) + 1 \in 1 .. Len(q) + 1 BY <1>1
<1> HIDE DEF r
<1>5. \A i \in 1 .. Len(r) : r[i] \in S BY <1>1, <1>2, <1>3
<1>6. \A g \in S : \E i \in 1 .. Len(r) : r[i] = g
  <2>1. SUFFICES ASSUME NEW g \in S PROVE \E i \in 1 .. Len(r) : r[i] = g OBVIOUS
  <2>2. CASE g = f BY <1>2, <1>4, <2>2
  <2>3. CASE g # f
    <3>1. PICK i \in 1 .. Len(q) : q[i] = g BY <1>1, <2>3
    <3> QED BY <1>2, <1>4, <3>1
  <2> QED BY <2>2, <2>3
<1>7. \A i, j \in 1 .. Len(r) : i < j => k[r[i]] < k[r[j]]
  <2>1. SUFFICES ASSUME NEW i \in 1 .. Len(r), NEW j \in 1 .. Len(r), i < j
                 PROVE  k[r[i]] < k[r[j]]
    OBVIOUS
  <2>5. i \in 1 .. Len(q) BY <1>1, <1>2, <2>1
  <2>2. i \in 1 .. Len(q) /\ r[i] = q[i] /\ q[i] \in S \ {f} BY <1>1, <1>2, <2>5
  <2>3. CASE j \in 1 .. Len(q)
    <3>1. r[j] = q[j] /\ q[j] \in S \ {f} BY <1>1, <1>2, <2>3
    <3>2. m[q[i]] < m[q[j]] BY <1>1, <2>1, <2>2, <2>3
    <3> QED BY <2>2, <3>1, <3>2
  <2>4. CASE j = Len(q) + 1 BY <1>2, <2>2, <2>4
  <2> QED BY <1>2, <1>3, <2>1, <2>3, <2>4
<1> QED BY <1>2, <1>5, <1>6, <1>7 DEF Lists, r

\* Submissions and batches are on record: rows outnumber deliveries, which
\* outnumber batches.
Counted == batch <= started /\ submitted <= Len(ledger)

HasList == \E q : Lists(q, Live, mine)

RInv == IInv /\ Counted /\ (Broken \/ HasList)

LEMMA QueueIsList ==
  ASSUME TypeOK, NEW q, Lists(q, Live, mine)
  PROVE  LiveQueue = q
<1>1. Live \in SUBSET Fibers BY DEF Live
<1>2. mine \in [Fibers -> Nat] BY DEF TypeOK
<1> QED BY <1>1, <1>2, OneList DEF LiveQueue

LEMMA NextQueueIsList ==
  ASSUME TypeOK', NEW q, Lists(q, Live', mine')
  PROVE  LiveQueue' = q
<1>1. Live' \in SUBSET Fibers BY DEF Live
<1>2. mine' \in [Fibers -> Nat] BY DEF TypeOK
<1> QED BY <1>1, <1>2, OneList DEF LiveQueue

\* The fiber that has its turn is the head of the list.
LEMMA HeadHasTurn ==
  ASSUME TurnInv, NEW q, Lists(q, Live, mine), NEW f \in Live, HasTurn(f)
  PROVE  q # << >> /\ Head(q) = f
<1>1. /\ q \in Seq(Fibers) /\ Len(q) \in Nat
      /\ \A i \in 1 .. Len(q) : q[i] \in Live
      /\ \E i \in 1 .. Len(q) : q[i] = f
      /\ \A i, j \in 1 .. Len(q) : i < j => mine[q[i]] < mine[q[j]]
  BY DEF Lists
<1>2. PICK i \in 1 .. Len(q) : q[i] = f BY <1>1
<1>3. 1 \in 1 .. Len(q) /\ q # << >> /\ Head(q) = q[1] BY <1>1, <1>2
<1>4. mine[f] \in Nat /\ mine[q[1]] \in Nat
  <2>1. f \in Fibers /\ q[1] \in Fibers BY <1>1, <1>3 DEF Live
  <2> QED BY <2>1 DEF TurnInv, TypeOK
<1>5. CASE i = 1 BY <1>2, <1>3, <1>5
<1>6. CASE i # 1
  <2>1. mine[q[1]] < mine[f] BY <1>1, <1>2, <1>3, <1>6
  <2>2. q[1] = f \/ mine[f] < mine[q[1]] BY <1>1, <1>3, LeastTicket
  <2> QED BY <1>3, <1>4, <2>1, <2>2
<1> QED BY <1>5, <1>6

\* A row of the head is an append of the abstract queue.
LEMMA AppendIsHeads ==
  ASSUME TypeOK, NEW f \in Fibers, NEW q, NEW r \in RowType, r.fiber = f,
         Head(q) = f, ledger' = Append(ledger, r)
  PROVE  /\ Len(ledger') = Len(ledger) + 1
         /\ SubSeq(ledger', 1, Len(ledger)) = ledger
         /\ ledger'[Len(ledger')].fiber = Head(q)
<1>1. ledger \in Seq(RowType) BY DEF TypeOK
<1>2. Len(ledger') = Len(ledger) + 1 /\ ledger'[Len(ledger) + 1] = r BY <1>1
<1>3. SubSeq(ledger', 1, Len(ledger)) = ledger BY <1>1
<1> QED BY <1>2, <1>3

\* What a step of f that moves or removes its ticket appends.
LEMMA StepAppends ==
  ASSUME TurnInv, NEW f \in Fibers, Step(f)
  PROVE  /\ f \in Live' /\ mine' # mine =>
              mine'[f] = turnChain + 1 /\ HasTurn(f) /\ ledger' = Append(ledger, NextRow(f))
         /\ f \notin Live' =>
              /\ mine' = mine /\ HasTurn(f)
              /\ pc'[f] = "faulted" \/ ledger' = Append(ledger, NextRow(f))
<1> DEFINE Appends ==
         /\ f \in Live' /\ mine' # mine =>
              mine'[f] = turnChain + 1 /\ HasTurn(f) /\ ledger' = Append(ledger, NextRow(f))
         /\ f \notin Live' =>
              /\ mine' = mine /\ HasTurn(f)
              /\ pc'[f] = "faulted" \/ ledger' = Append(ledger, NextRow(f))
<1>0. /\ pc \in [Fibers -> States] /\ mine \in [Fibers -> 0 .. turnChain]
      /\ Active(f) => HasTurn(f) /\ NextRow(f) = Row(f)
      /\ f \notin Live' => pc'[f] \in {"ended", "faulted"}
  BY StepOwn
     DEF TurnInv, TypeOK, Shape, FiberShape, Active, NextRow, Row, Coming, Live, States
<1>1. CASE Acquire(f) \/ Enqueue(f) \/ Settle(f)
  BY <1>0, <1>1 DEF Acquire, Enqueue, Settle, turnVars
<1>2. CASE Call(f) BY <1>0, <1>2 DEF Call, Active, NextTicket
<1>3. CASE Resume(f)
  <2>1. mine' = mine /\ pc'[f] \in {"running", "crashed", "faulting"}
    BY <1>0, <1>3 DEF Resume, AfterResult
  <2> QED BY <1>0, <2>1
<1>4. CASE Finish(f) \/ Crash(f) \/ Fault(f)
  BY <1>0, <1>4 DEF Finish, Crash, Fault, Release, Active
<1> QED BY <1>1, <1>2, <1>3, <1>4 DEF Step

\* The deliveries of the next batch.
New == {f \in Fibers : f > started /\ f <= submitted}

\* When a batch starts, its deliveries are the live ones.
LEMMA NewBatch ==
  ASSUME TurnInv, OrderInv, StartBatch
  PROVE  /\ Live = {} /\ Live' = New /\ ledger' = ledger /\ Broken' = Broken
         /\ \A f \in New : mine'[f] = turnChain + (f - started)
<1>1. Live = {} BY BatchDoneEndsAll DEF StartBatch, BatchDue
<1>2. \A f \in Fibers : f \in Live' <=> f \in New BY <1>1, StartBatchSets DEF New
<1>3. Live' = New BY <1>2 DEF Live, New
<1>4. ASSUME NEW f \in Fibers PROVE pc'[f] = "faulted" <=> pc[f] = "faulted"
  BY StartBatchSets
<1> QED BY <1>1, <1>3, <1>4, StartBatchSets DEF New, Broken

\* A step of a fiber: its provider answers, or it appends as the head of the
\* queue and keeps its place, goes to the back or leaves.
LEMMA StepRefines ==
  ASSUME RInv, ~Broken, NEW f \in Fibers, Step(f)
  PROVE  /\ Broken' \/ HasList'
         /\ [Abstract!Next]_(Abstract!queueVars)
<1>1. TurnInv /\ TypeOK /\ TypeOK' BY StepTurns DEF RInv, IInv, TurnInv
<1>2. PICK q : Lists(q, Live, mine) BY DEF RInv, HasList
<1>3. LiveQueue = q BY <1>1, <1>2, QueueIsList
<1>4. /\ f \in Live /\ mine[f] \in Nat /\ turnChain \in Nat
      /\ mine \in [Fibers -> Nat] /\ mine' \in [Fibers -> Nat]
      /\ \A g \in Fibers : mine[g] <= turnChain
  <2>1. f \in Live BY <1>1, StepOwn
  <2>2. turnChain \in Nat /\ mine \in [Fibers -> 0 .. turnChain] BY <1>1 DEF TypeOK
  <2>3. turnChain' \in Nat /\ mine' \in [Fibers -> 0 .. turnChain'] BY <1>1 DEF TypeOK
  <2> QED BY <2>1, <2>2, <2>3
<1>5. \A g \in Fibers : g # f => pc'[g] = pc[g] /\ mine'[g] = mine[g]
  BY <1>1, StepFrame
<1>6. NextRow(f) \in RowType /\ NextRow(f).fiber = f BY <1>1, RowTypes DEF NextRow
<1>7. CASE Broken'
  BY <1>7 DEF Abstract!Next, Abstract!Break
<1> SUFFICES ASSUME ~Broken' PROVE HasList' /\ [Abstract!Next]_(Abstract!queueVars)
  BY <1>7
<1>8. pc'[f] # "faulted" /\ Broken' = Broken BY DEF Broken
<1>9. ASSUME NEW r, Lists(r, Live', mine'), HasTurn(f), ledger' = Append(ledger, NextRow(f)),
             r \in {q, Append(Tail(q), Head(q)), Tail(q)}
      PROVE  HasList' /\ [Abstract!Next]_(Abstract!queueVars)
  <2>1. HasList' BY <1>9 DEF HasList
  <2>2. LiveQueue' = r BY <1>1, <1>9, NextQueueIsList
  <2>3. q # << >> /\ Head(q) = f BY <1>1, <1>2, <1>4, <1>9, HeadHasTurn
  <2>4. /\ Len(ledger') = Len(ledger) + 1
        /\ SubSeq(ledger', 1, Len(ledger)) = ledger
        /\ ledger'[Len(ledger')].fiber = Head(q)
    BY <1>1, <1>6, <1>9, <2>3, AppendIsHeads
  <2>5. Abstract!HeadAppends
    BY <1>3, <1>9, <2>2, <2>3, <2>4 DEF Abstract!HeadAppends, Abstract!Owner
  <2> QED BY <1>8, <2>1, <2>5 DEF Abstract!Next
<1>10. CASE f \in Live' /\ mine' = mine
  <2>1. Live' = Live
    <3>1. \A g \in Fibers : g \in Live' <=> g \in Live BY <1>4, <1>5, <1>10 DEF Live
    <3> QED BY <3>1 DEF Live
  <2>2. Lists(q, Live', mine') BY <1>2, <1>10, <2>1
  <2>3. CASE ledger' = ledger
    <3>1. LiveQueue' = q BY <1>1, <2>2, NextQueueIsList
    <3>2. HasList' BY <2>2 DEF HasList
    <3>3. LiveQueue' = LiveQueue BY <1>3, <3>1
    <3> QED BY <1>8, <2>3, <3>2, <3>3 DEF Abstract!queueVars
  <2>4. CASE ledger' # ledger
    <3>1. HasTurn(f) /\ ledger' = Append(ledger, NextRow(f)) BY <1>1, <2>4, StepOwn
    <3> QED BY <1>9, <2>2, <3>1
  <2> QED BY <2>3, <2>4
<1>11. CASE f \in Live' /\ mine' # mine
  <2>1. /\ mine'[f] = turnChain + 1 /\ HasTurn(f)
        /\ ledger' = Append(ledger, NextRow(f))
    BY <1>1, <1>11, StepAppends
  <2>2. Live' = Live
    <3>1. \A g \in Fibers : g \in Live' <=> g \in Live BY <1>4, <1>5, <1>11 DEF Live
    <3> QED BY <3>1 DEF Live
  <2>3. q # << >> /\ Head(q) = f BY <1>1, <1>2, <1>4, <2>1, HeadHasTurn
  <2>4. Lists(Tail(q), Live \ {f}, mine) BY <1>2, <1>4, <2>3, TailLists
  <2>5. \A g \in Live \ {f} : mine'[g] = mine[g] /\ mine'[g] < mine'[f]
    <3>1. SUFFICES ASSUME NEW g \in Live, g # f
                   PROVE  mine'[g] = mine[g] /\ mine'[g] < mine'[f]
      OBVIOUS
    <3>2. g \in Fibers BY DEF Live
    <3>3. mine'[g] = mine[g] /\ mine[g] <= turnChain /\ mine[g] \in Nat BY <1>4, <1>5, <3>1, <3>2
    <3> QED BY <1>4, <2>1, <3>3
  <2>6. Lists(Append(Tail(q), f), Live, mine') BY <1>4, <2>4, <2>5, LastLists
  <2>7. Lists(Append(Tail(q), f), Live', mine') BY <2>2, <2>6
  <2>8. Append(Tail(q), f) \in {q, Append(Tail(q), Head(q)), Tail(q)} BY <2>3
  <2> QED BY <1>9, <2>1, <2>7, <2>8
<1>12. CASE f \notin Live'
  <2>1. mine' = mine /\ HasTurn(f) /\ ledger' = Append(ledger, NextRow(f))
    BY <1>1, <1>8, <1>12, StepAppends
  <2>2. Live' = Live \ {f}
    <3>1. \A g \in Fibers : g \in Live' <=> g \in Live /\ g # f BY <1>5, <1>12 DEF Live
    <3> QED BY <3>1 DEF Live
  <2>3. q # << >> /\ Head(q) = f BY <1>1, <1>2, <1>4, <2>1, HeadHasTurn
  <2>4. Lists(Tail(q), Live', mine') BY <1>2, <1>4, <2>1, <2>2, <2>3, TailLists
  <2> QED BY <1>9, <2>1, <2>4
<1> QED BY <1>10, <1>11, <1>12

\* A batch joins the empty queue in the order of submission.
LEMMA StartBatchRefines ==
  ASSUME RInv, ~Broken, StartBatch
  PROVE  /\ Broken' \/ HasList'
         /\ [Abstract!Next]_(Abstract!queueVars)
<1>1. TurnInv /\ TypeOK /\ TypeOK' /\ OrderInv BY StartBatchTurns DEF RInv, IInv, TurnInv
<1>2. /\ started \in Nat /\ submitted \in Nat /\ turnChain \in Nat /\ submitted <= MaxFibers
      /\ started < submitted /\ MaxFibers \in Nat
  BY <1>1, StartBatchSets, SchedulerAssumption
<1>3. Live = {} /\ Live' = New /\ ledger' = ledger
  BY <1>1, NewBatch
<1>4. \A f \in New : mine'[f] = turnChain + (f - started)
  BY <1>1, NewBatch
<1>5. Lists(<< >>, Live, mine) BY <1>3 DEF Lists
<1>6. LiveQueue = << >> BY <1>1, <1>5, QueueIsList
<1> DEFINE b == started + 1
           q == [i \in 1 .. submitted - b + 1 |-> b + i - 1]
<1>7. submitted - b + 1 \in Nat /\ submitted - b + 1 > 0 /\ submitted - b + 1 = submitted - started
  BY <1>2
<1>8. \A i \in 1 .. submitted - b + 1 : b + i - 1 \in New /\ b + i - 1 = started + i
  BY <1>2 DEF New, Fibers
<1>9. Lists(q, Live', mine')
  <2>1. q \in Seq(Fibers) /\ Len(q) = submitted - b + 1
    BY <1>7, <1>8 DEF New
  <2>2. \A i \in 1 .. Len(q) : q[i] \in New /\ q[i] = started + i BY <1>8, <2>1
  <2>3. ASSUME NEW f \in New PROVE \E i \in 1 .. Len(q) : q[i] = f
    <3>1. f \in Nat /\ f > started /\ f <= submitted BY DEF New, Fibers
    <3>2. f - started \in 1 .. Len(q) BY <1>2, <1>7, <2>1, <3>1
    <3>3. q[f - started] = started + (f - started) BY <2>2, <3>2
    <3> QED BY <1>2, <3>1, <3>2, <3>3
  <2>4. ASSUME NEW i \in 1 .. Len(q), NEW j \in 1 .. Len(q), i < j
        PROVE  mine'[q[i]] < mine'[q[j]]
    <3>1. mine'[q[i]] = turnChain + (q[i] - started) /\ mine'[q[j]] = turnChain + (q[j] - started)
      BY <1>4, <2>2
    <3>2. q[i] = started + i /\ q[j] = started + j BY <2>2
    <3> HIDE DEF q
    <3> QED BY <1>2, <2>1, <2>4, <3>1, <3>2
  <2> HIDE DEF q
  <2> QED BY <1>3, <2>1, <2>2, <2>3, <2>4 DEF Lists
<1>10. LiveQueue' = q
  <2> HIDE DEF q
  <2> QED BY <1>1, <1>9, NextQueueIsList
<1>11. HasList' BY <1>9 DEF HasList
<1>12. ~Broken' /\ Broken' = Broken
  BY <1>1, NewBatch
<1>13. b \in Fibers /\ submitted \in Fibers BY <1>2 DEF Fibers
<1>14. q # << >> BY <1>7
<1>15. Abstract!Submit(q)
  <2> HIDE DEF q
  <2> QED BY <1>3, <1>6, <1>10, <1>12, <1>14 DEF Abstract!Submit
<1>16. \E c, e \in Fibers : Abstract!Submit([i \in 1 .. e - c + 1 |-> c + i - 1])
  BY <1>13, <1>15
<1> QED BY <1>11, <1>12, <1>16 DEF Abstract!Next

\* The top level appends when no delivery is live.
LEMMA TopLevelRefines ==
  ASSUME RInv, ~Broken, TopLevel
  PROVE  /\ Broken' \/ HasList'
         /\ [Abstract!Next]_(Abstract!queueVars)
<1>1. TurnInv /\ TypeOK /\ TypeOK' /\ OrderInv BY NextTurns DEF Next, RInv, IInv, TurnInv
<1>2. Live = {} /\ Live' = {} /\ mine' = mine /\ ledger' = Append(ledger, TopRow)
  BY <1>1 DEF TopLevel, turnVars, OrderInv, Idle, Live
<1>3. Lists(<< >>, Live, mine) /\ Lists(<< >>, Live', mine') BY <1>2 DEF Lists
<1>4. LiveQueue = << >> BY <1>1, <1>3, QueueIsList
<1>5. LiveQueue' = << >> BY <1>1, <1>3, NextQueueIsList
<1>6. HasList' BY <1>3 DEF HasList
<1>7. ~Broken' /\ Broken' = Broken BY DEF TopLevel, Broken
<1>8. batch + 1 \in 1 .. Len(ledger) + 1
  <2>1. batch \in Nat /\ started \in Nat /\ submitted \in Nat /\ started <= submitted
        /\ Len(ledger) \in Nat
    BY <1>1 DEF TypeOK
  <2> QED BY <2>1 DEF RInv, Counted
<1>9. Abstract!TopLevelAppends
  BY <1>2, <1>4, <1>5, <1>7, <1>8 DEF Abstract!TopLevelAppends, TopRow
<1> QED BY <1>6, <1>7, <1>9 DEF Abstract!Next

LEMMA CountedStep ==
  ASSUME TurnInv, Counted, [Next]_vars
  PROVE  Counted'
<1>1. /\ batch \in Nat /\ started \in Nat /\ submitted \in Nat /\ started <= submitted
      /\ ledger \in Seq(RowType) /\ Len(ledger) \in Nat
  BY DEF TurnInv, TypeOK
<1>2. TopRow \in RowType /\ \A f \in Fibers : NextRow(f) \in RowType
  BY RowTypes DEF TurnInv
<1>3. \A r \in RowType : Len(Append(ledger, r)) = Len(ledger) + 1 BY <1>1
<1>4. CASE TopLevel
  BY <1>1, <1>2, <1>3, <1>4 DEF TopLevel, batchVars, Counted
<1>5. CASE StartBatch
  BY <1>1, <1>5, StartBatchSets DEF StartBatch, Counted
<1>6. CASE DrainEnds \/ DrainRejects \/ Prompt \/ UNCHANGED vars
  BY <1>6 DEF DrainEnds, DrainRejects, Prompt, turnVars, batchVars, vars, Counted
<1>7. ASSUME NEW f \in Fibers, Step(f) PROVE Counted'
  <2>1. started' = started /\ batch' = batch BY <1>7, StepFrame DEF TurnInv
  <2>2. Len(ledger') >= Len(ledger) BY <1>1, <1>2, <1>3, <1>7, StepOwn
  <2>3. CASE Enqueue(f)
    <3>1. ledger' = Append(ledger, Row(f)) /\ Row(f) \in RowType /\ submitted' = submitted + 1
      BY <2>3, RowTypes DEF Enqueue, TurnInv
    <3> QED BY <1>1, <1>3, <2>1, <3>1 DEF Counted
  <2>4. CASE ~Enqueue(f)
    <3>1. submitted' = submitted
      BY <1>7, <2>4 DEF Step, Acquire, Call, Settle, Resume, Finish, Crash, Fault, Release, drainVars
    <3>2. Len(ledger') \in Nat
      <4>1. TypeOK' BY <1>7, NextType DEF TurnInv, Next
      <4> QED BY <4>1 DEF TypeOK
    <3> QED BY <1>1, <2>1, <2>2, <3>1, <3>2 DEF Counted
  <2> QED BY <2>3, <2>4
<1> QED BY <1>4, <1>5, <1>6, <1>7 DEF Next

\* The tickets implement the first-in-first-out queue of turns, whatever the
\* calls do and in whatever order they resolve: every step is one of the
\* queue or leaves it alone.
THEOREM Implements == Spec => ImplementsTurnQueue
<1>1. Init => RInv /\ Abstract!Init
  <2>1. SUFFICES ASSUME Init PROVE RInv /\ Abstract!Init OBVIOUS
  <2>2. Live = {} /\ ledger = << >> /\ ~Broken BY <2>1 DEF Init, Live, Broken
  <2>3. Lists(<< >>, Live, mine) BY <2>2 DEF Lists
  <2>4. TypeOK BY <2>1, InitType
  <2>5. LiveQueue = << >> BY <2>3, <2>4, QueueIsList
  <2>6. Abstract!Init BY <2>2, <2>5 DEF Abstract!Init
  <2>7. IInv BY <2>1, InitInv
  <2>8. Counted BY <2>1, <2>2 DEF Init, Counted
  <2> QED BY <2>3, <2>6, <2>7, <2>8 DEF RInv, HasList
<1>2. RInv /\ [Next]_vars => RInv' /\ [Abstract!Next]_(Abstract!queueVars)
  <2>1. SUFFICES ASSUME RInv, [Next]_vars
                 PROVE  RInv' /\ [Abstract!Next]_(Abstract!queueVars)
    OBVIOUS
  <2>2. TurnInv /\ IInv' /\ Counted' BY <2>1, NextInv, CountedStep DEF RInv, IInv
  <2>3. CASE Broken
    <3>1. Broken' BY <2>1, <2>2, <2>3, StaysBroken
    <3> QED BY <2>2, <2>3, <3>1 DEF RInv, Abstract!queueVars
  <2>4. CASE ~Broken
    <3>1. CASE DrainEnds \/ DrainRejects \/ Prompt \/ UNCHANGED vars
      <4>1. UNCHANGED <<pc, mine, ledger>>
        BY <3>1 DEF DrainEnds, DrainRejects, Prompt, turnVars, batchVars, vars
      <4>2. Live' = Live /\ Broken' = Broken /\ LiveQueue' = LiveQueue
        BY <4>1 DEF Live, Broken, LiveQueue
      <4>3. HasList' = HasList BY <4>1, <4>2 DEF HasList
      <4> QED BY <2>1, <2>2, <2>4, <4>1, <4>2, <4>3 DEF RInv, Abstract!queueVars
    <3>2. CASE ~(DrainEnds \/ DrainRejects \/ Prompt \/ UNCHANGED vars)
      <4>1. (Broken' \/ HasList') /\ [Abstract!Next]_(Abstract!queueVars)
        BY <2>1, <2>4, <3>2, StepRefines, StartBatchRefines, TopLevelRefines DEF Next
      <4> QED BY <2>2, <4>1 DEF RInv
    <3> QED BY <3>1, <3>2
  <2> QED BY <2>3, <2>4
<1> QED BY <1>1, <1>2, PTL DEF Spec, ImplementsTurnQueue, Abstract!Spec

-----------------------------------------------------------------------------
(* The fan-out of a pipe: its paths share one turn, so the tickets that are *)
(* resolved form an initial segment of the chain, and the results applied   *)
(* are those of resolved tickets and of the turn that is held.              *)

PathWaits(p) == at[p] \in {"working", "settled"}

FanType ==
  /\ inFiber \in BOOLEAN
  /\ chain \in Nat
  /\ resolved \subseteq 0 .. chain
  /\ turn \in 0 .. chain
  /\ ticket \in [Paths -> 0 .. chain]
  /\ at \in [Paths -> {"running", "working", "settled", "returned", "failed"}]
  /\ applied \in Seq(Nat)

FanPrefix == 0 \in resolved /\ \A t \in resolved : \A u \in 0 .. t : u \in resolved

\* The turn a fiber holds is the first that is not resolved.
TurnIsNext == turn # 0 => turn \notin resolved /\ turn - 1 \in resolved

\* Ticket 2 is the sibling's.
FiberTickets ==
  /\ inFiber => chain >= 2 /\ turn # 2 /\ \A p \in Paths : PathWaits(p) => ticket[p] > 2
  /\ ~inFiber => turn = 0 /\ sibling # "queued"

WaitingTickets ==
  /\ \A p \in Paths : PathWaits(p) => ticket[p] > 0 /\ ticket[p] \notin resolved \cup {turn}
  /\ \A p, r \in Paths : PathWaits(p) /\ PathWaits(r) /\ p # r => ticket[p] # ticket[r]

AppliedTickets == \A i \in DOMAIN applied : applied[i] \in resolved \/ (turn # 0 /\ applied[i] = turn)

Increasing == \A i, j \in DOMAIN applied : i < j => applied[i] < applied[j]

FanInv ==
  /\ FanType
  /\ FanPrefix
  /\ TurnIsNext
  /\ FiberTickets
  /\ WaitingTickets
  /\ AppliedTickets
  /\ Increasing

\* Releasing the turn that is held.
LEMMA FanReleases ==
  ASSUME FanInv, resolved' = resolved \cup ({turn} \ {0}), turn' = 0, applied' = applied
  PROVE  /\ FanPrefix' /\ TurnIsNext' /\ AppliedTickets' /\ Increasing'
         /\ \A t \in resolved' : t \in resolved \/ t = turn
<1>1. FanPrefix'
  <2>1. SUFFICES ASSUME NEW t \in resolved', NEW u \in 0 .. t PROVE u \in resolved'
    BY DEF FanInv, FanPrefix
  <2>2. CASE t \in resolved BY <2>2 DEF FanInv, FanPrefix
  <2>3. CASE t = turn /\ turn # 0
    <3>1. turn - 1 \in resolved /\ turn \in Nat BY <2>3 DEF FanInv, TurnIsNext, FanType
    <3>2. u = turn \/ u \in 0 .. turn - 1 BY <2>3, <3>1
    <3> QED BY <2>3, <3>1, <3>2 DEF FanInv, FanPrefix
  <2> QED BY <2>2, <2>3
<1> QED BY <1>1 DEF FanInv, TurnIsNext, AppliedTickets, Increasing

LEMMA FanCall ==
  ASSUME FanInv, NEW p \in Paths, Pipe!Call(p)
  PROVE  FanInv'
<1>1. /\ chain' = chain + 1 /\ ticket' = [ticket EXCEPT ![p] = chain + 1]
      /\ resolved' = resolved \cup ({turn} \ {0}) /\ turn' = 0 /\ applied' = applied
      /\ at' = [at EXCEPT ![p] = "working"] /\ inFiber' = inFiber /\ sibling' = sibling
  BY DEF Pipe!Call
<1>2. /\ chain \in Nat /\ resolved \subseteq 0 .. chain /\ turn \in 0 .. chain
      /\ \A r \in Paths : ticket[r] \in 0 .. chain
  BY DEF FanInv, FanType
<1>3. FanType'
  <2>1. 0 .. chain \subseteq 0 .. chain' /\ chain + 1 \in 0 .. chain' BY <1>1, <1>2
  <2>2. ticket' \in [Paths -> 0 .. chain'] BY <1>1, <2>1 DEF FanInv, FanType
  <2>3. resolved' \subseteq 0 .. chain' /\ turn' \in 0 .. chain' BY <1>1, <1>2, <2>1
  <2> QED BY <1>1, <2>2, <2>3 DEF FanInv, FanType
<1>4. /\ ticket'[p] = chain + 1 /\ at'[p] = "working"
      /\ \A r \in Paths : r # p => ticket'[r] = ticket[r] /\ at'[r] = at[r]
  BY <1>1 DEF FanInv, FanType
<1>5. FiberTickets' BY <1>1, <1>2, <1>4 DEF FanInv, FiberTickets, PathWaits
<1>6. WaitingTickets'
  <2>1. chain + 1 \notin resolved \cup {turn, 0} BY <1>2
  <2>2. \A r \in Paths : ticket[r] # chain + 1 BY <1>2
  <2> QED BY <1>1, <1>4, <2>1, <2>2, <1>2 DEF FanInv, WaitingTickets, PathWaits
<1> QED BY <1>1, <1>3, <1>5, <1>6, FanReleases DEF FanInv

\* The result that may be applied is the first that is missing.
LEMMA ResumesNext ==
  ASSUME FanInv, NEW p \in Paths, at[p] = "settled", Pipe!InOrder(p)
  PROVE  /\ turn = 0
         /\ \A t \in resolved : t < ticket[p]
<1>1. /\ ticket[p] \in Nat /\ turn \in Nat /\ resolved \subseteq Nat
      /\ ticket[p] > 0 /\ ticket[p] \notin resolved /\ ticket[p] # turn
      /\ ticket[p] - 1 \in resolved
  BY DEF FanInv, FanType, WaitingTickets, PathWaits, Pipe!InOrder
<1>2. \A t \in resolved : t < ticket[p]
  <2>1. SUFFICES ASSUME NEW t \in resolved, ~(t < ticket[p]) PROVE FALSE OBVIOUS
  <2>2. ticket[p] \in 0 .. t BY <1>1, <2>1
  <2> QED BY <1>1, <2>2 DEF FanInv, FanPrefix
<1>3. turn = 0
  <2>1. SUFFICES ASSUME turn # 0 PROVE FALSE OBVIOUS
  <2>2. turn \notin resolved /\ turn - 1 \in resolved BY <2>1 DEF FanInv, TurnIsNext
  <2>3. turn - 1 < ticket[p] BY <1>2, <2>2
  <2>4. turn < ticket[p] BY <1>1, <2>3
  <2>5. turn \in 0 .. ticket[p] - 1 BY <1>1, <2>4
  <2> QED BY <1>1, <2>2, <2>5 DEF FanInv, FanPrefix
<1> QED BY <1>2, <1>3

LEMMA FanResume ==
  ASSUME FanInv, NEW p \in Paths, Pipe!Resume(p)
  PROVE  FanInv'
<1>1. /\ at[p] = "settled" /\ Pipe!InOrder(p)
      /\ at' = [at EXCEPT ![p] = IF came[p] = "resolve" THEN "running" ELSE "failed"]
      /\ applied' = IF came[p] = "resolve" THEN Append(applied, ticket[p]) ELSE applied
      /\ inFiber' = inFiber /\ chain' = chain /\ ticket' = ticket /\ sibling' = sibling
  BY DEF Pipe!Resume
<1>2. turn = 0 /\ \A t \in resolved : t < ticket[p] BY <1>1, ResumesNext
<1>3. /\ chain \in Nat /\ resolved \subseteq 0 .. chain /\ applied \in Seq(Nat)
      /\ ticket[p] \in 0 .. chain /\ ticket[p] > 0 /\ ticket[p] \notin resolved
      /\ ticket[p] - 1 \in resolved
      /\ \A r \in Paths : PathWaits(r) /\ r # p => ticket[r] # ticket[p]
  BY <1>1 DEF FanInv, FanType, WaitingTickets, PathWaits, Pipe!InOrder
<1>4. \/ /\ inFiber /\ resolved' = resolved
         /\ turn' = IF came[p] = "throw" THEN turn ELSE ticket[p]
      \/ /\ ~inFiber /\ resolved' = resolved \cup {ticket[p]} /\ turn' = turn
  BY DEF Pipe!Resume, Pipe!Resolves
<1>5. /\ ~PathWaits(p)'
      /\ \A r \in Paths : r # p => at'[r] = at[r]
  BY <1>1 DEF FanInv, FanType, PathWaits
<1>6. FanType'
  <2>1. turn' \in 0 .. chain'
    <3>1. 0 \in 0 .. chain BY <1>3
    <3> QED BY <1>1, <1>2, <1>3, <1>4, <3>1
  <2>3. resolved' \subseteq 0 .. chain' BY <1>1, <1>3, <1>4
  <2>2. applied' \in Seq(Nat) BY <1>1, <1>3
  <2> QED BY <1>1, <2>1, <2>2, <2>3 DEF FanInv, FanType
<1>7. FanPrefix'
  <2>1. CASE resolved' = resolved BY <2>1 DEF FanInv, FanPrefix
  <2>2. CASE resolved' = resolved \cup {ticket[p]}
    <3>1. SUFFICES ASSUME NEW t \in resolved', NEW u \in 0 .. t PROVE u \in resolved'
      BY <2>2 DEF FanInv, FanPrefix
    <3>2. CASE t \in resolved BY <2>2, <3>2 DEF FanInv, FanPrefix
    <3>3. CASE t = ticket[p]
      <4>1. u = ticket[p] \/ u \in 0 .. ticket[p] - 1 BY <1>3, <3>3
      <4> QED BY <1>3, <2>2, <4>1 DEF FanInv, FanPrefix
    <3> QED BY <2>2, <3>2, <3>3
  <2> QED BY <1>4, <2>1, <2>2
<1>8. TurnIsNext' BY <1>2, <1>3, <1>4 DEF TurnIsNext
<1>9. FiberTickets'
  BY <1>1, <1>2, <1>3, <1>4, <1>5 DEF FanInv, FiberTickets, PathWaits
<1>10. WaitingTickets'
  <2>1. \A r \in Paths : PathWaits(r)' => PathWaits(r) /\ r # p BY <1>5 DEF PathWaits
  <2>2. \A t \in resolved' \cup {turn'} : t \in resolved \cup {turn} \/ t = ticket[p] BY <1>4
  <2> QED BY <1>1, <1>3, <2>1, <2>2 DEF FanInv, WaitingTickets
<1>11. AppliedTickets' /\ Increasing'
  <2>1. \A i \in DOMAIN applied : applied[i] \in resolved BY <1>2 DEF FanInv, AppliedTickets
  <2>2. resolved \subseteq resolved' BY <1>4
  <2>3. CASE came[p] # "resolve"
    BY <1>1, <2>1, <2>2, <2>3 DEF FanInv, AppliedTickets, Increasing
  <2>4. CASE came[p] = "resolve"
    <3>1. /\ Len(applied) \in Nat
          /\ DOMAIN applied = 1 .. Len(applied) /\ DOMAIN applied' = 1 .. Len(applied) + 1
          /\ applied'[Len(applied) + 1] = ticket[p]
          /\ \A i \in DOMAIN applied : applied'[i] = applied[i]
      BY <1>1, <1>3, <2>4
    <3>2. ticket[p] \in resolved' \/ (turn' # 0 /\ ticket[p] = turn')
      BY <1>3, <1>4, <2>4
    <3>3. \A i \in DOMAIN applied' : i \in DOMAIN applied \/ i = Len(applied) + 1 BY <3>1
    <3>4. AppliedTickets' BY <2>1, <2>2, <3>1, <3>2, <3>3 DEF AppliedTickets
    <3>5. ASSUME NEW i \in DOMAIN applied', NEW j \in DOMAIN applied', i < j
          PROVE  applied'[i] < applied'[j]
      <4>1. i \in DOMAIN applied BY <3>1, <3>5
      <4>2. CASE j \in DOMAIN applied BY <3>1, <3>5, <4>1, <4>2 DEF FanInv, Increasing
      <4>3. CASE j = Len(applied) + 1 BY <1>2, <2>1, <3>1, <4>1, <4>3
      <4> QED BY <3>3, <4>2, <4>3
    <3> QED BY <3>4, <3>5 DEF Increasing
  <2> QED BY <2>3, <2>4
<1> QED BY <1>6, <1>7, <1>8, <1>9, <1>10, <1>11 DEF FanInv

LEMMA FanStep ==
  ASSUME FanInv, [Pipe!Next]_(Pipe!vars)
  PROVE  FanInv'
<1>1. ASSUME NEW p \in Paths, Pipe!Settle(p) \/ Pipe!Return(p)
      PROVE  FanInv'
  <2>1. /\ UNCHANGED <<inFiber, chain, resolved, turn, ticket, sibling, applied>>
        /\ at' \in [Paths -> {"running", "working", "settled", "returned", "failed"}]
        /\ \A r \in Paths : PathWaits(r)' => PathWaits(r)
    BY <1>1 DEF Pipe!Settle, Pipe!Return, FanInv, FanType, PathWaits
  <2> QED BY <2>1 DEF FanInv, FanType, FanPrefix, TurnIsNext, FiberTickets, WaitingTickets,
              AppliedTickets, Increasing
<1>2. CASE Pipe!Join \/ UNCHANGED Pipe!vars
  <2>1. UNCHANGED <<inFiber, chain, resolved, turn, ticket, at, sibling, applied>>
    BY <1>2 DEF Pipe!Join, Pipe!vars
  <2>2. FanType' /\ FanPrefix' /\ TurnIsNext' /\ AppliedTickets' /\ Increasing'
    BY <2>1 DEF FanInv, FanType, FanPrefix, TurnIsNext, AppliedTickets, Increasing
  <2>3. FiberTickets' BY <2>1 DEF FanInv, FiberTickets, PathWaits
  <2>4. WaitingTickets' BY <2>1 DEF FanInv, WaitingTickets, PathWaits
  <2> QED BY <2>2, <2>3, <2>4 DEF FanInv
<1>3. CASE Pipe!MainEnds
  <2>1. /\ resolved' = resolved \cup ({turn} \ {0}) /\ turn' = 0 /\ applied' = applied
        /\ UNCHANGED <<inFiber, chain, ticket, at, sibling>>
    BY <1>3 DEF Pipe!MainEnds
  <2>2. /\ FanPrefix' /\ TurnIsNext' /\ AppliedTickets' /\ Increasing'
        /\ \A t \in resolved' : t \in resolved \/ t = turn
    BY <2>1, FanReleases
  <2>3. FanType' BY <2>1 DEF FanInv, FanType
  <2>4. FiberTickets' BY <2>1 DEF FanInv, FiberTickets, PathWaits
  <2>5. WaitingTickets'
    BY <2>1, <2>2 DEF FanInv, FanType, WaitingTickets, PathWaits
  <2> QED BY <2>2, <2>3, <2>4, <2>5 DEF FanInv
<1>4. CASE Pipe!Sibling
  <2>1. /\ sibling = "queued" /\ 1 \in resolved /\ resolved' = resolved \cup {2}
        /\ sibling' = "ended"
        /\ UNCHANGED <<inFiber, chain, turn, ticket, at, applied>>
    BY <1>4 DEF Pipe!Sibling
  <2>2. /\ inFiber /\ chain >= 2 /\ turn # 2 /\ chain \in Nat
        /\ \A p \in Paths : PathWaits(p) => ticket[p] > 2
        /\ \A p \in Paths : ticket[p] \in Nat
    BY <2>1 DEF FanInv, FiberTickets, FanType
  <2>3. FanType' BY <2>1, <2>2 DEF FanInv, FanType
  <2>4. FanPrefix'
    <3>1. \A u \in 0 .. 2 : u \in resolved' BY <2>1 DEF FanInv, FanPrefix
    <3> QED BY <2>1, <3>1 DEF FanInv, FanPrefix
  <2>5. TurnIsNext' BY <2>1, <2>2 DEF FanInv, TurnIsNext
  <2>6. FiberTickets' BY <2>1, <2>2 DEF FiberTickets, PathWaits
  <2>7. WaitingTickets' BY <2>1, <2>2 DEF FanInv, WaitingTickets, PathWaits
  <2>8. AppliedTickets' /\ Increasing' BY <2>1 DEF FanInv, AppliedTickets, Increasing
  <2> QED BY <2>3, <2>4, <2>5, <2>6, <2>7, <2>8 DEF FanInv
<1> QED BY <1>1, <1>2, <1>3, <1>4, FanCall, FanResume DEF Pipe!Next, Pipe!PathStep

\* The results of the paths of a fan-out land on the ledger in the order their
\* calls were issued, within a delivery and at the top level, whatever calls
\* fail or throw while they are applied.
THEOREM PipeKeepsOrder == MCSpec => []ResultsInIssueOrder
<1>1. MCInit => FanInv
  <2> SUFFICES ASSUME Pipe!Init PROVE FanInv BY DEF MCInit
  <2>1. /\ inFiber \in BOOLEAN /\ resolved = {0} /\ applied = << >>
        /\ at = [p \in Paths |-> "running"] /\ ticket = [p \in Paths |-> 0]
        /\ \/ inFiber /\ chain = 2 /\ turn = 1
           \/ ~inFiber /\ chain = 0 /\ turn = 0 /\ sibling = "ended"
    BY DEF Pipe!Init
  <2>2. /\ chain \in Nat /\ turn \in 0 .. chain /\ 0 \in 0 .. chain
        /\ \A p \in Paths : ~PathWaits(p)
    BY <2>1 DEF PathWaits
  <2>3. FanType BY <2>1, <2>2 DEF FanType
  <2>4. FanPrefix /\ TurnIsNext BY <2>1 DEF FanPrefix, TurnIsNext
  <2>5. FiberTickets /\ WaitingTickets BY <2>1, <2>2 DEF FiberTickets, WaitingTickets
  <2>6. AppliedTickets /\ Increasing BY <2>1 DEF AppliedTickets, Increasing
  <2> QED BY <2>3, <2>4, <2>5, <2>6 DEF FanInv
<1>2. FanInv /\ [MCNext]_<<job, vars, fanVars>> => FanInv'
  <2>1. [MCNext]_<<job, vars, fanVars>> => [Pipe!Next]_(Pipe!vars)
    BY DEF MCNext, fanVars, Pipe!vars
  <2> QED BY <2>1, FanStep
<1>3. FanInv => ResultsInIssueOrder
  BY DEF FanInv, Increasing, ResultsInIssueOrder, Pipe!ResultsInIssueOrder
<1> QED BY <1>1, <1>2, <1>3, PTL DEF MCSpec
=============================================================================
