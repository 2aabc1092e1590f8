------------------------------- MODULE FanOut -------------------------------
(***************************************************************************)
(* A fan-out `coll |> fn` (evalPipe of agape-ts/src/interp.ts): every path *)
(* calls its provider through inResolutionOrder, Promise.all joins them.   *)
(* At the top level the results are applied along the chain resolutionTail *)
(* and each path resolves its promise once its result is applied.  In a    *)
(* background delivery the paths share the held turn of one fiber, and the *)
(* chain is the turnChain of TurnScheduler; there the fiber holds ticket 1 *)
(* and a sibling delivery waits with ticket 2.                             *)
(***************************************************************************)
EXTENDS Naturals, Sequences

CONSTANTS
  Paths,         \* the elements of the collection
  Calls,         \* Calls[p]: provider calls path p makes
  Outcomes       \* how a call may end: "resolve", "reject", "throw"

VARIABLES
  inFiber,       \* whether the fan-out is part of a background delivery
  chain,         \* the ticket issued last (turnChain or resolutionTail)
  released,      \* the tickets whose promise is resolved
  held,          \* fiber.held, 0 for null
  pc,            \* where a path is
  mine,          \* the ticket of a path's last call
  made,          \* calls a path has come back from
  outcome,       \* how the last call of a path ended
  main,          \* where the invocation that fans out is
  sibling,       \* where the sibling delivery is
  ledger         \* tickets of the results, in the order they were applied

vars == <<inFiber, chain, released, held, pc, mine, made, outcome, main, sibling, ledger>>

Init ==
  /\ inFiber \in BOOLEAN
  /\ chain = (IF inFiber THEN 2 ELSE 0)
  /\ held = (IF inFiber THEN 1 ELSE 0)
  /\ sibling = (IF inFiber THEN "queued" ELSE "ended")
  /\ released = {0}
  /\ pc = [p \in Paths |-> "running"]
  /\ mine = [p \in Paths |-> 0]
  /\ made = [p \in Paths |-> 0]
  /\ outcome = [p \in Paths |-> "resolve"]
  /\ main = "joining"
  /\ ledger = << >>

\* The path calls: its promise goes on the chain, and in a fiber the turn
\* that is held, whichever path got it, is yielded.
Call(p) ==
  /\ pc[p] = "running"
  /\ made[p] < Calls[p]
  /\ chain' = chain + 1
  /\ mine' = [mine EXCEPT ![p] = chain + 1]
  /\ released' = released \cup ({held} \ {0})
  /\ held' = 0
  /\ pc' = [pc EXCEPT ![p] = "working"]
  /\ UNCHANGED <<inFiber, made, outcome, main, sibling, ledger>>

Settle(p) ==
  /\ pc[p] = "working"
  /\ outcome' \in {[outcome EXCEPT ![p] = o] : o \in Outcomes}
  /\ pc' = [pc EXCEPT ![p] = "settled"]
  /\ UNCHANGED <<inFiber, chain, released, held, mine, made, main, sibling, ledger>>

\* A result is applied as soon as it is there.
InAnyOrder(p) == mine[p] # 0 \* mutant

\* A result is applied after every one issued before it.
InOrder(p) == mine[p] - 1 \in released

\* The promise is resolved only for a result that was applied.
OnlyIfApplied(p) == IF outcome[p] = "resolve" THEN {mine[p]} ELSE {} \* mutant

\* Outside fibers the promise is resolved whatever came of the call.
Resolves(p) == {mine[p]}

\* Back in order, the path applies its result or throws.  A fiber takes the
\* turn it holds from the path, unless apply threw.
Resume(p) ==
  /\ pc[p] = "settled"
  /\ InOrder(p)
  /\ made' = [made EXCEPT ![p] = @ + 1]
  /\ pc' = [pc EXCEPT ![p] = IF outcome[p] = "resolve" THEN "running" ELSE "failed"]
  /\ ledger' = IF outcome[p] = "resolve" THEN Append(ledger, mine[p]) ELSE ledger
  /\ IF inFiber
     THEN /\ held' = (IF outcome[p] = "throw" THEN held ELSE mine[p])
          /\ UNCHANGED released
     ELSE /\ released' = released \cup Resolves(p)
          /\ UNCHANGED held
  /\ UNCHANGED <<inFiber, chain, mine, outcome, main, sibling>>

Return(p) ==
  /\ pc[p] = "running"
  /\ made[p] = Calls[p]
  /\ pc' = [pc EXCEPT ![p] = "returned"]
  /\ UNCHANGED <<inFiber, chain, released, held, mine, made, outcome, main, sibling, ledger>>

\* Promise.all resolves with the last path and rejects with the first failure.
Join ==
  /\ main = "joining"
  /\ \/ (\A p \in Paths : pc[p] = "returned") /\ main' = "joined"
     \/ (\E p \in Paths : pc[p] = "failed") /\ main' = "failed"
  /\ UNCHANGED <<inFiber, chain, released, held, pc, mine, made, outcome, sibling, ledger>>

\* The invocation that fanned out goes on to its end; runTurnFiber then
\* releases what the fiber holds.
MainEnds ==
  /\ main \in {"joined", "failed"}
  /\ main' = "ended"
  /\ released' = released \cup ({held} \ {0})
  /\ held' = 0
  /\ UNCHANGED <<inFiber, chain, pc, mine, made, outcome, sibling, ledger>>

\* The sibling delivery gets its turn and ends.
Sibling ==
  /\ sibling = "queued"
  /\ 1 \in released
  /\ sibling' = "ended"
  /\ released' = released \cup {2}
  /\ UNCHANGED <<inFiber, chain, held, pc, mine, made, outcome, main, ledger>>

PathStep(p) == Call(p) \/ Settle(p) \/ Resume(p) \/ Return(p)

Next == Join \/ MainEnds \/ Sibling \/ \E p \in Paths : PathStep(p)

Spec == Init /\ [][Next]_vars

\* Continuations whose promise is resolved run, and provider calls end.
Fairness ==
  /\ WF_vars(Join)
  /\ WF_vars(MainEnds)
  /\ WF_vars(Sibling)
  /\ \A p \in Paths : WF_vars(PathStep(p))

FairSpec == Spec /\ Fairness

-----------------------------------------------------------------------------
(* Properties.                                                             *)

\* Results land on the ledger in the order their calls were issued, also the
\* results of paths whose siblings have failed (inResolutionOrder).
ResultsInIssueOrder ==
  \A i, j \in DOMAIN ledger : i < j => ledger[i] < ledger[j]

\* The invocation that fans out comes to an end, whatever its calls do, and
\* so does a delivery that waits behind it ("Every reaction terminates",
\* SPEC.md); the run shows that it does not in a background delivery.
FanOutEnds == <>(main = "ended" /\ sibling = "ended")

\* At the top level it does: every path resolves its promise whatever came of
\* its call, so a failed path does not stop those issued after it.
TopLevelFanOutEnds ==
  ~inFiber => <>(main = "ended" /\ \A p \in Paths : pc[p] \in {"failed", "returned"})
=============================================================================
