--------------------------- MODULE MCTurnScheduler ---------------------------
(***************************************************************************)
(* Instances of TurnScheduler and of FanOut for TLC, one of the two in     *)
(* each behaviour: the queue of deliveries, or the fan-out of a pipe.  The *)
(* first delivery and the first path call their provider twice, the others *)
(* once.                                                                   *)
(***************************************************************************)
EXTENDS TurnScheduler

CONSTANTS
  Jobs,            \* what the run is of: "deliveries", "pipe"
  Paths,           \* the elements of the collection of the pipe
  PathOutcomes     \* how a call of a path may end

VARIABLES job, inFiber, chain, resolved, turn, at, ticket, made, came, main, sibling, applied

fanVars == <<inFiber, chain, resolved, turn, at, ticket, made, came, main, sibling, applied>>

MCCalls == [f \in 1 .. MaxFibers |-> IF f = 1 THEN 2 ELSE 1]
PathCalls == [p \in Paths |-> IF p = "p1" THEN 2 ELSE 1]

Pipe == INSTANCE FanOut WITH
  Calls <- PathCalls, Outcomes <- PathOutcomes,
  released <- resolved, held <- turn, pc <- at, mine <- ticket, outcome <- came,
  ledger <- applied

MCInit == job \in Jobs /\ Init /\ Pipe!Init /\ (job = "deliveries" => ~inFiber)

MCNext ==
  \/ job = "deliveries" /\ Next /\ UNCHANGED <<job, fanVars>>
  \/ job = "pipe" /\ Pipe!Next /\ UNCHANGED <<job, vars>>

MCSpec ==
  /\ MCInit /\ [][MCNext]_<<job, vars, fanVars>>
  /\ job = "deliveries" => Fairness
  /\ job = "pipe" => Pipe!Fairness

\* Results land on the ledger in the order their calls were issued, also the
\* results of paths whose siblings have failed (inResolutionOrder).
ResultsInIssueOrder == Pipe!ResultsInIssueOrder

\* At the top level a fan-out comes to an end, whatever its calls do: every
\* path resolves its promise, so a failed one does not stop the later ones.
TopLevelFanOutEnds == job = "pipe" => Pipe!TopLevelFanOutEnds

\* Deliveries come to an end, whatever their calls do, unless a turn was lost
\* before theirs; those still queued when the session rejected wait for a
\* prompt.
QueuedDeliveriesEnd == job = "deliveries" => EveryDeliveryEnds

\* The invocation that fans out ends, and so does a delivery that waits behind
\* it ("Every reaction terminates", SPEC.md); within a delivery neither does.
FanOutEnds == job = "pipe" => Pipe!FanOutEnds
=============================================================================
