----------------------------- MODULE TurnQueue -----------------------------
(***************************************************************************)
(* What the turn scheduler of the interpreter promises about concurrent    *)
(* background deliveries: their provider calls overlap, but their segments *)
(* (what a handler does between two calls) take turns, first in first out. *)
(* Only the head of the queue appends; a call sends it to the back, the    *)
(* end of its delivery removes it.  Nothing here depends on when a call    *)
(* resolves, so the ledger is a function of what the handlers do.          *)
(* The promise ends with the first error that no delivery contains.        *)
(***************************************************************************)
EXTENDS Naturals, Sequences

CONSTANT Fibers      \* deliveries, numbered in submission order

VARIABLES
  queue,             \* the live fibers, in the order they get the turn
  ledger,            \* who appended, in ledger order; 0 is the top level
  broken             \* a delivery has failed with an error it does not contain

queueVars == <<queue, ledger, broken>>

\* The owners of an entry or a row.
Owner(row) == row.fiber

Init == queue = << >> /\ ledger = << >> /\ broken = FALSE

\* A batch joins the queue as a whole, in submission order, once the batch
\* before it has ended.
Submit(batch) ==
  /\ queue = << >>
  /\ batch # << >>
  /\ queue' = batch
  /\ UNCHANGED ledger

TopLevelAppends ==
  /\ queue = << >>
  /\ \E row \in {[batch |-> b, seg |-> 0, fiber |-> 0] : b \in 1 .. Len(ledger) + 1} :
       ledger' = Append(ledger, row)
  /\ UNCHANGED queue

\* The head appends, and keeps the turn, calls its provider, or ends.
HeadAppends ==
  /\ queue # << >>
  /\ Len(ledger') = Len(ledger) + 1
  /\ SubSeq(ledger', 1, Len(ledger)) = ledger
  /\ Owner(ledger'[Len(ledger')]) = Head(queue)
  /\ queue' \in {queue, Append(Tail(queue), Head(queue)), Tail(queue)}

\* Nothing is said of what comes after.
Break ==
  /\ broken' = TRUE
  /\ queue' = << >>
  /\ ledger' = << >>

Next ==
  /\ ~broken
  /\ \/ /\ \/ \E b, e \in Fibers : Submit([i \in 1 .. e - b + 1 |-> b + i - 1])
           \/ TopLevelAppends
           \/ HeadAppends
        /\ UNCHANGED broken
     \/ Break

Spec == Init /\ [][Next]_queueVars
=============================================================================
