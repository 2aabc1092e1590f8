------------------------------- MODULE Ledger -------------------------------
(* The ledger of a session (runtime.ts, class Ledger): rows are appended in  *)
(* batches that share one time, a host observes them, and a later session    *)
(* restores a ledger from rows it is given and goes on with it.  The clock   *)
(* is the system's: it may be stepped back at any time.                      *)
(*                                                                           *)
(* A row is its tick and its times; what else it says is data.  A batch with *)
(* a payload that is not JSON throws before anything is changed.             *)
EXTENDS Integers, Sequences

CONSTANTS
    MaxTime,    \* bound on the clock
    MaxRows,    \* bound on the rows of a ledger
    MaxBatch    \* bound on the entries of a batch

ASSUME LedgerAssumption == MaxTime \in Nat /\ MaxRows \in Nat /\ MaxBatch \in Nat

VARIABLES
    clock,      \* Date.now()
    rows,       \* the committed events
    originMs,   \* the time the elapsed times count from
    lastMs,     \* the time of the latest batch
    observed    \* the rows handed to the observer of this session

ledgerVars == <<clock, rows, originMs, lastMs, observed>>

\* A new ledger counts from the time it is given, which was read from the
\* clock before it was made (timingOriginMs), or is read now.
LedgerInit ==
    /\ clock \in 0..MaxTime
    /\ originMs \in 0..MaxTime
    /\ lastMs = originMs
    /\ rows = << >>
    /\ observed = << >>

\* Time passes, or the clock is set.
ClockMoves ==
    /\ clock' \in 0..MaxTime
    /\ UNCHANGED <<rows, originMs, lastMs, observed>>

AtLeast0(n) == IF n < 0 THEN 0 ELSE n

\* mutant: the time of a batch is what the clock shows
ClockTime == clock
\* A batch is not earlier than the one before it.
BatchTime == IF clock < lastMs THEN lastMs ELSE clock

\* The first row of a batch carries the time since the batch before it.
BatchRow(i) ==
    [tick |-> Len(rows) + i - 1,
     latency |-> IF i = 1 THEN AtLeast0(BatchTime - lastMs) ELSE 0,
     elapsed |-> AtLeast0(BatchTime - originMs)]

\* append is a batch of one.
AppendBatch(n) ==
    LET batch == [i \in 1..n |-> BatchRow(i)]
    IN  /\ Len(rows) + n <= MaxRows
        /\ rows' = rows \o batch
        /\ observed' = observed \o batch
        /\ lastMs' = BatchTime
        /\ UNCHANGED <<clock, originMs>>

ElapsedBefore(given, i) == IF i = 1 THEN 0 ELSE given[i - 1].elapsed

\* What restore accepts: contiguous ticks, and times that add up.
Accepts(given) ==
    \A i \in DOMAIN given :
        /\ given[i].tick = i - 1
        /\ given[i].latency >= 0 /\ given[i].elapsed >= 0
        /\ given[i].elapsed >= ElapsedBefore(given, i)
        /\ given[i].latency <= given[i].elapsed
        /\ given[i].latency = given[i].elapsed - ElapsedBefore(given, i)

\* What the reader of a recording accepts of the times beside its ledger.
TimingAccepted(given) ==
    \A i \in DOMAIN given :
        /\ given[i].latency >= 0
        /\ given[i].elapsed >= ElapsedBefore(given, i)
        /\ given[i].latency = given[i].elapsed - ElapsedBefore(given, i)

LastElapsed(given) == IF given = << >> THEN 0 ELSE given[Len(given)].elapsed

\* The rows of a prefix as they are, or as a host hands them on that does not
\* keep times (toKernelLedgerPrefix).
Timeless(given) == [i \in DOMAIN given |-> [given[i] EXCEPT !.latency = 0, !.elapsed = 0]]
Truncations == UNION {{SubSeq(rows, 1, n), Timeless(SubSeq(rows, 1, n))} : n \in 0..Len(rows)}

\* Another session restores a ledger from a prefix of the rows: its clock goes
\* on from the last elapsed time, and its observer is not told of them.
Restore(given) ==
    /\ Accepts(given)
    /\ rows' = given
    /\ originMs' = clock - LastElapsed(given)
    /\ lastMs' = clock
    /\ observed' = << >>
    /\ UNCHANGED clock

LedgerNext ==
    \/ ClockMoves
    \/ \E n \in 1..MaxBatch : AppendBatch(n)
    \/ \E given \in Truncations : Restore(given)

LedgerSpec == LedgerInit /\ [][LedgerNext]_ledgerVars

-----------------------------------------------------------------------------
\* Whatever the clock did and however often the ledger was resumed, every
\* prefix of its rows is one that restore accepts, with its times or without,
\* and its times are such as the reader of a recording accepts (Ledger.restore,
\* validateRuntimeRecording).
RowsAreAccepted == (\A given \in Truncations : Accepts(given)) /\ TimingAccepted(rows)

\* The observer was told of every row of its own session, once and in order.
ObservesOwnRows ==
    \E n \in 0..Len(rows) : observed = SubSeq(rows, n + 1, Len(rows))

\* A ledger restores what it wrote.
LedgerRestores == RowsAreAccepted /\ ObservesOwnRows
=============================================================================
