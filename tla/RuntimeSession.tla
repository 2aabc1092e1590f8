--------------------------- MODULE RuntimeSession ---------------------------
(* One session of the interpreter as its hosts drive it (interp.ts start,    *)
(* sendPrompt, close and the consult of principalRule).  An operation is a   *)
(* call of start or sendPrompt; what it evaluates is reduced to the rulings  *)
(* it asks its host for, and to how it ends.                                 *)
EXTENDS Naturals, Sequences, FiniteSets

CONSTANTS
    Starts,         \* calls of start
    Prompts,        \* calls of sendPrompt
    MaxAsks,        \* bound: rulings the session asks for
    Decisions,      \* variants a principal may rule
    MayFail         \* what may fail: "throw", "close"

ASSUME SessionAssumption == Starts \cap Prompts = {} /\ MaxAsks \in Nat

Operations == Starts \cup Prompts

VARIABLES
    life,           \* closed and closePromise: "open", "closing", "closed"
    started,
    turn,           \* promptTurnChain: prompts, the head is being served
    work,           \* operation -> where it is
    stray,          \* operations that failed and still have paths that run
    consult         \* the requests for a ruling, in order of their rows

sessionVars == <<life, started, turn, work, stray, consult>>

Phases == {"statements", "delivering"}
Busy(o) == work[o] \in Phases
Ended(o) == work[o] \in {"done", "failed"}
Decline == "decline"

\* asked: the host holds the promise; answered: it resolved it; ruled and
\* failed: the row that answers the request is in the ledger; refused: the
\* host threw.
Consults == [op : Operations, ruling : Decisions \cup {Decline},
             state : {"asked", "answered", "ruled", "failed", "refused"}]

Open(i) == consult[i].state \in {"asked", "answered"}
Waits(o) == \E i \in DOMAIN consult : consult[i].op = o /\ Open(i)

SessionInit ==
    /\ life = "open" /\ started = FALSE
    /\ turn = << >> /\ consult = << >>
    /\ work = [o \in Operations |-> "idle"]
    /\ stray = {}

Move(o, at) == work' = [work EXCEPT ![o] = at]

-----------------------------------------------------------------------------
\* start: a second call returns a snapshot, however far the first one is.
CallStart(o) ==
    /\ o \in Starts /\ work[o] = "idle"
    /\ CASE life # "open" -> Move(o, "failed") /\ UNCHANGED started
         [] life = "open" /\ started -> Move(o, "done") /\ UNCHANGED started
         [] OTHER -> Move(o, "statements") /\ started' = TRUE
    /\ UNCHANGED <<life, turn, stray, consult>>

\* sendPrompt: prompts are served one after the other.
CallPrompt(o) ==
    /\ o \in Prompts /\ work[o] = "idle"
    /\ IF life # "open" THEN Move(o, "failed") /\ UNCHANGED turn
                        ELSE Move(o, "queued") /\ turn' = Append(turn, o)
    /\ UNCHANGED <<life, started, stray, consult>>

ServePrompt(o) ==
    /\ turn # << >> /\ Head(turn) = o /\ work[o] = "queued"
    /\ CASE life # "open" -> Move(o, "failed") /\ turn' = Tail(turn) /\ UNCHANGED started
         [] life = "open" /\ started -> Move(o, "delivering") /\ UNCHANGED <<turn, started>>
         [] OTHER -> Move(o, "statements") /\ started' = TRUE /\ UNCHANGED turn
    /\ UNCHANGED <<life, stray, consult>>

\* release() in the finally of sendPrompt.
Leave(o) == turn' = IF o \in Prompts THEN Tail(turn) ELSE turn

Proceed(o) ==
    /\ Busy(o) /\ ~Waits(o)
    /\ IF o \in Prompts /\ work[o] = "statements"
       THEN Move(o, "delivering") /\ UNCHANGED turn
       ELSE Move(o, "done") /\ Leave(o)
    /\ UNCHANGED <<life, started, stray, consult>>

\* A path of a fan-out that throws fails the operation at once; Promise.all
\* lets the other paths run on, those that wait for a ruling and those that
\* wait for a provider.
Fails(o) ==
    /\ Move(o, "failed") /\ Leave(o)
    /\ stray' \in {stray \cup {o}} \cup (IF Waits(o) THEN {} ELSE {stray})

Throw(o) ==
    /\ "throw" \in MayFail
    /\ Busy(o) /\ Fails(o)
    /\ UNCHANGED <<life, started, consult>>

StrayEnds(o) ==
    /\ o \in stray /\ ~Waits(o)
    /\ stray' = stray \ {o}
    /\ UNCHANGED <<life, started, turn, work, consult>>

\* principalRule appends its PendingPrincipalDecision row and calls onConsult
\* before anything else can run; the host takes the request ("asked"), answers
\* it at once without a ruling, or throws ("refused").
Ask(o, how) ==
    /\ Busy(o) \/ o \in stray
    /\ Len(consult) < MaxAsks
    /\ consult' = Append(consult, [op |-> o, ruling |-> Decline, state |-> how])
    /\ IF how # "refused" THEN UNCHANGED <<turn, work, stray>>
       ELSE IF Busy(o)
            THEN Fails(o)
            ELSE UNCHANGED <<turn, work, stray>>
    /\ UNCHANGED <<life, started>>

Answer(i, ruling) ==
    consult' = [consult EXCEPT ![i].state = "answered", ![i].ruling = ruling]

\* applyRuling: a decline fails closed, and so does a ruling whose attester is
\* rejected.
ApplyAnswer(i, vouched) ==
    /\ i \in DOMAIN consult /\ consult[i].state = "answered"
    /\ consult' = [consult EXCEPT ![i].state =
                      IF consult[i].ruling # Decline /\ vouched THEN "ruled" ELSE "failed"]
    /\ UNCHANGED <<life, started, turn, work, stray>>

\* close: concurrent callers share one attempt, and a failed one can be retried.
CallClose ==
    /\ life' = IF life = "open" THEN "closing" ELSE life
    /\ UNCHANGED <<started, turn, work, stray, consult>>

CloseEnds ==
    /\ life = "closing"
    /\ life' \in {"closed"} \cup (IF "close" \in MayFail THEN {"open"} ELSE {})
    /\ UNCHANGED <<started, turn, work, stray, consult>>

SessionStep ==
    \/ \E o \in Prompts : ServePrompt(o)
    \/ \E o \in Operations : Proceed(o) \/ Throw(o) \/ StrayEnds(o)
    \/ CloseEnds

SessionTypeOK ==
    /\ life \in {"open", "closing", "closed"} /\ started \in BOOLEAN
    /\ turn \in Seq(Prompts) /\ stray \subseteq Operations
    /\ work \in [Operations -> {"idle", "queued", "done", "failed"} \cup Phases]
    /\ consult \in Seq(Consults)
=============================================================================
