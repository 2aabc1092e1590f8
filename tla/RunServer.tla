----------------------------- MODULE RunServer -----------------------------
(* The inspector's listening session (agape-ts/studio/server.ts: /api/listen,*)
(* /api/prompt, /api/attest, /api/session, /api/stop).  A handler starts the *)
(* work, gives it a beat, and responds with whatever state it finds.         *)
EXTENDS RuntimeSession

CONSTANTS
    Listen,         \* the request that starts the session
    Runs,           \* requests of one-shot runs (/api/run)
    PromptPosts,    \* request -> the prompt it delivers
    Attests,        \* request -> the consult it rules
    Stops

\* A request is of one kind: those that count as live runs are no others.
ASSUME ServerAssumption ==
    ({Listen} \cup Runs) \cap (DOMAIN PromptPosts \cup DOMAIN Attests) = {}

Posts == {Listen} \cup Runs \cup DOMAIN PromptPosts \cup DOMAIN Attests \cup Stops

VARIABLES
    runState,       \* of the StudioRunSession
    failed,         \* session.error is set
    shown,          \* session.pending: the consult, 0 for none
    stored,         \* sessions.get finds the session
    tracked,        \* operations whose settling will be recorded
    liveRuns,       \* activeLiveRuns
    post            \* request -> "idle", "settling" or "answered"

serverVars == <<runState, failed, shown, stored, tracked, liveRuns, post>>

ServerInit ==
    /\ runState = "running" /\ failed = FALSE /\ shown = 0
    /\ stored = FALSE /\ tracked = {} /\ liveRuns = 0
    /\ post = [r \in Posts |-> "idle"]

Respond(r) == post' = [post EXCEPT ![r] = "answered"]
Settling(r) == post' = [post EXCEPT ![r] = "settling"]
Deny(r) == Respond(r) /\ UNCHANGED <<sessionVars, runState, failed, shown, stored, tracked, liveRuns>>

-----------------------------------------------------------------------------
\* track: what has been put on the session's state machine, and its end.
Track(o) ==
    /\ tracked' = tracked \cup {o}
    /\ runState' = IF runState = "waiting" THEN "waiting" ELSE "running"

AfterDone == IF runState = "waiting" THEN "waiting" ELSE "done"

Tracked(o) ==
    /\ o \in tracked /\ Ended(o)
    /\ tracked' = tracked \ {o}
    /\ IF work[o] = "done" THEN runState' = AfterDone /\ UNCHANGED failed
                           ELSE runState' = "error" /\ failed' = TRUE
    /\ UNCHANGED <<sessionVars, shown, stored, liveRuns, post>>

-----------------------------------------------------------------------------
AtLimit == liveRuns >= 1

LivePost(r) ==
    /\ post[r] = "idle"
    /\ IF AtLimit THEN Deny(r)
       ELSE /\ liveRuns' = liveRuns + 1 /\ Settling(r)
            /\ IF r = Listen THEN /\ \E o \in Starts : CallStart(o) /\ Track(o)
                                  /\ UNCHANGED <<failed, shown, stored>>
                             ELSE UNCHANGED <<sessionVars, runState, failed, shown, stored, tracked>>

\* An error within the beat is a run that was rejected: the session is not kept.
Settled(r) ==
    /\ post[r] = "settling"
    /\ stored' = (stored \/ (r = Listen /\ runState # "error"))
    /\ Respond(r)
    /\ liveRuns' = IF r = Listen \/ r \in Runs THEN liveRuns - 1 ELSE liveRuns
    /\ UNCHANGED <<sessionVars, runState, failed, shown, tracked>>

PostPrompt(r) ==
    /\ r \in DOMAIN PromptPosts /\ post[r] = "idle" /\ post[Listen] = "answered"
    /\ IF ~stored \/ shown # 0 THEN Deny(r)
       ELSE /\ CallPrompt(PromptPosts[r]) /\ Track(PromptPosts[r]) /\ Settling(r)
            /\ UNCHANGED <<failed, shown, stored, liveRuns>>

PostAttest(r, ruling) ==
    /\ r \in DOMAIN Attests /\ post[r] = "idle" /\ Attests[r] \in DOMAIN consult
    /\ IF ~stored \/ shown # Attests[r] THEN Deny(r)
       ELSE /\ Answer(shown, ruling)
            /\ shown' = 0 /\ runState' = "running" /\ Settling(r)
            /\ UNCHANGED <<life, started, turn, work, stray, failed, stored, tracked, liveRuns>>

\* The session is forgotten; its run goes on, and nobody closes it.
PostStop(r) ==
    /\ r \in Stops /\ post[r] = "idle" /\ post[Listen] = "answered"
    /\ stored' = FALSE /\ Respond(r)
    /\ UNCHANGED <<sessionVars, runState, failed, shown, tracked, liveRuns>>

-----------------------------------------------------------------------------
\* onConsult: the request is shown, in the place of the one shown before.
Show(o) ==
    /\ Ask(o, "asked")
    /\ shown' = Len(consult) + 1 /\ runState' = "waiting"
    /\ UNCHANGED <<failed, stored, tracked, liveRuns, post>>

ServerRunsOn ==
    /\ \/ SessionStep
       \/ \E i \in 1..MaxAsks, vouched \in BOOLEAN : ApplyAnswer(i, vouched)
    /\ UNCHANGED serverVars

ServerNext ==
    \/ \E r \in {Listen} \cup Runs : LivePost(r)
    \/ \E r \in Posts : Settled(r) \/ PostPrompt(r) \/ PostStop(r)
                        \/ \E ruling \in Decisions \cup {Decline} : PostAttest(r, ruling)
    \/ \E o \in Operations : Tracked(o) \/ Show(o)
    \/ ServerRunsOn

-----------------------------------------------------------------------------
\* A run that waits says for what, and what it shows can still be ruled; and
\* unless something failed, the end of another operation does not declare a
\* waiting run done, nor does a prompt that arrives (track, onConsult).
WaitingShowsItsRequest ==
    /\ runState = "waiting" => shown # 0
    /\ shown # 0 => /\ consult[shown].state = "asked"
                    /\ runState = "waiting" \/ failed
=============================================================================
