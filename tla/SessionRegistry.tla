-------------------------- MODULE SessionRegistry --------------------------
(* Studio's registry (runtime-session.ts StudioRuntimeSessionRegistry): one  *)
(* entry, whose session the clients' requests drive, and the rulings they    *)
(* give it.  Requests are read one at a time, between microtasks.            *)
EXTENDS RuntimeSession

CONSTANTS
    Create,         \* the request that creates the entry
    PromptRequests, \* request -> the prompt it sends
    Rulers,         \* request that rules -> the consult it rules
    Closers,        \* requests that close
    InitialPrompt,  \* the prompt Create carries, or NoPrompt
    NoPrompt,
    Driver          \* consult -> the driver of [security.attesters.NAME], of
                    \* the principal it asks: "none", "host" or "other"

\* The request that creates the entry is none of those that need it.
ASSUME RegistryAssumption ==
    /\ Create \notin DOMAIN PromptRequests \cup DOMAIN Rulers \cup Closers
    /\ InitialPrompt \in Prompts \cup {NoPrompt}
    /\ Driver \in [1..MaxAsks -> {"none", "host", "other"}]

Requests == {Create} \cup DOMAIN PromptRequests \cup DOMAIN Rulers \cup Closers

VARIABLES
    entry,          \* "absent", "opening", "live" or "deleted"
    active,         \* the operations whose promise is entry.active: none or one
    pending,        \* the consult to be ruled, 0 for none
    version,        \* pendingVersion
    used,           \* usedRulings
    resolved,       \* resolvedRulings: consult -> decision
    given,          \* aux: the rulings that were accepted
    closedEntry,    \* entry.closed
    waiters, woken, \* requests waiting for a notification, and notified
    request,        \* request -> where it is, what it awaits
    reply           \* request -> its response

entryVars == <<entry, active, pending, version, used, resolved, given, closedEntry,
               waiters, woken, request, reply>>

NoRequest == [at |-> "idle", op |-> "none", seen |-> 0]
Replies == {"none", "ready", "pending-ruling", "closed", "error", "refused"}

RegistryInit ==
    /\ entry = "absent" /\ active = {} /\ pending = 0 /\ version = 0
    /\ used = {} /\ resolved = [i \in 1..MaxAsks |-> Decline]
    /\ given = {} /\ closedEntry = FALSE
    /\ waiters = {} /\ woken = {}
    /\ request = [r \in Requests |-> NoRequest]
    /\ reply = [r \in Requests |-> "none"]

\* Microtasks run before the next request is read.
Drained ==
    /\ woken = {}
    /\ \A r \in Requests : request[r].at = "awaiting" => ~Ended(request[r].op)

Leaves(r, at) ==
    request' = [request EXCEPT ![r] = [NoRequest EXCEPT !.at = at, !.op = request[r].op]]

Reply(r, what) == reply' = [reply EXCEPT ![r] = what] /\ Leaves(r, "answered")

State == IF closedEntry THEN "closed" ELSE IF pending # 0 THEN "pending-ruling" ELSE "ready"

Await(r, o) ==
    /\ request' = [request EXCEPT ![r] = [at |-> "awaiting", op |-> o, seen |-> version]]
    /\ waiters' = waiters \cup {r}

\* A request that carries the capability: its client has the reply of Create.
Arrives(r) ==
    /\ request[r].at = "idle" /\ Drained
    /\ entry = "live" /\ reply[Create] \in {"ready", "pending-ruling"}

Refused(r) == Reply(r, "refused") /\ UNCHANGED <<sessionVars, active, pending, used, resolved, given, closedEntry, waiters, woken>>

-----------------------------------------------------------------------------
\* create: open the session, start it, and give it the initial prompt.
CreateArrives ==
    /\ entry = "absent" /\ entry' = "opening"
    /\ UNCHANGED <<sessionVars, active, pending, version, used, resolved,
                   given, closedEntry, waiters, woken, request, reply>>

OpenFails ==
    /\ entry = "opening" /\ entry' = "deleted"
    /\ Reply(Create, "error")
    /\ UNCHANGED <<sessionVars, active, pending, version, used, resolved,
                   given, closedEntry, waiters, woken>>

Opened ==
    /\ entry = "opening" /\ entry' = "live"
    /\ \E o \in Starts : CallStart(o) /\ active' = {o} /\ Await(Create, o)
    /\ UNCHANGED <<pending, version, used, resolved, given, closedEntry, woken, reply>>

\* A failure after the session is open deletes the entry, and the session is
\* closed before the error is reported.
CreateFails ==
    /\ entry' = "deleted"
    /\ CallClose
    /\ Leaves(Create, "abandoning")
    /\ UNCHANGED reply

Abandoned ==
    /\ request[Create].at = "abandoning" /\ life # "closing"
    /\ Reply(Create, "error")
    /\ UNCHANGED <<sessionVars, entry, active, pending, version, used, resolved,
                   given, closedEntry, waiters, woken>>

\* The started session gets the initial prompt, unless a ruling is pending.
GoesOn(o) == State = "ready" /\ o \in Starts /\ InitialPrompt # NoPrompt

BeginInitialPrompt ==
    /\ CallPrompt(InitialPrompt) /\ active' = {InitialPrompt}
    /\ Await(Create, InitialPrompt)
    /\ UNCHANGED <<entry, reply>>

\* awaitActive, notified: a newer pending ruling ends the wait.
Wake(r) ==
    /\ r \in woken /\ woken' = woken \ {r}
    /\ IF pending # 0 /\ version > request[r].seen
       THEN Reply(r, "pending-ruling") /\ UNCHANGED waiters
       ELSE waiters' = waiters \cup {r} /\ UNCHANGED <<request, reply>>
    /\ UNCHANGED <<sessionVars, entry, active, pending, version, used, resolved, given, closedEntry>>

\* awaitActive, when the operation has ended.
Complete(r) ==
    LET o == request[r].op IN
    /\ request[r].at = "awaiting" /\ Ended(o)
    /\ woken' = woken \ {r}
    /\ IF work[o] = "done" /\ r = Create /\ GoesOn(o) THEN BeginInitialPrompt
       ELSE /\ active' = active \ {o} /\ waiters' = waiters \ {r}
            /\ CASE work[o] = "done" -> Reply(r, State) /\ UNCHANGED <<sessionVars, entry>>
                 [] work[o] = "failed" /\ r = Create -> CreateFails
                 [] OTHER -> Reply(r, "error") /\ UNCHANGED <<sessionVars, entry>>
    /\ UNCHANGED <<pending, version, used, resolved, given, closedEntry>>

-----------------------------------------------------------------------------
PromptArrives(r) ==
    /\ r \in DOMAIN PromptRequests /\ Arrives(r)
    /\ IF closedEntry \/ pending # 0 \/ active # {} THEN Refused(r)
       ELSE /\ CallPrompt(PromptRequests[r])
            /\ active' = {PromptRequests[r]} /\ Await(r, PromptRequests[r])
            /\ UNCHANGED <<pending, used, resolved, given, closedEntry, woken, reply>>
    /\ UNCHANGED <<entry, version>>

\* rule: of a request not used yet and still pending.  A decision is recorded
\* under the tick of its request before the run goes on.
AnyRequest(i) == consult[i].state # "refused" \* mutant
Rulable(i) == i \notin used /\ pending = i

NothingToAwait == active = {}

RuleArrives(r, i, ruling) ==
    /\ r \in DOMAIN Rulers /\ Arrives(r) /\ i = Rulers[r] /\ i \in DOMAIN consult
    /\ IF ~Rulable(i) THEN Refused(r)
       ELSE /\ Answer(i, ruling)
            /\ resolved' = [resolved EXCEPT ![i] = ruling]
            /\ used' = used \cup {i} /\ pending' = 0
            /\ given' = given \cup {[by |-> r, consult |-> i, ruling |-> ruling]}
            /\ IF NothingToAwait THEN Reply(r, IF closedEntry THEN "closed" ELSE "ready") /\ waiters' = {}
               ELSE /\ request' = [request EXCEPT ![r] =
                          [at |-> "awaiting", op |-> CHOOSE o \in active : TRUE, seen |-> version]]
                    /\ waiters' = {r} /\ UNCHANGED reply
            /\ woken' = woken \cup waiters
            /\ UNCHANGED <<life, started, turn, work, stray, active, closedEntry>>
    /\ UNCHANGED <<entry, version>>

NotPending == pending = 0 \* mutant
CanClose == pending = 0 /\ active = {}

CloseArrives(r) ==
    /\ r \in Closers /\ Arrives(r)
    /\ CASE ~CanClose -> Refused(r)
         [] CanClose /\ closedEntry ->
              /\ Reply(r, "closed")
              /\ UNCHANGED <<sessionVars, active, pending, used, resolved, given, closedEntry, waiters, woken>>
         [] OTHER ->
              /\ CallClose
              /\ Leaves(r, "closing")
              /\ UNCHANGED <<active, pending, used, resolved, given, closedEntry, waiters, woken, reply>>
    /\ UNCHANGED <<entry, version>>

Closed(r) ==
    /\ r \in Closers /\ request[r].at = "closing" /\ life # "closing"
    /\ IF life = "closed" THEN closedEntry' = TRUE /\ Reply(r, "closed")
                          ELSE Reply(r, "error") /\ UNCHANGED closedEntry
    /\ UNCHANGED <<sessionVars, entry, active, pending, version, used, resolved,
                   given, waiters, woken>>

-----------------------------------------------------------------------------
\* pauseForRuling, called by the session: one ruling at a time, and none of a
\* principal that the user of the session may not speak for.
RefusesConsult == pending # 0

NobodyNotified == {} \* mutant
Notified == waiters

Pause(o, authorized) ==
    /\ Ask(o, CASE RefusesConsult -> "refused"
                [] ~RefusesConsult /\ ~authorized -> "answered"
                [] OTHER -> "asked")
    /\ IF RefusesConsult \/ ~authorized THEN UNCHANGED <<pending, version, waiters, woken>>
       ELSE /\ pending' = Len(consult) + 1 /\ version' = version + 1
            /\ woken' = woken \cup Notified /\ waiters' = waiters \ Notified
    /\ UNCHANGED <<entry, active, used, resolved, given, closedEntry, request, reply>>

\* verifyAttester of the interpreter takes a ruling on trust where no driver is
\* bound; that of the registry vouches for the ruling recorded for the request,
\* and for none at all under a driver that is not "host".
Vouches(i) ==
    \/ Driver[i] = "none"
    \/ Driver[i] = "host" /\ resolved[i] = consult[i].ruling

RunsOn ==
    /\ \/ SessionStep
       \/ \E i \in 1..MaxAsks : i \in DOMAIN consult /\ ApplyAnswer(i, Vouches(i))
    /\ UNCHANGED entryVars

RegistryNext ==
    \/ CreateArrives \/ OpenFails \/ Opened \/ Abandoned
    \/ \E r \in Requests :
          \/ Wake(r) \/ Complete(r) \/ PromptArrives(r) \/ CloseArrives(r) \/ Closed(r)
          \/ \E i \in 1..MaxAsks, ruling \in Decisions \cup {Decline} : RuleArrives(r, i, ruling)
    \/ \E o \in Operations, authorized \in BOOLEAN : Pause(o, authorized)
    \/ RunsOn

registryVars == <<sessionVars, entryVars>>

\* The event loop does what is due, and the user rules what is pending.  Every
\* behaviour is bounded, so one condition for each is enough.
Due ==
    \/ OpenFails \/ Opened \/ Abandoned
    \/ \E r \in Requests : Wake(r) \/ Complete(r) \/ Closed(r)
    \/ \E o \in Operations : (ServePrompt(o) \/ Proceed(o) \/ StrayEnds(o)) /\ UNCHANGED entryVars
    \/ CloseEnds /\ UNCHANGED entryVars
    \/ \E i \in 1..MaxAsks : ApplyAnswer(i, Vouches(i)) /\ UNCHANGED entryVars

UserRules ==
    \E r \in Requests, i \in 1..MaxAsks, ruling \in Decisions \cup {Decline} : RuleArrives(r, i, ruling)

RegistryFairness == WF_registryVars(Due) /\ WF_registryVars(UserRules)

-----------------------------------------------------------------------------
RegistryTypeOK ==
    /\ SessionTypeOK
    /\ entry \in {"absent", "opening", "live", "deleted"}
    /\ active \subseteq Operations /\ Cardinality(active) <= 1
    /\ pending \in 0..Len(consult) /\ version \in 0..MaxAsks
    /\ used \subseteq DOMAIN consult
    /\ waiters \subseteq Requests /\ woken \subseteq Requests
    /\ reply \in [Requests -> Replies]

\* What an accepted ruling says is what the run records, once: it is not
\* overtaken by a second ruling of the same request, and the registry's own
\* verifier rejects it afterwards exactly where the principal is bound to a
\* driver other than "host" (rule, signAttester, verifyAttester; RUNTIME.md:
\* wrong, stale, duplicate rulings fail closed).
EveryRulingStands ==
    /\ \A g \in given :
          /\ consult[g.consult].ruling = g.ruling
          /\ g.ruling # Decline => consult[g.consult].state \in
                {"answered", IF Driver[g.consult] = "other" THEN "failed" ELSE "ruled"}
          /\ \A h \in given : h.consult = g.consult => h = g
    /\ entry # "absent" => \A i \in DOMAIN consult : consult[i].state = "ruled" =>
          \E g \in given : g.consult = i /\ g.ruling # Decline

\* The run of a session never waits for a promise the registry has forgotten:
\* the only request without an answer is the pending one (pauseForRuling
\* refuses a nested request, which paths of a fan-out can make).
OneConsultAtATime ==
    entry # "absent" =>
        {i \in DOMAIN consult : consult[i].state = "asked"} = {pending} \ {0}

\* An operation's failure was answered to a client, or create is about to.
FailureTold(o) ==
    \E r \in Requests : request[r].op = o /\ (reply[r] = "error" \/ request[r].at = "abandoning")

\* No operation runs or waits its turn, and what runs all the same are paths
\* that outlive an operation whose failure some client was told.
NothingUntoldRuns ==
    /\ \A o \in Operations : ~Busy(o) /\ work[o] # "queued"
    /\ \A o \in stray : FailureTold(o)

\* A client that reads "ready" sees the whole result of what it sent: every
\* operation has ended.  It does not mean that the session is still: a path of
\* an operation that failed may run on, ask for rulings, and have them taken
\* with the reply "ready", but then its failure was reported before
\* (awaitActive, rule).
ReadyMeansDone ==
    [][\A r \in Requests : reply'[r] = "ready" /\ reply[r] = "none" =>
          NothingUntoldRuns']_registryVars

\* Once close was answered, no operation of the session is running, although
\* a prompt may arrive while close awaits the memory; close does not wait for
\* the paths of a failed operation, of which some client was told (close,
\* sendPrompt).
QuietWhenClosed == closedEntry => life = "closed" /\ NothingUntoldRuns

\* No notification is lost between a run that pauses and the request that
\* waits for it: every request gets its response (awaitActive, notify).
EveryRequestAnswered ==
    <>[](/\ entry # "opening"
         /\ \A r \in Requests : request[r].at # "idle" => reply[r] # "none")
=============================================================================
