---------------------------- MODULE Studio_proofs ----------------------------
(* Theorems about the services of Studio, for any sets of requests, prompts, *)
(* decisions and saves, and any number of rulings: what the registry makes   *)
(* of the rulings it is given, what its replies promise, and which source a  *)
(* flow save replaces.                                                       *)
EXTENDS MCStudio, FiniteSetTheorems, SequenceTheorems, TLAPS

-----------------------------------------------------------------------------
(* The session, under whichever host.                                        *)

\* An operation that runs, or waits for its turn to.
Going(o) == work[o] \in Phases \cup {"queued"}

\* The prompt that runs is the head of the chain: its end hands on the turn.
HeadIsServed == \A o \in Prompts : Busy(o) => turn # << >> /\ Head(turn) = o

\* Paths outlive only an operation that failed.
StraysFailed == \A o \in stray : work[o] = "failed"

SessionInv == SessionTypeOK /\ Len(consult) <= MaxAsks /\ HeadIsServed /\ StraysFailed

-----------------------------------------------------------------------------
(* The registry.                                                             *)

Wheres == {"idle", "awaiting", "answered", "abandoning", "closing"}
RequestRecord == [at : Wheres, op : Operations \cup {"none"}, seen : Nat]
Rulings == [by : Requests, consult : 1..MaxAsks, ruling : Decisions \cup {Decline}]
Awaiting(r) == request[r].at = "awaiting"

EntryTypeOK ==
  /\ entry \in {"absent", "opening", "live", "deleted"}
  /\ active \subseteq Operations /\ \A o, p \in active : o = p
  /\ pending \in 0..Len(consult) /\ version \in 0..Len(consult)
  /\ used \subseteq DOMAIN consult
  /\ resolved \in [1..MaxAsks -> Decisions \cup {Decline}]
  /\ given \subseteq Rulings
  /\ closedEntry \in BOOLEAN
  /\ request \in [Requests -> RequestRecord]
  /\ reply \in [Requests -> Replies]

\* What runs in the session is what the entry has as its active operation.
GoingIsActive == \A o \in Operations : Going(o) => o \in active

\* A reply is for good.
RepliesStay == \A r \in Requests : reply[r] # "none" => request[r].at = "answered"

\* Who awaits an operation that failed, and left paths behind, will be told.
StraysAreTold == \A o \in stray : o \in active \/ FailureTold(o)

\* Nobody else has the capability before the reply of Create.
CreateIsFirst ==
  /\ reply[Create] = "none" => \A r \in Requests \ {Create} : request[r].at = "idle"
  /\ request[Create].at \in {"awaiting", "abandoning"} => reply[Create] = "none"
  /\ entry \in {"absent", "opening"} =>
       active = {} /\ reply[Create] = "none" /\ request[Create].at = "idle"

\* Who awaits an operation awaits the active one, or one that has ended.
AwaitsTheActive ==
  \A r \in Requests : Awaiting(r) =>
    /\ request[r].op \in Operations
    /\ active \subseteq {request[r].op}
    /\ ~Ended(request[r].op) => request[r].op \in active

WaitersAwait ==
  /\ waiters \cup woken \subseteq {r \in Requests : Awaiting(r)}
  /\ waiters \cap woken = {}

\* The pending request is the one the session's run is held by.
PendingIsAsked == \A i \in DOMAIN consult : consult[i].state = "asked" <=> i = pending

\* What may become of an accepted ruling.
Fates(i) == {"answered", IF Driver[i] = "other" THEN "failed" ELSE "ruled"}

\* What was accepted of a request is its ruling, and nothing else rules it.
RulingsAreGiven ==
  /\ \A g \in given :
       /\ g.consult \in used
       /\ consult[g.consult].ruling = g.ruling /\ resolved[g.consult] = g.ruling
       /\ g.ruling # Decline => consult[g.consult].state \in Fates(g.consult)
       /\ \A h \in given : h.consult = g.consult => h = g
  /\ \A i \in DOMAIN consult :
       /\ consult[i].state = "ruled" => consult[i].ruling # Decline
       /\ consult[i].state \in {"answered", "ruled"} /\ consult[i].ruling # Decline =>
            \E g \in given : g.consult = i

\* Once close has begun, and unless it fails, no operation runs; paths that do
\* are not of the active one.
ClosingIsQuiet ==
  /\ closedEntry => life = "closed"
  /\ life # "open" => \A o \in Operations : ~Going(o) /\ (o \in active => o \notin stray)

RegistryInv ==
  /\ EntryTypeOK
  /\ GoingIsActive
  /\ RepliesStay
  /\ StraysAreTold
  /\ CreateIsFirst
  /\ AwaitsTheActive
  /\ WaitersAwait
  /\ PendingIsAsked
  /\ RulingsAreGiven
  /\ ClosingIsQuiet

\* The registry has not begun: another service drives the session.
NoEntry ==
  /\ entry = "absent" /\ active = {} /\ pending = 0 /\ version = 0 /\ used = {}
  /\ given = {} /\ closedEntry = FALSE /\ waiters = {} /\ woken = {}
  /\ reply \in [Requests -> Replies]

-----------------------------------------------------------------------------
(* The listening session of the inspector, and the flow saves.               *)

LivePosts == {Listen} \cup Runs

\* activeLiveRuns counts the posts that have started and not settled.
LiveRunsCounted ==
  /\ liveRuns \in 0..1
  /\ liveRuns = 0 => \A r \in LivePosts : post[r] # "settling"
  /\ \A r, q \in LivePosts : post[r] = "settling" /\ post[q] = "settling" => r = q

ServerInv ==
  /\ runState \in {"running", "waiting", "done", "error"}
  /\ failed \in BOOLEAN
  /\ shown \in 0..Len(consult) /\ tracked \subseteq Operations
  /\ post \in [Posts -> {"idle", "settling", "answered"}]
  /\ LiveRunsCounted
  /\ WaitingShowsItsRequest

\* The listening session has not begun.
NoServer == ServerInv /\ shown = 0 /\ runState = "running"

SaveRecord == [at : Steps, base : Sources, new : Sources, current : Sources]

FlowInv ==
  /\ file \in Sources /\ queue \in Seq(Saves) /\ save \in [Saves -> SaveRecord]
  /\ \A s \in Saves :
       /\ save[s].at \in {"checking", "graphing"} => First(s)
       /\ save[s].at = "checking" => save[s].current = save[s].base

StudioInv ==
  /\ SessionInv
  /\ IF service = "registry" THEN RegistryInv ELSE NoEntry
  /\ IF service = "server" THEN ServerInv ELSE NoServer
  /\ FlowInv
-----------------------------------------------------------------------------
(* What each step of a session does, whoever drives it.                      *)

\* Operations end for good, and only one that is called begins, of an open session.
Calm(called) ==
  \A o \in Operations :
    /\ work'[o] \in Phases \cup {"queued"} => Going(o) \/ (o \in called /\ life = "open")
    /\ Ended(o) => work'[o] \in {"done", "failed"}
    /\ o \in stray' => o \in stray \/ Going(o)

LEMMA StartKept ==
  ASSUME SessionInv, NEW o, CallStart(o)
  PROVE  /\ SessionInv' /\ Calm({o}) /\ life' = life /\ consult' = consult
         /\ o \in Operations /\ o \notin stray'
<1>1. /\ o \in Starts /\ o \in Operations /\ o \notin Prompts
      /\ work \in [Operations -> {"idle", "queued", "done", "failed"} \cup Phases]
  BY SessionAssumption DEF CallStart, Operations, SessionInv, SessionTypeOK
<1>2. PICK at \in {"failed", "done", "statements"} :
        /\ work' = [work EXCEPT ![o] = at] /\ work[o] = "idle"
        /\ at = "statements" => life = "open"
        /\ started' \in BOOLEAN
        /\ UNCHANGED <<life, turn, stray, consult>>
  BY DEF CallStart, Move, SessionInv, SessionTypeOK
<1>3. work' \in [Operations -> {"idle", "queued", "done", "failed"} \cup Phases]
  BY <1>1, <1>2 DEF Phases
<1>4. SessionInv'
  <2>1. SessionTypeOK' BY <1>2, <1>3 DEF SessionInv, SessionTypeOK
  <2>2. HeadIsServed'
    <3>1. \A p \in Prompts : p \in Operations /\ p # o BY <1>1 DEF Operations
    <3>2. \A p \in Prompts : work'[p] = work[p] BY <1>1, <1>2, <3>1
    <3> QED BY <1>2, <3>2 DEF SessionInv, HeadIsServed, Busy
  <2>3. StraysFailed'
    BY <1>1, <1>2 DEF SessionInv, SessionTypeOK, StraysFailed
  <2> QED BY <1>2, <2>1, <2>2, <2>3 DEF SessionInv
<1>5. Calm({o})
  BY <1>1, <1>2 DEF Calm, Going, Ended, Phases
<1>6. o \notin stray' BY <1>2 DEF SessionInv, StraysFailed
<1> QED BY <1>1, <1>2, <1>4, <1>5, <1>6

LEMMA PromptKept ==
  ASSUME SessionInv, NEW o, CallPrompt(o)
  PROVE  /\ SessionInv' /\ Calm({o}) /\ life' = life /\ consult' = consult
         /\ o \in Operations /\ o \notin stray'
<1>1. /\ o \in Prompts /\ o \in Operations /\ work[o] = "idle"
      /\ work \in [Operations -> {"idle", "queued", "done", "failed"} \cup Phases]
      /\ turn \in Seq(Prompts)
  BY DEF CallPrompt, Operations, SessionInv, SessionTypeOK
<1>2. PICK at \in {"failed", "queued"} :
        /\ work' = [work EXCEPT ![o] = at]
        /\ at = "queued" => life = "open"
        /\ turn' = turn \/ turn' = Append(turn, o)
        /\ UNCHANGED <<life, started, stray, consult>>
  BY DEF CallPrompt, Move
<1>3. work' \in [Operations -> {"idle", "queued", "done", "failed"} \cup Phases]
  BY <1>1, <1>2
<1>4. turn' \in Seq(Prompts) /\ (turn # << >> => turn' # << >> /\ Head(turn') = Head(turn))
  <2>1. CASE turn' = turn BY <1>1, <2>1
  <2>2. CASE turn' = Append(turn, o) BY <1>1, <2>2, AppendProperties, HeadTailAppend
  <2> QED BY <1>2, <2>1, <2>2
<1>5. SessionInv'
  <2>1. SessionTypeOK' BY <1>2, <1>3, <1>4 DEF SessionInv, SessionTypeOK
  <2>2. HeadIsServed'
    <3>1. \A p \in Prompts : work'[p] \in Phases => work[p] \in Phases
      BY <1>1, <1>2 DEF Operations, Phases
    <3> QED BY <1>4, <3>1 DEF SessionInv, HeadIsServed, Busy
  <2>3. StraysFailed'
    BY <1>1, <1>2 DEF SessionInv, SessionTypeOK, StraysFailed
  <2> QED BY <1>2, <2>1, <2>2, <2>3 DEF SessionInv
<1>6. Calm({o})
  BY <1>1, <1>2 DEF Calm, Going, Ended, Phases
<1>7. o \notin stray' BY <1>1, <1>2 DEF SessionInv, StraysFailed
<1> QED BY <1>1, <1>2, <1>5, <1>6, <1>7

\* An operation that ran has ended: the turn goes to the next prompt.
LEMMA LeaveKept ==
  ASSUME SessionInv, NEW o \in Operations, Busy(o), NEW at \in {"done", "failed"},
         Move(o, at), Leave(o), life' = life, started' = started,
         stray' \in {stray} \cup (IF at = "failed" THEN {stray \cup {o}} ELSE {}),
         consult' \in Seq(Consults), Len(consult') <= MaxAsks
  PROVE  SessionInv' /\ Calm({})
<1>1. /\ work \in [Operations -> {"idle", "queued", "done", "failed"} \cup Phases]
      /\ turn \in Seq(Prompts) /\ work' = [work EXCEPT ![o] = at]
  BY DEF Move, SessionInv, SessionTypeOK
<1>2. work' \in [Operations -> {"idle", "queued", "done", "failed"} \cup Phases]
  BY <1>1
<1>3. \A p \in Operations : work'[p] = IF p = o THEN at ELSE work[p] BY <1>1
<1>4. o \in Prompts => turn # << >> /\ Head(turn) = o BY DEF SessionInv, HeadIsServed
<1>5. turn' \in Seq(Prompts)
  <2>1. CASE o \in Prompts BY <1>1, <1>4, <2>1, HeadTailProperties DEF Leave
  <2>2. CASE o \notin Prompts BY <1>1, <2>2 DEF Leave
  <2> QED BY <2>1, <2>2
<1>6. SessionTypeOK'
  <2>1. stray' \subseteq Operations BY DEF SessionInv, SessionTypeOK
  <2> QED BY <1>2, <1>5, <2>1 DEF SessionInv, SessionTypeOK
<1>7. HeadIsServed'
  <2>1. SUFFICES ASSUME NEW p \in Prompts, work'[p] \in Phases
                 PROVE  turn' # << >> /\ Head(turn') = p
    BY DEF HeadIsServed, Busy
  <2>2. p # o /\ work[p] \in Phases BY <1>3, <2>1 DEF Operations, Phases
  <2>3. turn # << >> /\ Head(turn) = p BY <2>2 DEF SessionInv, HeadIsServed, Busy
  <2>4. o \notin Prompts BY <1>4, <2>2, <2>3
  <2> QED BY <2>3, <2>4 DEF Leave
<1>8. Calm({})
  BY <1>3 DEF Calm, Going, Ended, Phases, Busy
<1>9. StraysFailed'
  <2>1. stray \subseteq Operations /\ \A p \in stray : work[p] = "failed"
    BY DEF SessionInv, SessionTypeOK, StraysFailed
  <2>2. work[o] # "failed" BY DEF Busy, Phases
  <2>3. \A p \in stray : work'[p] = "failed" BY <1>3, <2>1, <2>2
  <2> QED BY <1>3, <2>3 DEF StraysFailed
<1> QED BY <1>6, <1>7, <1>8, <1>9 DEF SessionInv

LEMMA StepKept ==
  ASSUME SessionInv, SessionStep
  PROVE  /\ SessionInv' /\ Calm({}) /\ consult' = consult
         /\ life' = life \/ (life = "closing" /\ life' \in {"closed", "open"})
<1>1. /\ work \in [Operations -> {"idle", "queued", "done", "failed"} \cup Phases]
      /\ stray \subseteq Operations /\ consult \in Seq(Consults) /\ Len(consult) <= MaxAsks
  BY DEF SessionInv, SessionTypeOK
<1>2. ASSUME NEW o \in Prompts, ServePrompt(o)
      PROVE  SessionInv' /\ Calm({}) /\ consult' = consult /\ life' = life
  <2>1. /\ o \in Operations /\ work[o] = "queued" /\ turn # << >> /\ Head(turn) = o
        /\ turn \in Seq(Prompts) /\ UNCHANGED <<life, stray, consult>>
    BY <1>2 DEF ServePrompt, Operations, SessionInv, SessionTypeOK
  <2>2. PICK at \in {"failed", "delivering", "statements"} :
          /\ work' = [work EXCEPT ![o] = at]
          /\ started' \in BOOLEAN
          /\ IF at = "failed" THEN turn' = Tail(turn) ELSE turn' = turn
    BY <1>2 DEF ServePrompt, Move, SessionInv, SessionTypeOK
  <2>3. work' \in [Operations -> {"idle", "queued", "done", "failed"} \cup Phases]
    BY <1>1, <2>2 DEF Phases
  <2>4. \A p \in Operations : work'[p] = IF p = o THEN at ELSE work[p] BY <1>1, <2>2
  <2>5. turn' \in Seq(Prompts) BY <2>1, <2>2, HeadTailProperties
  <2>6. SessionTypeOK' BY <2>1, <2>2, <2>3, <2>5 DEF SessionInv, SessionTypeOK
  <2>7. HeadIsServed'
    <3>1. SUFFICES ASSUME NEW p \in Prompts, work'[p] \in Phases
                   PROVE  turn' # << >> /\ Head(turn') = p
      BY DEF HeadIsServed, Busy
    <3>2. p \in Operations BY DEF Operations
    <3>3. CASE p = o BY <2>1, <2>2, <2>4, <3>1, <3>2, <3>3 DEF Phases
    <3>4. CASE p # o
      <4>1. work[p] \in Phases BY <2>4, <3>1, <3>2, <3>4
      <4>2. Head(turn) = p BY <4>1 DEF SessionInv, HeadIsServed, Busy
      <4> QED BY <2>1, <3>4, <4>2
    <3> QED BY <3>3, <3>4
  <2>8. Calm({})
    BY <2>1, <2>4 DEF Calm, Going, Ended, Phases
  <2>9. StraysFailed' BY <2>1, <2>4, <1>1 DEF SessionInv, StraysFailed
  <2> QED BY <2>1, <2>6, <2>7, <2>8, <2>9 DEF SessionInv
<1>3. ASSUME NEW o \in Operations, Proceed(o)
      PROVE  SessionInv' /\ Calm({}) /\ consult' = consult /\ life' = life
  <2>1. Busy(o) /\ UNCHANGED <<life, started, stray, consult>> BY <1>3 DEF Proceed
  <2>2. CASE o \in Prompts /\ work[o] = "statements"
    <3>1. work' = [work EXCEPT ![o] = "delivering"] /\ turn' = turn
      BY <1>3, <2>2 DEF Proceed, Move
    <3>2. work' \in [Operations -> {"idle", "queued", "done", "failed"} \cup Phases]
      BY <1>1, <3>1 DEF Phases
    <3>3. \A p \in Operations : work'[p] \in Phases => work[p] \in Phases
      BY <1>1, <2>1, <3>1 DEF Busy
    <3>4. HeadIsServed'
      BY <3>1, <3>3 DEF SessionInv, HeadIsServed, Busy, Operations
    <3>5. Calm({})
      BY <1>1, <2>1, <2>2, <3>1 DEF Calm, Going, Ended, Phases
    <3>6. StraysFailed' BY <1>1, <2>1, <2>2, <3>1 DEF SessionInv, StraysFailed
    <3> QED BY <2>1, <3>1, <3>2, <3>4, <3>5, <3>6 DEF SessionInv, SessionTypeOK
  <2>3. CASE ~(o \in Prompts /\ work[o] = "statements")
    <3>1. Move(o, "done") /\ Leave(o) BY <1>3, <2>3 DEF Proceed
    <3>2. "done" \in {"done", "failed"} OBVIOUS
    <3> QED BY <1>1, <2>1, <3>1, <3>2, LeaveKept
  <2> QED BY <2>2, <2>3
<1>4. ASSUME NEW o \in Operations, Throw(o)
      PROVE  SessionInv' /\ Calm({}) /\ consult' = consult /\ life' = life
  <2>1. /\ Busy(o) /\ Move(o, "failed") /\ Leave(o) /\ stray' \in {stray, stray \cup {o}}
        /\ UNCHANGED <<life, started, consult>>
    BY <1>4 DEF Throw, Fails
  <2>2. "failed" \in {"done", "failed"} OBVIOUS
  <2> QED BY <1>1, <2>1, <2>2, LeaveKept
<1>5. ASSUME NEW o \in Operations, StrayEnds(o)
      PROVE  SessionInv' /\ Calm({}) /\ consult' = consult /\ life' = life
  <2>1. /\ stray' \subseteq Operations /\ stray' \subseteq stray
        /\ UNCHANGED <<life, started, turn, work, consult>>
    BY <1>1, <1>5 DEF StrayEnds
  <2> QED BY <2>1 DEF SessionInv, SessionTypeOK, HeadIsServed, StraysFailed, Busy, Calm, Going, Ended
<1>6. ASSUME CloseEnds
      PROVE  /\ SessionInv' /\ Calm({}) /\ consult' = consult
             /\ life = "closing" /\ life' \in {"closed", "open"}
  <2>1. /\ life = "closing" /\ life' \in {"closed", "open"}
        /\ UNCHANGED <<started, turn, work, stray, consult>>
    BY <1>6 DEF CloseEnds
  <2> QED BY <2>1 DEF SessionInv, SessionTypeOK, HeadIsServed, StraysFailed, Busy, Calm, Going, Ended
<1> QED BY <1>2, <1>3, <1>4, <1>5, <1>6 DEF SessionStep

LEMMA AskKept ==
  ASSUME SessionInv, NEW o \in Operations, NEW how \in {"asked", "answered", "refused"},
         Ask(o, how)
  PROVE  /\ SessionInv' /\ Calm({}) /\ life' = life
         /\ Len(consult') = Len(consult) + 1
         /\ \A i \in 1..Len(consult) : consult'[i] = consult[i]
         /\ consult'[Len(consult) + 1] = [op |-> o, ruling |-> Decline, state |-> how]
<1> PICK row : row = [op |-> o, ruling |-> Decline, state |-> how] OBVIOUS
<1>1. /\ consult \in Seq(Consults) /\ stray \subseteq Operations /\ row \in Consults
      /\ Len(consult) < MaxAsks /\ consult' = Append(consult, row)
  BY DEF SessionInv, SessionTypeOK, Ask, Consults
<1>2. /\ consult' \in Seq(Consults)
      /\ Len(consult') = Len(consult) + 1
      /\ \A i \in 1..Len(consult) : consult'[i] = consult[i]
      /\ consult'[Len(consult) + 1] = row
  BY <1>1, AppendProperties
<1>3. Len(consult') <= MaxAsks BY <1>1, <1>2, LenProperties, SessionAssumption
<1>4. life' = life /\ started' = started BY DEF Ask
<1>5. SessionInv' /\ Calm({})
  <2>1. CASE UNCHANGED <<turn, work, stray>>
    BY <1>2, <1>3, <1>4, <2>1
    DEF SessionInv, SessionTypeOK, HeadIsServed, StraysFailed, Busy, Calm, Going, Ended
  <2>2. CASE Busy(o) /\ Fails(o)
    <3>1. Move(o, "failed") /\ Leave(o) /\ stray' \in {stray, stray \cup {o}}
      BY <2>2 DEF Fails
    <3>2. "failed" \in {"done", "failed"} OBVIOUS
    <3> QED BY <1>2, <1>3, <1>4, <2>2, <3>1, <3>2, LeaveKept
  <2> QED BY <2>1, <2>2 DEF Ask
<1> QED BY <1>2, <1>4, <1>5

\* A request that changes leaves the session, and the other requests, as they are.
LEMMA ConsultKept ==
  ASSUME SessionInv, NEW i \in DOMAIN consult, NEW row \in Consults,
         consult' = [consult EXCEPT ![i] = row],
         UNCHANGED <<life, started, turn, work, stray>>
  PROVE  /\ SessionInv' /\ Calm({}) /\ life' = life
         /\ Len(consult') = Len(consult) /\ DOMAIN consult' = DOMAIN consult
         /\ \A j \in DOMAIN consult : consult'[j] = IF j = i THEN row ELSE consult[j]
<1>1. consult \in Seq(Consults) /\ DOMAIN consult = 1..Len(consult)
  BY LenProperties DEF SessionInv, SessionTypeOK
<1>2. /\ consult' \in Seq(Consults) /\ Len(consult') = Len(consult)
      /\ \A j \in 1..Len(consult) : consult'[j] = IF j = i THEN row ELSE consult[j]
  BY <1>1, ExceptSeq
<1>3. DOMAIN consult' = 1..Len(consult') BY <1>2, LenProperties
<1>4. SessionInv' /\ Calm({})
  BY <1>2 DEF SessionInv, SessionTypeOK, HeadIsServed, StraysFailed, Busy, Calm, Going, Ended
<1> QED BY <1>1, <1>2, <1>3, <1>4

LEMMA AnswerKept ==
  ASSUME SessionInv, NEW i \in DOMAIN consult, NEW ruling \in Decisions \cup {Decline},
         Answer(i, ruling), UNCHANGED <<life, started, turn, work, stray>>
  PROVE  /\ SessionInv' /\ Calm({}) /\ life' = life
         /\ Len(consult') = Len(consult) /\ DOMAIN consult' = DOMAIN consult
         /\ \A j \in DOMAIN consult : j # i => consult'[j] = consult[j]
         /\ consult'[i].state = "answered" /\ consult'[i].ruling = ruling
<1>1. consult \in Seq(Consults) /\ consult[i] \in Consults
  BY ElementOfSeq, LenProperties DEF SessionInv, SessionTypeOK
<1> PICK row : row = [op |-> consult[i].op, ruling |-> ruling, state |-> "answered"] OBVIOUS
<1>2. row \in Consults BY <1>1 DEF Consults
<1>3. consult' = [consult EXCEPT ![i] = row]
  <2>1. row = [consult[i] EXCEPT !.state = "answered", !.ruling = ruling]
    <3>1. PICK c : c = consult[i] OBVIOUS
    <3>2. c = [op |-> c.op, ruling |-> c.ruling, state |-> c.state] BY <1>1, <3>1 DEF Consults
    <3>3. [c EXCEPT !.state = "answered"] = [op |-> c.op, ruling |-> c.ruling, state |-> "answered"]
      BY <3>2
    <3>4. [[op |-> c.op, ruling |-> c.ruling, state |-> "answered"] EXCEPT !.ruling = ruling]
            = [op |-> c.op, ruling |-> ruling, state |-> "answered"]
      OBVIOUS
    <3> QED BY <3>1, <3>3, <3>4
  <2>2. consult' = [consult EXCEPT ![i] = [consult[i] EXCEPT !.state = "answered", !.ruling = ruling]]
    BY DEF Answer
  <2> QED BY <2>1, <2>2
<1> QED BY <1>2, <1>3, ConsultKept

LEMMA ApplyKept ==
  ASSUME SessionInv, NEW i, NEW vouched \in BOOLEAN, ApplyAnswer(i, vouched)
  PROVE  /\ SessionInv' /\ Calm({}) /\ life' = life
         /\ i \in DOMAIN consult /\ consult[i].state = "answered"
         /\ Len(consult') = Len(consult) /\ DOMAIN consult' = DOMAIN consult
         /\ \A j \in DOMAIN consult : j # i => consult'[j] = consult[j]
         /\ consult'[i].ruling = consult[i].ruling
         /\ consult'[i].state = IF consult[i].ruling # Decline /\ vouched THEN "ruled" ELSE "failed"
<1>1. /\ consult \in Seq(Consults) /\ i \in DOMAIN consult /\ consult[i].state = "answered"
      /\ consult[i] \in Consults /\ UNCHANGED <<life, started, turn, work, stray>>
  BY ElementOfSeq, LenProperties DEF SessionInv, SessionTypeOK, ApplyAnswer
<1> PICK at : at = IF consult[i].ruling # Decline /\ vouched THEN "ruled" ELSE "failed" OBVIOUS
<1> PICK row : row = [op |-> consult[i].op, ruling |-> consult[i].ruling, state |-> at] OBVIOUS
<1>2. row \in Consults BY <1>1 DEF Consults
<1>3. consult' = [consult EXCEPT ![i] = row]
  <2>1. row = [consult[i] EXCEPT !.state = at]
    BY <1>1 DEF Consults
  <2>2. consult' = [consult EXCEPT ![i] = [consult[i] EXCEPT !.state = at]]
    BY DEF ApplyAnswer
  <2> QED BY <2>1, <2>2
<1>4. /\ SessionInv' /\ Calm({}) /\ life' = life
      /\ Len(consult') = Len(consult) /\ DOMAIN consult' = DOMAIN consult
      /\ \A j \in DOMAIN consult : consult'[j] = IF j = i THEN row ELSE consult[j]
  BY <1>1, <1>2, <1>3, ConsultKept
<1> QED BY <1>1, <1>4

LEMMA CloseKept ==
  ASSUME SessionInv, CallClose
  PROVE  /\ SessionInv' /\ Calm({}) /\ consult' = consult
         /\ life = "closed" => life' = "closed"
<1>1. /\ life' = (IF life = "open" THEN "closing" ELSE life)
      /\ UNCHANGED <<started, turn, work, stray, consult>>
  BY DEF CallClose
<1> QED BY <1>1 DEF SessionInv, SessionTypeOK, HeadIsServed, StraysFailed, Busy, Calm, Going, Ended

-----------------------------------------------------------------------------
(* The registry: what becomes of the requests.                               *)

LEMMA Placed ==
  ASSUME NEW r \in Requests, NEW record \in RequestRecord,
         request \in [Requests -> RequestRecord],
         request' = [request EXCEPT ![r] = record]
  PROVE  /\ request' \in [Requests -> RequestRecord]
         /\ \A q \in Requests : request'[q] = IF q = r THEN record ELSE request[q]
OBVIOUS

\* A request that awaits no longer keeps the operation it was about.
LEMMA LeftKept ==
  ASSUME NEW r \in Requests, NEW at, Leaves(r, at)
  PROVE  request' = [request EXCEPT ![r] = [at |-> at, op |-> request[r].op, seen |-> 0]]
<1> PICK o : o = request[r].op OBVIOUS
<1>1. [NoRequest EXCEPT !.at = at] = [at |-> at, op |-> "none", seen |-> 0]
  BY DEF NoRequest
<1>2. [[at |-> at, op |-> "none", seen |-> 0] EXCEPT !.op = o] = [at |-> at, op |-> o, seen |-> 0]
  OBVIOUS
<1>3. [NoRequest EXCEPT !.at = at, !.op = o] = [at |-> at, op |-> o, seen |-> 0]
  BY <1>1, <1>2
<1> QED BY <1>3 DEF Leaves

\* Whoever was told, stays told, whatever becomes of the other requests.
LEMMA ToldStays ==
  ASSUME RegistryInv, NEW r \in Requests, request[r].at # "answered",
         NEW record \in RequestRecord, request' = [request EXCEPT ![r] = record],
         NEW what \in Replies, reply' = [reply EXCEPT ![r] = what],
         what # "none" => record.at = "answered",
         request[r].at = "abandoning" => record.op = request[r].op /\ what = "error"
  PROVE  RepliesStay' /\ \A o : FailureTold(o) => FailureTold(o)'
<1>1. /\ request \in [Requests -> RequestRecord] /\ reply \in [Requests -> Replies]
      /\ \A q \in Requests : reply[q] # "none" => request[q].at = "answered"
  BY DEF RegistryInv, EntryTypeOK, RepliesStay
<1>2. \A q \in Requests : /\ request'[q] = IF q = r THEN record ELSE request[q]
                          /\ reply'[q] = IF q = r THEN what ELSE reply[q]
  BY <1>1
<1>3. RepliesStay' BY <1>1, <1>2 DEF RepliesStay
<1>4. ASSUME NEW o, FailureTold(o) PROVE FailureTold(o)'
  <2>1. PICK q \in Requests :
          request[q].op = o /\ (reply[q] = "error" \/ request[q].at = "abandoning")
    BY <1>4 DEF FailureTold
  <2>2. q = r => request[r].at = "abandoning" BY <1>1, <2>1
  <2>3. request'[q].op = o /\ (reply'[q] = "error" \/ request'[q].at = "abandoning")
    BY <1>2, <2>1, <2>2
  <2> QED BY <2>3 DEF FailureTold
<1> QED BY <1>3, <1>4

\* An operation leaves paths behind while it is the active one, and is that no
\* longer once its failure is told.
LEMMA StraysKept ==
  ASSUME RegistryInv, NEW called, Calm(called), stray' \subseteq Operations,
         \A o \in active \ active' : ~Going(o) /\ (o \in stray => FailureTold(o)'),
         \A o : FailureTold(o) => FailureTold(o)'
  PROVE  StraysAreTold'
<1>1. SUFFICES ASSUME NEW o \in stray', o \notin active' PROVE FailureTold(o)'
  BY DEF StraysAreTold
<1>2. o \in Operations /\ (o \in stray \/ Going(o)) BY <1>1 DEF Calm
<1>3. CASE o \in active
  <2>1. ~Going(o) /\ (o \in stray => FailureTold(o)') BY <1>1, <1>3
  <2> QED BY <1>2, <2>1
<1>4. CASE o \notin active
  BY <1>1, <1>2, <1>4 DEF RegistryInv, GoingIsActive, StraysAreTold
<1> QED BY <1>3, <1>4

\* A request is answered: whatever it awaited, it awaits no longer.
LEMMA Replied ==
  ASSUME RegistryInv, Calm({}), NEW r \in Requests, NEW what \in Replies \ {"none"},
         Reply(r, what), request[r].at # "answered",
         request[r].at = "abandoning" => what = "error",
         r # Create => reply[Create] # "none",
         r = Create => entry' \notin {"absent", "opening"},
         entry' \in {entry, "deleted"},
         active' \subseteq active, \A o \in active \ active' : Ended(o),
         waiters' \cup woken' \subseteq (waiters \cup woken) \ {r},
         waiters' \cap woken' = {}
  PROVE  /\ request' \in [Requests -> RequestRecord] /\ reply' \in [Requests -> Replies]
         /\ CreateIsFirst' /\ AwaitsTheActive' /\ WaitersAwait' /\ RepliesStay'
         /\ \A o : FailureTold(o) => FailureTold(o)'
         /\ \A o : what = "error" /\ o = request[r].op => FailureTold(o)'
<1> PICK record : record = [at |-> "answered", op |-> request[r].op, seen |-> 0] OBVIOUS
<1>2. request \in [Requests -> RequestRecord] /\ reply \in [Requests -> Replies]
  BY DEF RegistryInv, EntryTypeOK
<1>1. record \in RequestRecord BY <1>2 DEF RequestRecord, Wheres
<1>3. request' = [request EXCEPT ![r] = record]
  BY LeftKept DEF Reply
<1>4. /\ request' \in [Requests -> RequestRecord]
      /\ \A q \in Requests : request'[q] = IF q = r THEN record ELSE request[q]
  BY <1>1, <1>2, <1>3, Placed
<1>5. /\ reply' \in [Requests -> Replies]
      /\ \A q \in Requests : reply'[q] = IF q = r THEN what ELSE reply[q]
  BY <1>2 DEF Reply
<1>6. Create \in Requests BY DEF Requests
<1>7. CreateIsFirst'
  <2>1. CASE r = Create
    <3>1. reply'[Create] # "none" BY <1>5, <2>1
    <3>2. request'[Create].at = "answered" BY <1>4, <2>1
    <3> QED BY <2>1, <3>1, <3>2 DEF CreateIsFirst
  <2>2. CASE r # Create
    <3>1. reply'[Create] # "none" BY <1>5, <1>6, <2>2
    <3>2. reply[Create] # "none" BY <2>2
    <3>3. request'[Create] = request[Create] BY <1>4, <1>6, <2>2
    <3> QED BY <3>1, <3>2, <3>3 DEF RegistryInv, CreateIsFirst
  <2> QED BY <2>1, <2>2
<1>8. AwaitsTheActive'
  <2>1. SUFFICES ASSUME NEW q \in Requests, request'[q].at = "awaiting"
                 PROVE  /\ request'[q].op \in Operations
                        /\ active' \subseteq {request'[q].op}
                        /\ work'[request'[q].op] \notin {"done", "failed"} =>
                             request'[q].op \in active'
    BY DEF AwaitsTheActive, Awaiting, Ended
  <2>2. q # r /\ request'[q] = request[q] BY <1>4, <2>1
  <2>3. /\ request[q].op \in Operations /\ active \subseteq {request[q].op}
        /\ ~Ended(request[q].op) => request[q].op \in active
    BY <2>1, <2>2 DEF RegistryInv, AwaitsTheActive, Awaiting
  <2>4. work'[request[q].op] \notin {"done", "failed"} => ~Ended(request[q].op)
    BY <2>3 DEF Calm
  <2> QED BY <2>2, <2>3, <2>4
<1>9. WaitersAwait'
  BY <1>4 DEF RegistryInv, WaitersAwait, Awaiting
<1>10. RepliesStay' /\ \A o : FailureTold(o) => FailureTold(o)'
  <2>1. reply' = [reply EXCEPT ![r] = what] BY DEF Reply
  <2>2. /\ what # "none" => record.at = "answered"
        /\ request[r].at = "abandoning" => record.op = request[r].op /\ what = "error"
    OBVIOUS
  <2> QED BY <1>1, <1>3, <2>1, <2>2, ToldStays
<1>11. \A o : what = "error" /\ o = request[r].op => FailureTold(o)'
  BY <1>4, <1>5 DEF FailureTold
<1> QED BY <1>4, <1>5, <1>7, <1>8, <1>9, <1>10, <1>11

\* A request awaits an operation that becomes, or is, the active one.
LEMMA Awaited ==
  ASSUME RegistryInv, NEW r \in Requests, NEW o \in Operations,
         request' = [request EXCEPT ![r] = [at |-> "awaiting", op |-> o, seen |-> version]],
         reply' = reply, active' = {o}, request[r].at \notin {"answered", "abandoning"},
         r = Create <=> reply[Create] = "none",
         entry' \notin {"absent", "opening"},
         \A q \in Requests \ {r} : Awaiting(q) => request[q].op = o,
         waiters' \cup woken' \subseteq waiters \cup woken \cup {r},
         waiters' \cap woken' = {}
  PROVE  /\ request' \in [Requests -> RequestRecord] /\ reply' \in [Requests -> Replies]
         /\ CreateIsFirst' /\ AwaitsTheActive' /\ WaitersAwait' /\ RepliesStay'
         /\ \A p : FailureTold(p) => FailureTold(p)'
<1> PICK record : record = [at |-> "awaiting", op |-> o, seen |-> version] OBVIOUS
<1>1. /\ request \in [Requests -> RequestRecord] /\ reply \in [Requests -> Replies]
      /\ version \in Nat
  BY DEF RegistryInv, EntryTypeOK
<1>2. record \in RequestRecord BY <1>1 DEF RequestRecord, Wheres
<1>3. /\ request' \in [Requests -> RequestRecord]
      /\ \A q \in Requests : request'[q] = IF q = r THEN record ELSE request[q]
  BY <1>1, <1>2, Placed
<1>4. Create \in Requests BY DEF Requests
<1>5. CreateIsFirst'
  <2>1. CASE r = Create
    <3>1. \A q \in Requests \ {Create} : request'[q] = request[q] BY <1>3, <2>1
    <3>2. reply'[Create] = "none" BY <2>1
    <3> QED BY <2>1, <3>1, <3>2 DEF RegistryInv, CreateIsFirst
  <2>2. CASE r # Create
    <3>1. reply'[Create] # "none" BY <2>2
    <3>2. request'[Create] = request[Create] BY <1>3, <1>4, <2>2
    <3> QED BY <3>1, <3>2 DEF RegistryInv, CreateIsFirst
  <2> QED BY <2>1, <2>2
<1>6. AwaitsTheActive'
  <2>1. \A q \in Requests : request'[q].at = "awaiting" => request'[q].op = o
    BY <1>3 DEF Awaiting
  <2> QED BY <2>1 DEF AwaitsTheActive, Awaiting
<1>7. WaitersAwait'
  BY <1>3 DEF RegistryInv, WaitersAwait, Awaiting
<1>8. RepliesStay' /\ \A p : FailureTold(p) => FailureTold(p)'
  <2>1. reply[r] = "none" BY DEF RegistryInv, RepliesStay
  <2>2. reply' = [reply EXCEPT ![r] = "none"] BY <1>1, <2>1
  <2>3. "none" \in Replies BY DEF Replies
  <2> QED BY <1>2, <2>2, <2>3, ToldStays
<1> QED BY <1>1, <1>3, <1>5, <1>6, <1>7, <1>8

\* A request that leaves the session alone, and what it is answered with.
LEMMA ReplyKept ==
  ASSUME SessionInv, RegistryInv, NEW r \in Requests, NEW what \in Replies \ {"none"},
         Reply(r, what), request[r].at # "answered",
         request[r].at = "abandoning" => what = "error",
         r # Create => reply[Create] # "none",
         r = Create => entry' \notin {"absent", "opening"},
         entry' \in {entry, "deleted"},
         UNCHANGED <<sessionVars, pending, version, used, resolved, given>>,
         closedEntry' \in BOOLEAN, closedEntry' => life = "closed",
         active' \subseteq active, \A o \in active \ active' : Ended(o),
         \A o \in active \ active' : work[o] = "done" \/ (o = request[r].op /\ what = "error"),
         waiters' \cup woken' \subseteq (waiters \cup woken) \ {r},
         waiters' \cap woken' = {}
  PROVE  RegistryInv'
<1>1. Calm({}) BY DEF Calm, Going, Ended, sessionVars
<1>2. /\ request' \in [Requests -> RequestRecord] /\ reply' \in [Requests -> Replies]
      /\ CreateIsFirst' /\ AwaitsTheActive' /\ WaitersAwait' /\ RepliesStay'
      /\ \A o : FailureTold(o) => FailureTold(o)'
      /\ \A o : what = "error" /\ o = request[r].op => FailureTold(o)'
  BY <1>1, Replied
<1>6. StraysAreTold'
  <2>1. ASSUME NEW o \in active \ active'
        PROVE  ~Going(o) /\ (o \in stray => FailureTold(o)')
    <3>1. Ended(o) /\ (work[o] = "done" \/ (o = request[r].op /\ what = "error")) BY <2>1
    <3>2. work[o] = "done" => o \notin stray BY DEF SessionInv, StraysFailed
    <3>3. what = "error" /\ o = request[r].op => FailureTold(o)' BY <1>2
    <3> QED BY <3>1, <3>2, <3>3 DEF Going, Ended, Phases
  <2>2. stray' \subseteq Operations BY DEF SessionInv, SessionTypeOK, sessionVars
  <2> QED BY <1>1, <1>2, <2>1, <2>2, StraysKept
<1>3. EntryTypeOK'
  BY <1>2 DEF RegistryInv, EntryTypeOK, sessionVars
<1>4. GoingIsActive'
  BY DEF RegistryInv, GoingIsActive, Going, Ended, Phases, sessionVars
<1>5. PendingIsAsked' /\ RulingsAreGiven' /\ ClosingIsQuiet'
  BY DEF RegistryInv, PendingIsAsked, RulingsAreGiven, ClosingIsQuiet, Going, sessionVars
<1> QED BY <1>2, <1>3, <1>4, <1>5, <1>6 DEF RegistryInv

-----------------------------------------------------------------------------
(* The registry, one step at a time.                                         *)

LEMMA NobodyGoing ==
  ASSUME RegistryInv, active = {}
  PROVE  \A o \in Operations : ~Going(o)
BY DEF RegistryInv, GoingIsActive

\* A request of the client has its capability, and the entry is live.
LEMMA Arrival ==
  ASSUME RegistryInv, NEW r, r \in DOMAIN PromptRequests \cup DOMAIN Rulers \cup Closers, Arrives(r)
  PROVE  /\ r \in Requests /\ r # Create /\ reply[Create] # "none" /\ entry = "live"
         /\ request[r].at = "idle" /\ r \notin waiters \cup woken /\ woken = {}
         /\ \A q \in Requests : Awaiting(q) => ~Ended(request[q].op)
<1>1. r \in Requests /\ r # Create BY RegistryAssumption DEF Requests
<1>2. /\ reply[Create] # "none" /\ entry = "live" /\ request[r].at = "idle" /\ woken = {}
      /\ \A q \in Requests : Awaiting(q) => ~Ended(request[q].op)
  BY DEF Arrives, Drained, Awaiting
<1>3. r \notin waiters \cup woken BY <1>1, <1>2 DEF RegistryInv, WaitersAwait, Awaiting
<1> QED BY <1>1, <1>2, <1>3

\* Nobody waits for an operation when none is active.
LEMMA NobodyAwaits ==
  ASSUME RegistryInv, active = {}, \A q \in Requests : Awaiting(q) => ~Ended(request[q].op)
  PROVE  /\ \A q \in Requests : ~Awaiting(q)
         /\ waiters = {} /\ woken = {}
<1>1. \A q \in Requests : ~Awaiting(q) BY DEF RegistryInv, AwaitsTheActive
<1> QED BY <1>1 DEF RegistryInv, WaitersAwait

LEMMA RefusedKept ==
  ASSUME SessionInv, RegistryInv, NEW r \in Requests, r # Create, reply[Create] # "none",
         request[r].at = "idle", r \notin waiters \cup woken, Refused(r), UNCHANGED <<entry, version>>
  PROVE  SessionInv' /\ RegistryInv'
<1>1. /\ Reply(r, "refused")
      /\ UNCHANGED <<sessionVars, active, pending, version, used, resolved, given, closedEntry,
                     waiters, woken>>
  BY DEF Refused
<1>2. "refused" \in Replies \ {"none"} BY DEF Replies
<1>3. /\ closedEntry' \in BOOLEAN /\ (closedEntry' => life = "closed")
  BY <1>1 DEF RegistryInv, EntryTypeOK, ClosingIsQuiet
<1>4. /\ waiters' \cup woken' \subseteq (waiters \cup woken) \ {r}
      /\ waiters' \cap woken' = {}
  BY <1>1 DEF RegistryInv, WaitersAwait
<1>5. RegistryInv' BY <1>1, <1>2, <1>3, <1>4, ReplyKept
<1>6. SessionInv'
  BY <1>1 DEF SessionInv, SessionTypeOK, HeadIsServed, StraysFailed, Busy, sessionVars
<1> QED BY <1>5, <1>6

\* The opening of a session, and the failures of Create.
LEMMA CreationKept ==
  ASSUME SessionInv, RegistryInv, CreateArrives \/ OpenFails \/ Opened \/ Abandoned
  PROVE  SessionInv' /\ RegistryInv'
<1>1. Create \in Requests BY DEF Requests
<1>2. CASE CreateArrives
  <2>1. /\ entry = "absent" /\ entry' = "opening"
        /\ UNCHANGED <<sessionVars, active, pending, version, used, resolved,
                       given, closedEntry, waiters, woken, request, reply>>
    BY <1>2 DEF CreateArrives
  <2>2. SessionInv' BY <2>1 DEF SessionInv, SessionTypeOK, HeadIsServed, StraysFailed, Busy, sessionVars
  <2>3. EntryTypeOK' BY <2>1 DEF RegistryInv, EntryTypeOK, sessionVars
  <2>4. CreateIsFirst' /\ AwaitsTheActive' /\ WaitersAwait'
    BY <2>1 DEF RegistryInv, CreateIsFirst, AwaitsTheActive, WaitersAwait, Awaiting, Ended, sessionVars
  <2>5. /\ GoingIsActive' /\ PendingIsAsked' /\ RulingsAreGiven' /\ ClosingIsQuiet'
        /\ RepliesStay' /\ StraysAreTold'
    BY <2>1 DEF RegistryInv, GoingIsActive, PendingIsAsked, RulingsAreGiven, ClosingIsQuiet,
                Going, RepliesStay, StraysAreTold, FailureTold, sessionVars
  <2> QED BY <2>2, <2>3, <2>4, <2>5 DEF RegistryInv
<1>3. CASE OpenFails
  <2>1. /\ entry = "opening" /\ entry' = "deleted" /\ Reply(Create, "error")
        /\ UNCHANGED <<sessionVars, active, pending, version, used, resolved,
                       given, closedEntry, waiters, woken>>
    BY <1>3 DEF OpenFails
  <2>2. request[Create].at = "idle" BY <2>1 DEF RegistryInv, CreateIsFirst
  <2>3. /\ waiters' \cup woken' \subseteq (waiters \cup woken) \ {Create}
        /\ waiters' \cap woken' = {}
    BY <2>1, <2>2 DEF RegistryInv, WaitersAwait, Awaiting
  <2>4. "error" \in Replies \ {"none"} BY DEF Replies
  <2>5. closedEntry' \in BOOLEAN /\ (closedEntry' => life = "closed")
    BY <2>1 DEF RegistryInv, EntryTypeOK, ClosingIsQuiet
  <2>6. RegistryInv' BY <1>1, <2>1, <2>2, <2>3, <2>4, <2>5, ReplyKept
  <2>7. SessionInv' BY <2>1 DEF SessionInv, SessionTypeOK, HeadIsServed, StraysFailed, Busy, sessionVars
  <2> QED BY <2>6, <2>7
<1>4. CASE Abandoned
  <2>1. /\ request[Create].at = "abandoning" /\ Reply(Create, "error")
        /\ UNCHANGED <<sessionVars, entry, active, pending, version, used, resolved,
                       given, closedEntry, waiters, woken>>
    BY <1>4 DEF Abandoned
  <2>2. entry \notin {"absent", "opening"} BY <2>1 DEF RegistryInv, CreateIsFirst
  <2>3. /\ waiters' \cup woken' \subseteq (waiters \cup woken) \ {Create}
        /\ waiters' \cap woken' = {}
    BY <2>1 DEF RegistryInv, WaitersAwait, Awaiting
  <2>4. "error" \in Replies \ {"none"} BY DEF Replies
  <2>5. closedEntry' \in BOOLEAN /\ (closedEntry' => life = "closed")
    BY <2>1 DEF RegistryInv, EntryTypeOK, ClosingIsQuiet
  <2>6. RegistryInv' BY <1>1, <2>1, <2>2, <2>3, <2>4, <2>5, ReplyKept
  <2>7. SessionInv' BY <2>1 DEF SessionInv, SessionTypeOK, HeadIsServed, StraysFailed, Busy, sessionVars
  <2> QED BY <2>6, <2>7
<1>5. CASE Opened
  <2>1. PICK o \in Starts : CallStart(o) /\ active' = {o} /\ Await(Create, o)
    BY <1>5 DEF Opened
  <2>2. /\ entry = "opening" /\ entry' = "live"
        /\ UNCHANGED <<pending, version, used, resolved, given, closedEntry, woken, reply>>
    BY <1>5 DEF Opened
  <2>3. active = {} /\ reply[Create] = "none" /\ request[Create].at = "idle"
    BY <2>2 DEF RegistryInv, CreateIsFirst
  <2>4. /\ SessionInv' /\ Calm({o}) /\ life' = life /\ consult' = consult
        /\ o \in Operations /\ o \notin stray'
    BY <2>1, StartKept
  <2>5. /\ request' = [request EXCEPT ![Create] = [at |-> "awaiting", op |-> o, seen |-> version]]
        /\ waiters' = waiters \cup {Create}
    BY <2>1 DEF Await
  <2>6. \A q \in Requests \ {Create} : request[q].at = "idle"
    BY <2>3 DEF RegistryInv, CreateIsFirst
  <2>7. /\ waiters' \cup woken' \subseteq waiters \cup woken \cup {Create}
        /\ waiters' \cap woken' = {}
    BY <2>2, <2>3, <2>5 DEF RegistryInv, WaitersAwait, Awaiting
  <2>8. /\ request' \in [Requests -> RequestRecord] /\ reply' \in [Requests -> Replies]
        /\ CreateIsFirst' /\ AwaitsTheActive' /\ WaitersAwait' /\ RepliesStay'
        /\ \A p : FailureTold(p) => FailureTold(p)'
    <3>1. \A q \in Requests \ {Create} : Awaiting(q) => request[q].op = o
      BY <2>6 DEF Awaiting
    <3>2. entry' \notin {"absent", "opening"} BY <2>2
    <3>3. Create = Create <=> reply[Create] = "none" BY <2>3
    <3>4. reply' = reply BY <2>2
    <3> QED BY <1>1, <2>1, <2>3, <2>4, <2>5, <2>7, <3>1, <3>2, <3>3, <3>4, Awaited
  <2>9. EntryTypeOK' BY <2>1, <2>2, <2>4, <2>8 DEF RegistryInv, EntryTypeOK
  <2>10. GoingIsActive'
    <3>1. \A p \in Operations : ~Going(p) BY <2>3, NobodyGoing
    <3>2. \A p \in Operations : work'[p] \in Phases \cup {"queued"} => p = o
      BY <2>4, <3>1 DEF Calm
    <3> QED BY <2>1, <3>2 DEF GoingIsActive, Going
  <2>11. PendingIsAsked' /\ RulingsAreGiven'
    BY <2>2, <2>4 DEF RegistryInv, PendingIsAsked, RulingsAreGiven
  <2>12. ClosingIsQuiet'
    BY <2>1, <2>2, <2>4 DEF RegistryInv, ClosingIsQuiet, Calm, Going
  <2>13. StraysAreTold'
    <3>1. stray' \subseteq Operations BY <2>4 DEF SessionInv, SessionTypeOK
    <3> QED BY <2>3, <2>4, <2>8, <3>1, StraysKept
  <2> QED BY <2>4, <2>8, <2>9, <2>10, <2>11, <2>12, <2>13 DEF RegistryInv
<1> QED BY <1>2, <1>3, <1>4, <1>5

LEMMA WakeKept ==
  ASSUME SessionInv, RegistryInv, NEW r \in Requests, Wake(r)
  PROVE  SessionInv' /\ RegistryInv'
<1>1. /\ r \in woken /\ woken' = woken \ {r}
      /\ UNCHANGED <<sessionVars, entry, active, pending, version, used, resolved, given, closedEntry>>
  BY DEF Wake
<1>2. Awaiting(r) /\ r \notin waiters BY <1>1 DEF RegistryInv, WaitersAwait
<1>3. SessionInv' BY <1>1 DEF SessionInv, SessionTypeOK, HeadIsServed, StraysFailed, Busy, sessionVars
<1>4. CASE Reply(r, "pending-ruling") /\ UNCHANGED waiters
  <2>1. /\ waiters' \cup woken' \subseteq (waiters \cup woken) \ {r}
        /\ waiters' \cap woken' = {}
    BY <1>1, <1>2, <1>4 DEF RegistryInv, WaitersAwait
  <2>2. "pending-ruling" \in Replies \ {"none"} BY DEF Replies
  <2>3. closedEntry' \in BOOLEAN /\ (closedEntry' => life = "closed")
    BY <1>1 DEF RegistryInv, EntryTypeOK, ClosingIsQuiet
  <2>4. r # Create => reply[Create] # "none"
    BY <1>2 DEF RegistryInv, CreateIsFirst, Awaiting
  <2>5. r = Create => entry' \notin {"absent", "opening"}
    BY <1>1, <1>2 DEF RegistryInv, CreateIsFirst, Awaiting
  <2>6. request[r].at \notin {"answered", "abandoning"} BY <1>2 DEF Awaiting
  <2>7. RegistryInv' BY <1>1, <1>4, <2>1, <2>2, <2>3, <2>4, <2>5, <2>6, ReplyKept
  <2> QED BY <1>3, <2>7
<1>5. CASE waiters' = waiters \cup {r} /\ UNCHANGED <<request, reply>>
  <2>1. EntryTypeOK' BY <1>1, <1>5 DEF RegistryInv, EntryTypeOK, sessionVars
  <2>2. CreateIsFirst' /\ AwaitsTheActive'
    BY <1>1, <1>5 DEF RegistryInv, CreateIsFirst, AwaitsTheActive, Awaiting, Ended, sessionVars
  <2>3. WaitersAwait' BY <1>1, <1>2, <1>5 DEF RegistryInv, WaitersAwait, Awaiting
  <2>4. /\ GoingIsActive' /\ PendingIsAsked' /\ RulingsAreGiven' /\ ClosingIsQuiet'
        /\ RepliesStay' /\ StraysAreTold'
    BY <1>1, <1>5 DEF RegistryInv, GoingIsActive, PendingIsAsked, RulingsAreGiven, ClosingIsQuiet,
                Going, RepliesStay, StraysAreTold, FailureTold, sessionVars
  <2> QED BY <1>3, <2>1, <2>2, <2>3, <2>4 DEF RegistryInv
<1> QED BY <1>4, <1>5 DEF Wake

\* The operation a request awaits has ended, and nothing else runs.
LEMMA CompleteKept ==
  ASSUME SessionInv, RegistryInv, NEW r \in Requests, Complete(r)
  PROVE  SessionInv' /\ RegistryInv'
<1> PICK o : o = request[r].op OBVIOUS
<1>1. /\ Awaiting(r) /\ Ended(o) /\ woken' = woken \ {r}
      /\ UNCHANGED <<pending, version, used, resolved, given, closedEntry>>
  BY DEF Complete, Awaiting
<1>2. /\ o \in Operations /\ active \subseteq {o}
      /\ entry \notin {"absent", "opening"}
      /\ r = Create <=> reply[Create] = "none"
  BY <1>1 DEF RegistryInv, AwaitsTheActive, CreateIsFirst, Awaiting
<1>3. \A p \in Operations : ~Going(p)
  BY <1>1, <1>2 DEF RegistryInv, GoingIsActive, Going, Ended, Phases
<1>4. closedEntry' \in BOOLEAN /\ (closedEntry' => life = "closed")
  BY <1>1 DEF RegistryInv, EntryTypeOK, ClosingIsQuiet
<1>5. ASSUME NEW what \in Replies \ {"none"}, Reply(r, what), UNCHANGED <<sessionVars, entry>>,
             active' = active \ {o}, waiters' = waiters \ {r}, work[o] = "done" \/ what = "error"
      PROVE  SessionInv' /\ RegistryInv'
  <2>1. /\ waiters' \cup woken' \subseteq (waiters \cup woken) \ {r}
        /\ waiters' \cap woken' = {}
    BY <1>1, <1>5 DEF RegistryInv, WaitersAwait
  <2>2. /\ active' \subseteq active
        /\ \A p \in active \ active' : Ended(p) /\ (work[p] = "done" \/ (p = o /\ what = "error"))
    BY <1>1, <1>5
  <2>5. request[r].at \notin {"answered", "abandoning"} BY <1>1 DEF Awaiting
  <2>3. RegistryInv' BY <1>1, <1>2, <1>4, <1>5, <2>1, <2>2, <2>5, ReplyKept
  <2>4. SessionInv' BY <1>5 DEF SessionInv, SessionTypeOK, HeadIsServed, StraysFailed, Busy, sessionVars
  <2> QED BY <2>3, <2>4
<1>6. CASE work[o] = "done" /\ r = Create /\ GoesOn(o) /\ BeginInitialPrompt
  <2> PICK p : p = InitialPrompt OBVIOUS
  <2>1. /\ CallPrompt(p) /\ active' = {p} /\ UNCHANGED <<entry, reply>>
        /\ request' = [request EXCEPT ![Create] = [at |-> "awaiting", op |-> p, seen |-> version]]
        /\ waiters' = waiters \cup {Create}
    BY <1>6 DEF BeginInitialPrompt, Await
  <2>2. /\ SessionInv' /\ Calm({p}) /\ life' = life /\ consult' = consult
        /\ p \in Operations /\ p \notin stray'
    BY <2>1, PromptKept
  <2>3. \A q \in Requests \ {Create} : Awaiting(q) => request[q].op = p
    BY <1>2, <1>6 DEF RegistryInv, CreateIsFirst, Awaiting
  <2>4. /\ waiters' \cup woken' \subseteq waiters \cup woken \cup {Create}
        /\ waiters' \cap woken' = {}
    BY <1>1, <1>6, <2>1 DEF RegistryInv, WaitersAwait
  <2>5. /\ request' \in [Requests -> RequestRecord] /\ reply' \in [Requests -> Replies]
        /\ CreateIsFirst' /\ AwaitsTheActive' /\ WaitersAwait' /\ RepliesStay'
        /\ \A q : FailureTold(q) => FailureTold(q)'
    <3>1. entry' \notin {"absent", "opening"} BY <1>2, <2>1
    <3>2. Create = Create <=> reply[Create] = "none" BY <1>2, <1>6
    <3>3. reply' = reply /\ Create \in Requests BY <2>1 DEF Requests
    <3>4. request[Create].at \notin {"answered", "abandoning"} BY <1>1, <1>6 DEF Awaiting
    <3> QED BY <2>1, <2>2, <2>3, <2>4, <3>1, <3>2, <3>3, <3>4, Awaited
  <2>6. EntryTypeOK' BY <1>1, <2>1, <2>2, <2>5 DEF RegistryInv, EntryTypeOK
  <2>7. GoingIsActive'
    <3>1. \A q \in Operations : work'[q] \in Phases \cup {"queued"} => q = p
      BY <1>3, <2>2 DEF Calm
    <3> QED BY <2>1, <3>1 DEF GoingIsActive, Going
  <2>8. PendingIsAsked' /\ RulingsAreGiven'
    BY <1>1, <2>2 DEF RegistryInv, PendingIsAsked, RulingsAreGiven
  <2>9. ClosingIsQuiet'
    BY <1>1, <2>1, <2>2 DEF RegistryInv, ClosingIsQuiet, Calm, Going
  <2>10. StraysAreTold'
    <3>1. stray' \subseteq Operations BY <2>2 DEF SessionInv, SessionTypeOK
    <3>2. \A q \in active \ active' : ~Going(q) /\ q \notin stray
      BY <1>2, <1>3, <1>6 DEF SessionInv, StraysFailed
    <3> QED BY <2>2, <2>5, <3>1, <3>2, StraysKept
  <2> QED BY <2>2, <2>5, <2>6, <2>7, <2>8, <2>9, <2>10 DEF RegistryInv
<1>7. CASE /\ work[o] = "done" /\ active' = active \ {o} /\ waiters' = waiters \ {r}
           /\ Reply(r, State) /\ UNCHANGED <<sessionVars, entry>>
  <2>1. State \in Replies \ {"none"} BY DEF State, Replies
  <2> QED BY <1>5, <1>7, <2>1
<1>8. CASE /\ active' = active \ {o} /\ waiters' = waiters \ {r}
           /\ Reply(r, "error") /\ UNCHANGED <<sessionVars, entry>>
  <2>1. "error" \in Replies \ {"none"} BY DEF Replies
  <2> QED BY <1>5, <1>8, <2>1
<1>9. CASE r = Create /\ active' = active \ {o} /\ waiters' = waiters \ {r} /\ CreateFails
  <2> PICK record : record = [at |-> "abandoning", op |-> o, seen |-> 0] OBVIOUS
  <2>1. /\ entry' = "deleted" /\ CallClose /\ UNCHANGED reply
        /\ request' = [request EXCEPT ![Create] = record]
    BY <1>9, LeftKept DEF CreateFails
  <2>2. SessionInv' /\ Calm({}) /\ consult' = consult /\ (life = "closed" => life' = "closed")
    BY <2>1, CloseKept
  <2>3. record \in RequestRecord /\ Create \in Requests /\ request \in [Requests -> RequestRecord]
    BY <1>2 DEF RequestRecord, Wheres, Requests, RegistryInv, EntryTypeOK
  <2>4. /\ request' \in [Requests -> RequestRecord]
        /\ \A q \in Requests : request'[q] = IF q = Create THEN record ELSE request[q]
    BY <2>1, <2>3, Placed
  <2>5. EntryTypeOK' BY <1>1, <1>9, <2>1, <2>2, <2>4 DEF RegistryInv, EntryTypeOK
  <2>6. CreateIsFirst' BY <1>2, <1>9, <2>1, <2>3, <2>4 DEF RegistryInv, CreateIsFirst
  <2>7. AwaitsTheActive'
    <3>1. \A q \in Requests : request'[q].at # "awaiting"
      BY <1>2, <1>9, <2>4 DEF RegistryInv, CreateIsFirst
    <3> QED BY <3>1 DEF AwaitsTheActive, Awaiting
  <2>8. WaitersAwait' BY <1>1, <1>9, <2>4 DEF RegistryInv, WaitersAwait, Awaiting
  <2>9. \A p \in Operations : work'[p] \notin Phases \cup {"queued"} BY <1>3, <2>2 DEF Calm
  <2>10. GoingIsActive' BY <2>9 DEF GoingIsActive, Going
  <2>11. ClosingIsQuiet' BY <1>1, <1>2, <1>9, <2>2, <2>9 DEF RegistryInv, ClosingIsQuiet, Going
  <2>12. PendingIsAsked' /\ RulingsAreGiven'
    BY <1>1, <2>2 DEF RegistryInv, PendingIsAsked, RulingsAreGiven
  <2>13. RepliesStay' /\ \A p : FailureTold(p) => FailureTold(p)'
    <3>1. reply[Create] = "none" /\ request[Create].at = "awaiting"
      BY <1>1, <1>2, <1>9 DEF Awaiting
    <3>2. reply' = [reply EXCEPT ![Create] = "none"] BY <2>1, <3>1 DEF RegistryInv, EntryTypeOK
    <3>3. "none" \in Replies BY DEF Replies
    <3> QED BY <2>1, <2>3, <3>1, <3>2, <3>3, ToldStays
  <2>14. StraysAreTold'
    <3>1. stray' \subseteq Operations BY <2>2 DEF SessionInv, SessionTypeOK
    <3>2. FailureTold(o)' BY <2>3, <2>4 DEF FailureTold
    <3>3. \A q \in active \ active' : q = o BY <1>9
    <3> QED BY <1>2, <1>3, <2>2, <2>13, <3>1, <3>2, <3>3, StraysKept
  <2> QED BY <2>2, <2>4, <2>5, <2>6, <2>7, <2>8, <2>10, <2>11, <2>12, <2>13, <2>14 DEF RegistryInv
<1> QED BY <1>6, <1>7, <1>8, <1>9 DEF Complete

LEMMA PromptArrivesKept ==
  ASSUME SessionInv, RegistryInv, NEW r, PromptArrives(r)
  PROVE  SessionInv' /\ RegistryInv'
<1>1. r \in DOMAIN PromptRequests /\ Arrives(r) /\ UNCHANGED <<entry, version>>
  BY DEF PromptArrives
<1>2. /\ r \in Requests /\ r # Create /\ reply[Create] # "none" /\ entry = "live"
      /\ r \notin waiters \cup woken /\ request[r].at = "idle"
      /\ \A q \in Requests : Awaiting(q) => ~Ended(request[q].op)
  BY <1>1, Arrival
<1>3. CASE Refused(r) BY <1>1, <1>2, <1>3, RefusedKept
<1>4. CASE ~Refused(r)
  <2> PICK p : p = PromptRequests[r] OBVIOUS
  <2>1. /\ active = {}
        /\ CallPrompt(p) /\ active' = {p} /\ Await(r, p)
        /\ UNCHANGED <<pending, used, resolved, given, closedEntry, woken, reply>>
    BY <1>4 DEF PromptArrives
  <2>2. /\ request' = [request EXCEPT ![r] = [at |-> "awaiting", op |-> p, seen |-> version]]
        /\ waiters' = waiters \cup {r}
    BY <2>1 DEF Await
  <2>3. /\ SessionInv' /\ Calm({p}) /\ life' = life /\ consult' = consult
        /\ p \in Operations /\ p \notin stray'
    BY <2>1, PromptKept
  <2>4. (\A q \in Requests : ~Awaiting(q)) /\ waiters = {} /\ woken = {}
    BY <1>2, <2>1, NobodyAwaits
  <2>5. /\ waiters' \cup woken' \subseteq waiters \cup woken \cup {r}
        /\ waiters' \cap woken' = {}
    BY <2>1, <2>2, <2>4
  <2>6. /\ request' \in [Requests -> RequestRecord] /\ reply' \in [Requests -> Replies]
        /\ CreateIsFirst' /\ AwaitsTheActive' /\ WaitersAwait' /\ RepliesStay'
        /\ \A q : FailureTold(q) => FailureTold(q)'
    <3>1. entry' \notin {"absent", "opening"} BY <1>1, <1>2
    <3>2. r = Create <=> reply[Create] = "none" BY <1>2
    <3>3. reply' = reply BY <2>1
    <3>4. \A q \in Requests \ {r} : Awaiting(q) => request[q].op = p BY <2>4
    <3> QED BY <1>2, <2>1, <2>2, <2>3, <2>5, <3>1, <3>2, <3>3, <3>4, Awaited
  <2>7. EntryTypeOK' BY <1>1, <2>1, <2>3, <2>6 DEF RegistryInv, EntryTypeOK
  <2>8. GoingIsActive'
    <3>1. \A q \in Operations : ~Going(q) BY <2>1, NobodyGoing
    <3>2. \A q \in Operations : work'[q] \in Phases \cup {"queued"} => q = p
      BY <2>3, <3>1 DEF Calm
    <3> QED BY <2>1, <3>2 DEF GoingIsActive, Going
  <2>9. PendingIsAsked' /\ RulingsAreGiven'
    BY <2>1, <2>3 DEF RegistryInv, PendingIsAsked, RulingsAreGiven
  <2>10. ClosingIsQuiet'
    BY <2>1, <2>3 DEF RegistryInv, ClosingIsQuiet, Calm, Going
  <2>11. StraysAreTold'
    <3>1. stray' \subseteq Operations BY <2>3 DEF SessionInv, SessionTypeOK
    <3> QED BY <2>1, <2>3, <2>6, <3>1, StraysKept
  <2> QED BY <2>3, <2>6, <2>7, <2>8, <2>9, <2>10, <2>11 DEF RegistryInv
<1> QED BY <1>3, <1>4

\* The ruling of the pending request is taken, and with it the run goes on.
LEMMA RuleArrivesKept ==
  ASSUME SessionInv, RegistryInv, NEW r, NEW i \in 1..MaxAsks,
         NEW ruling \in Decisions \cup {Decline}, RuleArrives(r, i, ruling)
  PROVE  SessionInv' /\ RegistryInv'
<1>1. r \in DOMAIN Rulers /\ Arrives(r) /\ i \in DOMAIN consult /\ UNCHANGED <<entry, version>>
  BY DEF RuleArrives
<1>2. /\ r \in Requests /\ r # Create /\ reply[Create] # "none" /\ entry = "live"
      /\ request[r].at = "idle" /\ r \notin waiters \cup woken /\ woken = {}
      /\ \A q \in Requests : Awaiting(q) => ~Ended(request[q].op)
  BY <1>1, Arrival
<1>3. CASE Refused(r) BY <1>1, <1>2, <1>3, RefusedKept
<1>4. CASE ~Refused(r)
  <2> PICK ruled : ruled = [by |-> r, consult |-> i, ruling |-> ruling] OBVIOUS
  <2>1. /\ i \notin used /\ pending = i
        /\ Answer(i, ruling)
        /\ resolved' = [resolved EXCEPT ![i] = ruling]
        /\ used' = used \cup {i} /\ pending' = 0
        /\ given' = given \cup {ruled}
        /\ woken' = woken \cup waiters
        /\ UNCHANGED <<life, started, turn, work, stray, active, closedEntry>>
    BY <1>4 DEF RuleArrives, Rulable
  <2>2. /\ SessionInv' /\ Calm({}) /\ life' = life
        /\ Len(consult') = Len(consult) /\ DOMAIN consult' = DOMAIN consult
        /\ \A j \in DOMAIN consult : j # i => consult'[j] = consult[j]
        /\ consult'[i].state = "answered" /\ consult'[i].ruling = ruling
    BY <1>1, <2>1, AnswerKept
  <2>3. ruled.consult = i /\ ruled.ruling = ruling /\ ruled \in Rulings
    BY <1>2 DEF Rulings
  <2>4. /\ request' \in [Requests -> RequestRecord] /\ reply' \in [Requests -> Replies]
        /\ CreateIsFirst' /\ AwaitsTheActive' /\ WaitersAwait' /\ RepliesStay'
        /\ \A q : FailureTold(q) => FailureTold(q)'
    <3>1. CASE active = {}
      <4>1. PICK what \in {"closed", "ready"} : Reply(r, what) /\ waiters' = {}
        BY <1>4, <3>1 DEF RuleArrives, NothingToAwait
      <4>2. what \in Replies \ {"none"} BY DEF Replies
      <4>3. waiters = {} /\ woken = {} BY <1>2, <3>1, NobodyAwaits
      <4>4. /\ waiters' \cup woken' \subseteq (waiters \cup woken) \ {r}
            /\ waiters' \cap woken' = {}
        BY <2>1, <4>1, <4>3
      <4>5. /\ active' \subseteq active /\ \A p \in active \ active' : Ended(p)
            /\ entry' \in {entry, "deleted"}
        BY <1>1, <2>1
      <4> QED BY <1>2, <2>2, <4>1, <4>2, <4>4, <4>5, Replied
    <3>2. CASE active # {}
      <4> PICK o : o = CHOOSE p \in active : TRUE OBVIOUS
      <4>1. o \in active BY <3>2
      <4>2. o \in Operations /\ active = {o}
        BY <4>1 DEF RegistryInv, EntryTypeOK
      <4>3. /\ request' = [request EXCEPT ![r] = [at |-> "awaiting", op |-> o, seen |-> version]]
            /\ waiters' = {r} /\ reply' = reply
        BY <1>4, <3>2 DEF RuleArrives, NothingToAwait
      <4>4. active' = {o} /\ entry' \notin {"absent", "opening"} BY <1>1, <1>2, <2>1, <4>2
      <4>5. \A q \in Requests \ {r} : Awaiting(q) => request[q].op = o
        BY <4>2 DEF RegistryInv, AwaitsTheActive
      <4>6. /\ waiters' \cup woken' \subseteq waiters \cup woken \cup {r}
            /\ waiters' \cap woken' = {}
        BY <1>2, <2>1, <4>3
      <4>7. r = Create <=> reply[Create] = "none" BY <1>2
      <4> QED BY <1>2, <4>2, <4>3, <4>4, <4>5, <4>6, <4>7, Awaited
    <3> QED BY <3>1, <3>2
  <2>5. EntryTypeOK'
    <3>1. i \in Nat /\ Len(consult) \in Nat BY LenProperties DEF SessionInv, SessionTypeOK
    <3>2. resolved' \in [1..MaxAsks -> Decisions \cup {Decline}]
      BY <2>1 DEF RegistryInv, EntryTypeOK
    <3>3. pending' \in 0..Len(consult') BY <2>1, <2>2, <3>1
    <3>4. given' \subseteq Rulings BY <2>1, <2>3 DEF RegistryInv, EntryTypeOK
    <3>5. used' \subseteq DOMAIN consult' BY <1>1, <2>1, <2>2 DEF RegistryInv, EntryTypeOK
    <3> QED BY <1>1, <2>1, <2>2, <2>4, <3>2, <3>3, <3>4, <3>5 DEF RegistryInv, EntryTypeOK
  <2>6. GoingIsActive' BY <2>1 DEF RegistryInv, GoingIsActive, Going
  <2>7. PendingIsAsked'
    <3>1. \A j \in DOMAIN consult : consult'[j].state # "asked"
      BY <2>1, <2>2 DEF RegistryInv, PendingIsAsked
    <3>2. 0 \notin DOMAIN consult BY LenProperties DEF SessionInv, SessionTypeOK
    <3> QED BY <2>1, <2>2, <3>1, <3>2 DEF PendingIsAsked
  <2>8. RulingsAreGiven'
    <3>1. \A g \in given : g.consult # i /\ g.consult \in DOMAIN consult
      BY <2>1 DEF RegistryInv, EntryTypeOK, RulingsAreGiven
    <3>2. i \in 1..MaxAsks /\ resolved'[i] = ruling
          /\ \A j \in 1..MaxAsks : j # i => resolved'[j] = resolved[j]
      BY <2>1 DEF RegistryInv, EntryTypeOK
    <3>3. \A g \in given : g.consult \in 1..MaxAsks
      BY DEF RegistryInv, EntryTypeOK, Rulings
    <3>4. ASSUME NEW g \in given'
          PROVE  /\ g.consult \in used'
                 /\ consult'[g.consult].ruling = g.ruling /\ resolved'[g.consult] = g.ruling
                 /\ g.ruling # Decline => consult'[g.consult].state \in Fates(g.consult)
                 /\ \A h \in given' : h.consult = g.consult => h = g
      <4>1. CASE g = ruled
        <5>1. \A h \in given' : h.consult = i => h = g BY <2>1, <3>1, <4>1
        <5> QED BY <2>1, <2>2, <2>3, <3>2, <4>1, <5>1 DEF Fates
      <4>2. CASE g # ruled
        <5>1. /\ g \in given /\ g.consult # i /\ g.consult \in DOMAIN consult
              /\ g.consult \in 1..MaxAsks
          BY <2>1, <3>1, <3>3, <4>2
        <5>2. consult'[g.consult] = consult[g.consult] /\ resolved'[g.consult] = resolved[g.consult]
          BY <2>2, <3>2, <5>1
        <5>3. /\ g.consult \in used
              /\ consult[g.consult].ruling = g.ruling /\ resolved[g.consult] = g.ruling
              /\ g.ruling # Decline => consult[g.consult].state \in Fates(g.consult)
              /\ \A h \in given : h.consult = g.consult => h = g
          BY <5>1 DEF RegistryInv, RulingsAreGiven
        <5>4. \A h \in given' : h.consult = g.consult => h = g
          BY <2>1, <2>3, <5>1, <5>3
        <5> QED BY <2>1, <5>2, <5>3, <5>4
      <4> QED BY <4>1, <4>2
    <3>5. ASSUME NEW j \in DOMAIN consult'
          PROVE  /\ consult'[j].state = "ruled" => consult'[j].ruling # Decline
                 /\ consult'[j].state \in {"answered", "ruled"} /\ consult'[j].ruling # Decline =>
                      \E g \in given' : g.consult = j
      <4>1. CASE j = i BY <2>1, <2>2, <2>3, <4>1
      <4>2. CASE j # i
        <5>1. j \in DOMAIN consult /\ consult'[j] = consult[j] BY <2>2, <4>2
        <5>2. /\ consult[j].state = "ruled" => consult[j].ruling # Decline
              /\ consult[j].state \in {"answered", "ruled"} /\ consult[j].ruling # Decline =>
                   \E g \in given : g.consult = j
          BY <5>1 DEF RegistryInv, RulingsAreGiven
        <5> QED BY <2>1, <5>1, <5>2
      <4> QED BY <4>1, <4>2
    <3> QED BY <3>4, <3>5 DEF RulingsAreGiven
  <2>9. ClosingIsQuiet' BY <2>1 DEF RegistryInv, ClosingIsQuiet, Going
  <2>10. StraysAreTold'
    <3>1. stray' \subseteq Operations /\ active' = active
      BY <2>1, <2>2 DEF SessionInv, SessionTypeOK
    <3> QED BY <2>2, <2>4, <3>1, StraysKept
  <2> QED BY <2>2, <2>4, <2>5, <2>6, <2>7, <2>8, <2>9, <2>10 DEF RegistryInv
<1> QED BY <1>3, <1>4

LEMMA CloseArrivesKept ==
  ASSUME SessionInv, RegistryInv, NEW r \in Requests, CloseArrives(r)
  PROVE  SessionInv' /\ RegistryInv'
<1>1. r \in Closers /\ Arrives(r) /\ UNCHANGED <<entry, version>>
  BY DEF CloseArrives
<1>2. /\ r # Create /\ reply[Create] # "none" /\ entry = "live"
      /\ request[r].at = "idle" /\ r \notin waiters \cup woken /\ woken = {}
  BY <1>1, Arrival
<1>3. CASE Refused(r) BY <1>1, <1>2, <1>3, RefusedKept
<1>4. CASE /\ closedEntry /\ Reply(r, "closed")
           /\ UNCHANGED <<sessionVars, active, pending, used, resolved, given, closedEntry, waiters, woken>>
  <2>1. /\ waiters' \cup woken' \subseteq (waiters \cup woken) \ {r}
        /\ waiters' \cap woken' = {}
    BY <1>2, <1>4 DEF RegistryInv, WaitersAwait
  <2>2. "closed" \in Replies \ {"none"} BY DEF Replies
  <2>3. closedEntry' \in BOOLEAN /\ (closedEntry' => life = "closed")
    BY <1>4 DEF RegistryInv, EntryTypeOK, ClosingIsQuiet
  <2>4. RegistryInv' BY <1>1, <1>2, <1>4, <2>1, <2>2, <2>3, ReplyKept
  <2>5. SessionInv' BY <1>4 DEF SessionInv, SessionTypeOK, HeadIsServed, StraysFailed, Busy, sessionVars
  <2> QED BY <2>4, <2>5
<1>5. CASE /\ CanClose /\ CallClose
           /\ Leaves(r, "closing")
           /\ UNCHANGED <<active, pending, used, resolved, given, closedEntry, waiters, woken, reply>>
  <2> PICK record : record = [at |-> "closing", op |-> request[r].op, seen |-> 0] OBVIOUS
  <2>1. request' = [request EXCEPT ![r] = record] BY <1>5, LeftKept
  <2>2. SessionInv' /\ Calm({}) /\ consult' = consult /\ (life = "closed" => life' = "closed")
    BY <1>5, CloseKept
  <2>3. record \in RequestRecord /\ Create \in Requests /\ request \in [Requests -> RequestRecord]
    BY DEF RequestRecord, Wheres, Requests, RegistryInv, EntryTypeOK
  <2>4. /\ request' \in [Requests -> RequestRecord]
        /\ \A q \in Requests : request'[q] = IF q = r THEN record ELSE request[q]
    BY <2>1, <2>3, Placed
  <2>5. EntryTypeOK' BY <1>1, <1>5, <2>2, <2>4 DEF RegistryInv, EntryTypeOK
  <2>6. CreateIsFirst' BY <1>1, <1>2, <1>5, <2>3, <2>4 DEF RegistryInv, CreateIsFirst
  <2>7. AwaitsTheActive'
    <3>1. SUFFICES ASSUME NEW q \in Requests, request'[q].at = "awaiting"
                   PROVE  /\ request'[q].op \in Operations
                          /\ active' \subseteq {request'[q].op}
                          /\ work'[request'[q].op] \notin {"done", "failed"} =>
                               request'[q].op \in active'
      BY DEF AwaitsTheActive, Awaiting, Ended
    <3>2. q # r /\ request'[q] = request[q] BY <2>4, <3>1
    <3>3. /\ request[q].op \in Operations /\ active \subseteq {request[q].op}
          /\ ~Ended(request[q].op) => request[q].op \in active
      BY <3>1, <3>2 DEF RegistryInv, AwaitsTheActive, Awaiting
    <3>4. work'[request[q].op] \notin {"done", "failed"} => ~Ended(request[q].op)
      BY <2>2, <3>3 DEF Calm
    <3> QED BY <1>5, <3>2, <3>3, <3>4
  <2>8. WaitersAwait' BY <1>2, <1>5, <2>4 DEF RegistryInv, WaitersAwait, Awaiting
  <2>9. \A p \in Operations : work'[p] \notin Phases \cup {"queued"}
    <3>1. \A p \in Operations : ~Going(p) BY <1>5, NobodyGoing DEF CanClose
    <3> QED BY <2>2, <3>1 DEF Calm
  <2>10. GoingIsActive' BY <2>9 DEF GoingIsActive, Going
  <2>11. ClosingIsQuiet' BY <1>5, <2>2, <2>9 DEF RegistryInv, ClosingIsQuiet, Going, CanClose
  <2>12. PendingIsAsked' /\ RulingsAreGiven'
    BY <1>5, <2>2 DEF RegistryInv, PendingIsAsked, RulingsAreGiven
  <2>13. RepliesStay' /\ \A p : FailureTold(p) => FailureTold(p)'
    <3>1. reply[r] = "none" BY <1>2 DEF RegistryInv, RepliesStay
    <3>2. reply' = [reply EXCEPT ![r] = "none"] BY <1>5, <3>1 DEF RegistryInv, EntryTypeOK
    <3>3. "none" \in Replies BY DEF Replies
    <3> QED BY <1>2, <2>1, <2>3, <3>2, <3>3, ToldStays
  <2>14. StraysAreTold'
    <3>1. stray' \subseteq Operations /\ active' = active
      BY <1>5, <2>2 DEF SessionInv, SessionTypeOK
    <3> QED BY <2>2, <2>13, <3>1, StraysKept
  <2> QED BY <2>2, <2>5, <2>6, <2>7, <2>8, <2>10, <2>11, <2>12, <2>13, <2>14 DEF RegistryInv
<1> QED BY <1>3, <1>4, <1>5 DEF CloseArrives

LEMMA ClosedKept ==
  ASSUME SessionInv, RegistryInv, NEW r \in Requests, Closed(r)
  PROVE  SessionInv' /\ RegistryInv'
<1>1. /\ r \in Closers /\ request[r].at = "closing"
      /\ UNCHANGED <<sessionVars, entry, active, pending, version, used, resolved, given, waiters, woken>>
  BY DEF Closed
<1>2. PICK what \in {"closed", "error"} :
        /\ Reply(r, what)
        /\ closedEntry' \in BOOLEAN /\ (closedEntry' => life = "closed")
  BY DEF Closed, RegistryInv, EntryTypeOK, ClosingIsQuiet
<1>3. what \in Replies \ {"none"} BY DEF Replies
<1>4. r # Create /\ reply[Create] # "none"
  BY <1>1, RegistryAssumption DEF RegistryInv, CreateIsFirst
<1>5. /\ waiters' \cup woken' \subseteq (waiters \cup woken) \ {r}
      /\ waiters' \cap woken' = {}
  BY <1>1 DEF RegistryInv, WaitersAwait, Awaiting
<1>6. RegistryInv' BY <1>1, <1>2, <1>3, <1>4, <1>5, ReplyKept
<1>7. SessionInv' BY <1>1 DEF SessionInv, SessionTypeOK, HeadIsServed, StraysFailed, Busy, sessionVars
<1> QED BY <1>6, <1>7

\* What the run of the session does to the requests: nothing but waking them.
LEMMA RunKept ==
  ASSUME RegistryInv, Calm({}), UNCHANGED <<entry, active, closedEntry, request, reply>>,
         waiters' \cup woken' \subseteq waiters \cup woken, waiters' \cap woken' = {},
         life = "closed" => life' = "closed", life' # "open" => life # "open",
         stray' \subseteq Operations
  PROVE  /\ GoingIsActive' /\ CreateIsFirst' /\ AwaitsTheActive' /\ WaitersAwait'
         /\ ClosingIsQuiet' /\ RepliesStay' /\ StraysAreTold'
<1>1. GoingIsActive'
  <2>1. \A o \in Operations : work'[o] \in Phases \cup {"queued"} => o \in active
    BY DEF Calm, RegistryInv, GoingIsActive
  <2> QED BY <2>1 DEF GoingIsActive, Going
<1>2. AwaitsTheActive'
  <2>1. SUFFICES ASSUME NEW q \in Requests, request[q].at = "awaiting"
                 PROVE  /\ request[q].op \in Operations
                        /\ active \subseteq {request[q].op}
                        /\ work'[request[q].op] \notin {"done", "failed"} =>
                             request[q].op \in active
    BY DEF AwaitsTheActive, Awaiting, Ended
  <2>2. /\ request[q].op \in Operations /\ active \subseteq {request[q].op}
        /\ ~Ended(request[q].op) => request[q].op \in active
    BY <2>1 DEF RegistryInv, AwaitsTheActive, Awaiting
  <2>3. work'[request[q].op] \notin {"done", "failed"} => ~Ended(request[q].op)
    BY <2>2 DEF Calm
  <2> QED BY <2>2, <2>3
<1>3. CreateIsFirst' BY DEF RegistryInv, CreateIsFirst
<1>4. WaitersAwait' BY DEF RegistryInv, WaitersAwait, Awaiting
<1>5. ClosingIsQuiet'
  <2>1. life' # "open" => \A o \in Operations : /\ work'[o] \notin Phases \cup {"queued"}
                                                /\ o \in active => o \notin stray'
    BY DEF RegistryInv, ClosingIsQuiet, Calm
  <2> QED BY <2>1 DEF RegistryInv, ClosingIsQuiet, Going
<1>6. RepliesStay' BY DEF RegistryInv, RepliesStay
<1>7. StraysAreTold'
  <2>1. \A o : FailureTold(o) => FailureTold(o)' BY DEF FailureTold
  <2> QED BY <2>1, StraysKept
<1> QED BY <1>1, <1>2, <1>3, <1>4, <1>5, <1>6, <1>7

\* A run asks for a ruling.
LEMMA PauseKept ==
  ASSUME SessionInv, RegistryInv, NEW o \in Operations, NEW authorized \in BOOLEAN,
         Pause(o, authorized)
  PROVE  SessionInv' /\ RegistryInv'
<1> PICK n : n = Len(consult) OBVIOUS
<1>1. n \in Nat /\ DOMAIN consult = 1..n BY LenProperties DEF SessionInv, SessionTypeOK
<1>2. PICK how \in {"asked", "answered", "refused"} :
        /\ Ask(o, how)
        /\ \/ how # "asked" /\ UNCHANGED <<pending, version, waiters, woken>>
           \/ /\ how = "asked" /\ pending = 0 /\ pending' = n + 1 /\ version' = version + 1
              /\ woken' = woken \cup waiters /\ waiters' = waiters \ waiters
        /\ UNCHANGED <<entry, active, used, resolved, given, closedEntry, request, reply>>
  <2>1. CASE pending # 0
    <3>1. /\ Ask(o, "refused") /\ UNCHANGED <<pending, version, waiters, woken>>
          /\ UNCHANGED <<entry, active, used, resolved, given, closedEntry, request, reply>>
      BY <2>1 DEF Pause, RefusesConsult
    <3> QED BY <3>1
  <2>2. CASE pending = 0 /\ ~authorized
    <3>1. /\ Ask(o, "answered") /\ UNCHANGED <<pending, version, waiters, woken>>
          /\ UNCHANGED <<entry, active, used, resolved, given, closedEntry, request, reply>>
      BY <2>2 DEF Pause, RefusesConsult
    <3> QED BY <3>1
  <2>3. CASE pending = 0 /\ authorized
    <3>1. /\ Ask(o, "asked") /\ pending' = n + 1 /\ version' = version + 1
          /\ woken' = woken \cup waiters /\ waiters' = waiters \ waiters
          /\ UNCHANGED <<entry, active, used, resolved, given, closedEntry, request, reply>>
      BY <2>3 DEF Pause, RefusesConsult, Notified
    <3> QED BY <2>3, <3>1
  <2> QED BY <2>1, <2>2, <2>3
<1> PICK row : row = [op |-> o, ruling |-> Decline, state |-> how] OBVIOUS
<1>3. /\ SessionInv' /\ Calm({}) /\ life' = life
      /\ Len(consult') = n + 1
      /\ \A i \in 1..n : consult'[i] = consult[i]
      /\ consult'[n + 1] = row
  BY <1>2, AskKept
<1>4. DOMAIN consult' = 1..(n + 1) BY <1>3, LenProperties DEF SessionInv, SessionTypeOK
<1>5. pending \in 0..n /\ version \in 0..n BY DEF RegistryInv, EntryTypeOK
<1>6. EntryTypeOK'
  <2>1. pending' \in 0..(n + 1) /\ version' \in 0..(n + 1) BY <1>1, <1>2, <1>5
  <2>2. used' \subseteq DOMAIN consult' BY <1>1, <1>2, <1>4 DEF RegistryInv, EntryTypeOK
  <2> QED BY <1>2, <1>3, <2>1, <2>2 DEF RegistryInv, EntryTypeOK
<1>7. /\ GoingIsActive' /\ CreateIsFirst' /\ AwaitsTheActive' /\ WaitersAwait' /\ ClosingIsQuiet'
      /\ RepliesStay' /\ StraysAreTold'
  <2>1. /\ waiters' \cup woken' \subseteq waiters \cup woken
        /\ waiters' \cap woken' = {} /\ stray' \subseteq Operations
    BY <1>2, <1>3 DEF RegistryInv, WaitersAwait, SessionInv, SessionTypeOK
  <2> QED BY <1>2, <1>3, <2>1, RunKept
<1>8. PendingIsAsked'
  <2>1. SUFFICES ASSUME NEW i \in 1..(n + 1)
                 PROVE  consult'[i].state = "asked" <=> i = pending'
    BY <1>4 DEF PendingIsAsked
  <2>2. CASE i = n + 1
    <3>1. consult'[i].state = how BY <1>3, <2>2
    <3> QED BY <1>1, <1>2, <1>5, <2>2, <3>1
  <2>3. CASE i \in 1..n
    <3>1. consult'[i].state = "asked" <=> i = pending
      BY <1>1, <1>3, <2>3 DEF RegistryInv, PendingIsAsked
    <3> QED BY <1>1, <1>2, <2>3, <3>1
  <2> QED BY <1>1, <2>2, <2>3
<1>9. RulingsAreGiven'
  <2>1. \A g \in given : g.consult \in 1..n
    BY <1>1 DEF RegistryInv, EntryTypeOK, RulingsAreGiven
  <2>2. ASSUME NEW j \in 1..(n + 1)
        PROVE  /\ consult'[j].state = "ruled" => consult'[j].ruling # Decline
               /\ consult'[j].state \in {"answered", "ruled"} /\ consult'[j].ruling # Decline =>
                    \E g \in given : g.consult = j
    <3>1. CASE j = n + 1 BY <1>3, <3>1
    <3>2. CASE j \in 1..n BY <1>1, <1>3, <3>2 DEF RegistryInv, RulingsAreGiven
    <3> QED BY <1>1, <3>1, <3>2
  <2>3. given' = given /\ used' = used /\ resolved' = resolved BY <1>2
  <2>4. ASSUME NEW g \in given
        PROVE  /\ g.consult \in used
               /\ consult'[g.consult].ruling = g.ruling /\ resolved[g.consult] = g.ruling
               /\ g.ruling # Decline => consult'[g.consult].state \in Fates(g.consult)
               /\ \A h \in given : h.consult = g.consult => h = g
    <3>1. consult'[g.consult] = consult[g.consult] BY <1>3, <2>1
    <3> QED BY <3>1 DEF RegistryInv, RulingsAreGiven
  <2> QED BY <1>4, <2>2, <2>3, <2>4 DEF RulingsAreGiven
<1> QED BY <1>3, <1>6, <1>7, <1>8, <1>9 DEF RegistryInv

\* A run goes on: by itself, or with an answer, which the registry vouches for.
LEMMA RunsOnKept ==
  ASSUME SessionInv, RegistryInv, RunsOn
  PROVE  SessionInv' /\ RegistryInv'
<1>1. UNCHANGED <<entry, active, pending, version, used, resolved, given, closedEntry,
                  waiters, woken, request, reply>>
  BY DEF RunsOn, entryVars
<1>2. waiters' \cup woken' \subseteq waiters \cup woken /\ waiters' \cap woken' = {}
  BY <1>1 DEF RegistryInv, WaitersAwait
<1>3. CASE SessionStep
  <2>1. /\ SessionInv' /\ Calm({}) /\ consult' = consult
        /\ life' = life \/ (life = "closing" /\ life' \in {"closed", "open"})
    BY <1>3, StepKept
  <2>2. /\ GoingIsActive' /\ CreateIsFirst' /\ AwaitsTheActive' /\ WaitersAwait' /\ ClosingIsQuiet'
        /\ RepliesStay' /\ StraysAreTold'
    <3>1. /\ life = "closed" => life' = "closed"
          /\ life' # "open" => life # "open"
          /\ stray' \subseteq Operations
      BY <2>1 DEF SessionInv, SessionTypeOK
    <3> QED BY <1>1, <1>2, <2>1, <3>1, RunKept
  <2>3. EntryTypeOK' BY <1>1, <2>1 DEF RegistryInv, EntryTypeOK
  <2>4. PendingIsAsked' /\ RulingsAreGiven'
    BY <1>1, <2>1 DEF RegistryInv, PendingIsAsked, RulingsAreGiven
  <2> QED BY <2>1, <2>2, <2>3, <2>4 DEF RegistryInv
<1>4. ASSUME NEW i \in 1..MaxAsks, i \in DOMAIN consult, ApplyAnswer(i, Vouches(i))
      PROVE  SessionInv' /\ RegistryInv'
  <2> PICK vouched : vouched = Vouches(i) OBVIOUS
  <2>1. vouched \in BOOLEAN BY DEF Vouches
  <2>2. /\ SessionInv' /\ Calm({}) /\ life' = life
        /\ consult[i].state = "answered"
        /\ Len(consult') = Len(consult) /\ DOMAIN consult' = DOMAIN consult
        /\ \A j \in DOMAIN consult : j # i => consult'[j] = consult[j]
        /\ consult'[i].ruling = consult[i].ruling
        /\ consult'[i].state = IF consult[i].ruling # Decline /\ vouched THEN "ruled" ELSE "failed"
    BY <1>4, <2>1, ApplyKept
  <2>3. /\ GoingIsActive' /\ CreateIsFirst' /\ AwaitsTheActive' /\ WaitersAwait' /\ ClosingIsQuiet'
        /\ RepliesStay' /\ StraysAreTold'
    <3>1. stray' \subseteq Operations BY <2>2 DEF SessionInv, SessionTypeOK
    <3> QED BY <1>1, <1>2, <2>2, <3>1, RunKept
  <2>4. EntryTypeOK' BY <1>1, <2>2 DEF RegistryInv, EntryTypeOK
  <2>5. PendingIsAsked'
    <3>1. i # pending BY <1>4, <2>2 DEF RegistryInv, PendingIsAsked
    <3>2. \A j \in DOMAIN consult : consult'[j].state = "asked" <=> j = pending
      BY <2>2, <3>1 DEF RegistryInv, PendingIsAsked
    <3> QED BY <1>1, <2>2, <3>2 DEF PendingIsAsked
  <2>6. RulingsAreGiven'
    <3>1. \A g \in given : g.consult \in DOMAIN consult
      BY DEF RegistryInv, EntryTypeOK, RulingsAreGiven
    <3>2. ASSUME NEW g \in given
          PROVE  /\ g.consult \in used
                 /\ consult'[g.consult].ruling = g.ruling /\ resolved[g.consult] = g.ruling
                 /\ g.ruling # Decline => consult'[g.consult].state \in Fates(g.consult)
                 /\ \A h \in given : h.consult = g.consult => h = g
      <4>1. /\ g.consult \in used
            /\ consult[g.consult].ruling = g.ruling /\ resolved[g.consult] = g.ruling
            /\ g.ruling # Decline => consult[g.consult].state \in Fates(g.consult)
            /\ \A h \in given : h.consult = g.consult => h = g
        BY DEF RegistryInv, RulingsAreGiven
      <4>2. CASE g.consult = i
        <5>1. CASE g.ruling = Decline BY <2>2, <4>1, <4>2, <5>1
        <5>2. CASE g.ruling # Decline
          <6>1. i \in 1..MaxAsks /\ Driver[i] \in {"none", "host", "other"}
            BY RegistryAssumption
          <6>2. vouched <=> Driver[i] # "other" BY <4>1, <4>2, <6>1 DEF Vouches
          <6>3. consult'[i].state = IF vouched THEN "ruled" ELSE "failed" BY <2>2, <4>1, <4>2, <5>2
          <6>4. consult'[i].state \in Fates(i) BY <6>2, <6>3 DEF Fates
          <6> QED BY <2>2, <4>1, <4>2, <6>4
        <5> QED BY <5>1, <5>2
      <4>3. CASE g.consult # i BY <2>2, <3>1, <4>1, <4>3
      <4> QED BY <4>2, <4>3
    <3>3. ASSUME NEW j \in DOMAIN consult
          PROVE  /\ consult'[j].state = "ruled" => consult'[j].ruling # Decline
                 /\ consult'[j].state \in {"answered", "ruled"} /\ consult'[j].ruling # Decline =>
                      \E g \in given : g.consult = j
      <4>1. /\ consult[j].state = "ruled" => consult[j].ruling # Decline
            /\ consult[j].state \in {"answered", "ruled"} /\ consult[j].ruling # Decline =>
                 \E g \in given : g.consult = j
        BY DEF RegistryInv, RulingsAreGiven
      <4>2. CASE j = i BY <2>2, <4>1, <4>2
      <4>3. CASE j # i BY <2>2, <4>1, <4>3
      <4> QED BY <4>2, <4>3
    <3> QED BY <1>1, <2>2, <3>2, <3>3 DEF RulingsAreGiven
  <2> QED BY <2>2, <2>3, <2>4, <2>5, <2>6 DEF RegistryInv
<1> QED BY <1>3, <1>4 DEF RunsOn

LEMMA RegistryKept ==
  ASSUME SessionInv, RegistryInv, RegistryNext
  PROVE  SessionInv' /\ RegistryInv'
<1>1. ASSUME NEW r \in Requests, PromptArrives(r)
      PROVE  SessionInv' /\ RegistryInv'
  BY <1>1, PromptArrivesKept
<1>2. ASSUME NEW r \in Requests, NEW i \in 1..MaxAsks, NEW ruling \in Decisions \cup {Decline},
             RuleArrives(r, i, ruling)
      PROVE  SessionInv' /\ RegistryInv'
  BY <1>2, RuleArrivesKept
<1> QED BY <1>1, <1>2, CreationKept, WakeKept, CompleteKept, CloseArrivesKept, ClosedKept,
           PauseKept, RunsOnKept DEF RegistryNext

-----------------------------------------------------------------------------
(* The listening session of the inspector.                                   *)

\* A post settles only if it has started, and then frees what it counted for.
LEMMA SettledKept ==
  ASSUME ServerInv, NEW r \in Posts, Settled(r)
  PROVE  ServerInv' /\ UNCHANGED sessionVars
<1>1. /\ post[r] = "settling" /\ post' = [post EXCEPT ![r] = "answered"]
      /\ liveRuns' = IF r \in LivePosts THEN liveRuns - 1 ELSE liveRuns
      /\ UNCHANGED <<sessionVars, runState, failed, shown, tracked>>
  BY DEF Settled, Respond, LivePosts
<1>2. post \in [Posts -> {"idle", "settling", "answered"}] /\ liveRuns \in 0..1
      /\ LivePosts \subseteq Posts
  BY DEF ServerInv, LiveRunsCounted, LivePosts, Posts
<1>3. /\ post' \in [Posts -> {"idle", "settling", "answered"}]
      /\ \A q \in Posts : post'[q] = "settling" <=> q # r /\ post[q] = "settling"
  BY <1>1, <1>2
<1>4. LiveRunsCounted'
  <2>1. CASE r \in LivePosts
    <3>1. liveRuns = 1 BY <1>1, <1>2, <2>1 DEF ServerInv, LiveRunsCounted
    <3>2. liveRuns' = 0 BY <1>1, <2>1, <3>1
    <3>3. \A q \in LivePosts : post'[q] # "settling"
      BY <1>1, <1>2, <1>3, <2>1 DEF ServerInv, LiveRunsCounted
    <3> QED BY <3>2, <3>3 DEF LiveRunsCounted
  <2>2. CASE r \notin LivePosts
    BY <1>1, <1>2, <1>3, <2>2 DEF ServerInv, LiveRunsCounted
  <2> QED BY <2>1, <2>2
<1> QED BY <1>1, <1>3, <1>4 DEF ServerInv, WaitingShowsItsRequest, sessionVars

\* A live run starts only when none is.
LEMMA LivePostKept ==
  ASSUME SessionInv, ServerInv, NEW r \in LivePosts, LivePost(r)
  PROVE  SessionInv' /\ ServerInv'
<1>1. /\ post[r] = "idle" /\ post \in [Posts -> {"idle", "settling", "answered"}]
      /\ liveRuns \in 0..1 /\ LivePosts \subseteq Posts /\ r \in Posts
  BY DEF LivePost, ServerInv, LiveRunsCounted, LivePosts, Posts
<1>2. CASE AtLimit
  <2>1. /\ post' = [post EXCEPT ![r] = "answered"]
        /\ UNCHANGED <<sessionVars, runState, failed, shown, stored, tracked, liveRuns>>
    BY <1>2 DEF LivePost, Deny, Respond
  <2>2. /\ post' \in [Posts -> {"idle", "settling", "answered"}]
        /\ \A q \in Posts : post'[q] = "settling" <=> post[q] = "settling"
    BY <1>1, <2>1
  <2>3. LiveRunsCounted' BY <1>1, <2>1, <2>2 DEF ServerInv, LiveRunsCounted
  <2> QED BY <2>1, <2>2, <2>3
          DEF SessionInv, SessionTypeOK, HeadIsServed, StraysFailed, Busy, ServerInv, WaitingShowsItsRequest, sessionVars
<1>3. CASE ~AtLimit
  <2>1. liveRuns = 0 BY <1>1, <1>3 DEF AtLimit
  <2>2. liveRuns' = liveRuns + 1 /\ post' = [post EXCEPT ![r] = "settling"]
    BY <1>3 DEF LivePost, Settling
  <2>3. liveRuns' = 1 BY <2>1, <2>2
  <2>4. /\ post' \in [Posts -> {"idle", "settling", "answered"}]
        /\ \A q \in Posts : post'[q] = "settling" <=> q = r \/ post[q] = "settling"
    BY <1>1, <2>2
  <2>5. \A q \in LivePosts : post[q] # "settling" BY <2>1 DEF ServerInv, LiveRunsCounted
  <2>6. LiveRunsCounted' BY <1>1, <2>3, <2>4, <2>5 DEF LiveRunsCounted
  <2>7. CASE UNCHANGED <<sessionVars, runState, failed, shown, stored, tracked>>
    BY <2>4, <2>6, <2>7
    DEF SessionInv, SessionTypeOK, HeadIsServed, StraysFailed, Busy, ServerInv, WaitingShowsItsRequest, sessionVars
  <2>8. CASE (\E o \in Starts : CallStart(o) /\ Track(o)) /\ UNCHANGED <<failed, shown, stored>>
    <3>1. PICK o \in Starts : CallStart(o) /\ Track(o) BY <2>8
    <3>2. SessionInv' /\ consult' = consult /\ o \in Operations BY <3>1, StartKept
    <3>3. /\ tracked' = tracked \cup {o}
          /\ runState' = (IF runState = "waiting" THEN "waiting" ELSE "running")
      BY <3>1 DEF Track
    <3> QED BY <2>4, <2>6, <2>8, <3>2, <3>3 DEF ServerInv, WaitingShowsItsRequest
  <2> QED BY <1>3, <2>7, <2>8 DEF LivePost
<1> QED BY <1>2, <1>3

LEMMA PostsKept ==
  ASSUME SessionInv, ServerInv, NEW r \in Posts,
         \/ PostPrompt(r)
         \/ PostStop(r)
         \/ \E ruling \in Decisions \cup {Decline} : PostAttest(r, ruling)
  PROVE  SessionInv' /\ ServerInv'
<1>1. /\ post \in [Posts -> {"idle", "settling", "answered"}] /\ liveRuns \in 0..1
      /\ LivePosts \subseteq Posts
  BY DEF ServerInv, LiveRunsCounted, LivePosts, Posts
<1>2. ASSUME post[r] = "idle", NEW at \in {"settling", "answered"}, post' = [post EXCEPT ![r] = at],
             at = "settling" => r \notin LivePosts, liveRuns' = liveRuns
      PROVE  post' \in [Posts -> {"idle", "settling", "answered"}] /\ LiveRunsCounted'
  <2>1. post' \in [Posts -> {"idle", "settling", "answered"}] BY <1>1, <1>2
  <2>2. \A q \in LivePosts : post'[q] = "settling" <=> post[q] = "settling" BY <1>1, <1>2
  <2>3. LiveRunsCounted' BY <1>2, <2>2 DEF ServerInv, LiveRunsCounted
  <2> QED BY <2>1, <2>3
<1>3. CASE post[r] = "idle" /\ Deny(r)
  <2>1. /\ post' = [post EXCEPT ![r] = "answered"]
        /\ UNCHANGED <<sessionVars, runState, failed, shown, stored, tracked, liveRuns>>
    BY <1>3 DEF Deny, Respond
  <2>2. post' \in [Posts -> {"idle", "settling", "answered"}] /\ LiveRunsCounted'
    BY <1>2, <1>3, <2>1
  <2> QED BY <2>1, <2>2
          DEF SessionInv, SessionTypeOK, HeadIsServed, StraysFailed, Busy, ServerInv, WaitingShowsItsRequest, sessionVars
<1>4. CASE PostPrompt(r) /\ ~Deny(r)
  <2> PICK p : p = PromptPosts[r] OBVIOUS
  <2>1. /\ r \in DOMAIN PromptPosts /\ post[r] = "idle" /\ shown = 0
        /\ CallPrompt(p) /\ Track(p) /\ Settling(r)
        /\ UNCHANGED <<failed, shown, stored, liveRuns>>
    BY <1>4 DEF PostPrompt
  <2>2. SessionInv' /\ consult' = consult /\ p \in Operations BY <2>1, PromptKept
  <2>3. r \notin LivePosts BY <2>1, ServerAssumption DEF LivePosts
  <2>4. post' \in [Posts -> {"idle", "settling", "answered"}] /\ LiveRunsCounted'
    BY <1>2, <2>1, <2>3 DEF Settling
  <2>5. /\ tracked' = tracked \cup {p}
        /\ runState' = (IF runState = "waiting" THEN "waiting" ELSE "running")
    BY <2>1 DEF Track
  <2> QED BY <2>1, <2>2, <2>4, <2>5 DEF ServerInv, WaitingShowsItsRequest
<1>5. CASE PostStop(r)
  <2>1. /\ post[r] = "idle" /\ post' = [post EXCEPT ![r] = "answered"]
        /\ UNCHANGED <<sessionVars, runState, failed, shown, tracked, liveRuns>>
    BY <1>5 DEF PostStop, Respond
  <2>2. post' \in [Posts -> {"idle", "settling", "answered"}] /\ LiveRunsCounted'
    BY <1>2, <2>1
  <2> QED BY <2>1, <2>2
          DEF SessionInv, SessionTypeOK, HeadIsServed, StraysFailed, Busy, ServerInv, WaitingShowsItsRequest, sessionVars
<1>6. ASSUME NEW ruling \in Decisions \cup {Decline}, PostAttest(r, ruling), ~Deny(r)
      PROVE  SessionInv' /\ ServerInv'
  <2>1. /\ r \in DOMAIN Attests /\ post[r] = "idle" /\ Attests[r] \in DOMAIN consult
        /\ shown = Attests[r]
        /\ Answer(shown, ruling) /\ shown' = 0 /\ runState' = "running" /\ Settling(r)
        /\ UNCHANGED <<life, started, turn, work, stray, failed, stored, tracked, liveRuns>>
    BY <1>6 DEF PostAttest
  <2>2. SessionInv' /\ Len(consult') = Len(consult) BY <2>1, AnswerKept
  <2>3. r \notin LivePosts BY <2>1, ServerAssumption DEF LivePosts
  <2>4. post' \in [Posts -> {"idle", "settling", "answered"}] /\ LiveRunsCounted'
    BY <1>2, <2>1, <2>3 DEF Settling
  <2>5. shown' \in 0..Len(consult') BY <2>1, <2>2, LenProperties DEF SessionInv, SessionTypeOK
  <2> QED BY <2>1, <2>2, <2>4, <2>5 DEF ServerInv, WaitingShowsItsRequest
<1> QED BY <1>3, <1>4, <1>5, <1>6 DEF PostPrompt, PostAttest

\* The run asks, goes on, or ends, and the session's state follows it.
LEMMA ServedKept ==
  ASSUME SessionInv, ServerInv,
         \/ \E o \in Operations : Tracked(o) \/ Show(o)
         \/ ServerRunsOn
  PROVE  SessionInv' /\ ServerInv'
<1> PICK n : n = Len(consult) OBVIOUS
<1>1. n \in Nat /\ DOMAIN consult = 1..n BY LenProperties DEF SessionInv, SessionTypeOK
<1>2. ASSUME NEW o \in Operations, Tracked(o)
      PROVE  SessionInv' /\ ServerInv'
  <2>1. /\ tracked' = tracked \ {o}
        /\ \/ runState' = (IF runState = "waiting" THEN "waiting" ELSE "done") /\ failed' = failed
           \/ runState' = "error" /\ failed' = TRUE
        /\ UNCHANGED <<sessionVars, shown, stored, liveRuns, post>>
    BY <1>2 DEF Tracked, AfterDone
  <2> QED BY <2>1 DEF SessionInv, SessionTypeOK, HeadIsServed, StraysFailed, Busy, ServerInv, LiveRunsCounted,
                      WaitingShowsItsRequest, sessionVars
<1>3. ASSUME NEW o \in Operations, Show(o)
      PROVE  SessionInv' /\ ServerInv'
  <2>1. /\ Ask(o, "asked") /\ shown' = n + 1 /\ runState' = "waiting"
        /\ UNCHANGED <<failed, stored, tracked, liveRuns, post>>
    BY <1>3 DEF Show
  <2> PICK how \in {"asked", "answered", "refused"} : how = "asked" OBVIOUS
  <2> PICK row : row = [op |-> o, ruling |-> Decline, state |-> how] OBVIOUS
  <2>2. SessionInv' /\ Len(consult') = n + 1 /\ consult'[n + 1] = row
    BY <2>1, AskKept
  <2>3. consult'[shown'].state = "asked" BY <2>1, <2>2
  <2>4. shown' \in 0..Len(consult') /\ shown' # 0 BY <1>1, <2>1, <2>2
  <2> QED BY <2>1, <2>2, <2>3, <2>4 DEF ServerInv, LiveRunsCounted, WaitingShowsItsRequest
<1>4. CASE ServerRunsOn
  <2>1. UNCHANGED <<runState, failed, shown, stored, tracked, liveRuns, post>>
    BY <1>4 DEF ServerRunsOn, serverVars
  <2>2. /\ SessionInv' /\ Len(consult') = n
        /\ \A j \in 1..n : consult[j].state = "asked" => consult'[j].state = "asked"
    <3>1. CASE SessionStep BY <3>1, StepKept
    <3>2. ASSUME NEW i \in 1..MaxAsks, NEW vouched \in BOOLEAN, ApplyAnswer(i, vouched)
          PROVE  /\ SessionInv' /\ Len(consult') = n
                 /\ \A j \in 1..n : consult[j].state = "asked" => consult'[j].state = "asked"
      <4>1. /\ SessionInv' /\ consult[i].state = "answered" /\ Len(consult') = Len(consult)
            /\ \A j \in DOMAIN consult : j # i => consult'[j] = consult[j]
        BY <3>2, ApplyKept
      <4> QED BY <1>1, <4>1
    <3> QED BY <1>4, <3>1, <3>2 DEF ServerRunsOn
  <2>3. shown \in 0..n BY DEF ServerInv
  <2>4. shown # 0 => shown \in 1..n BY <1>1, <2>3
  <2>5. WaitingShowsItsRequest' BY <2>1, <2>2, <2>4 DEF ServerInv, WaitingShowsItsRequest
  <2> QED BY <2>1, <2>2, <2>5 DEF ServerInv, LiveRunsCounted
<1> QED BY <1>2, <1>3, <1>4

LEMMA ServerKept ==
  ASSUME SessionInv, ServerInv, ServerNext
  PROVE  SessionInv' /\ ServerInv'
<1>1. ASSUME NEW r \in Posts, Settled(r)
      PROVE  SessionInv' /\ ServerInv'
  BY <1>1, SettledKept DEF SessionInv, SessionTypeOK, HeadIsServed, StraysFailed, Busy, sessionVars
<1> QED BY <1>1, LivePostKept, PostsKept, ServedKept DEF ServerNext, LivePosts

-----------------------------------------------------------------------------
(* The flow saves: the head of the queue is the one that writes.             *)

LEMMA FlowKept ==
  ASSUME FlowInv, FlowNext
  PROVE  FlowInv'
<1>1. /\ file \in Sources /\ queue \in Seq(Saves) /\ save \in [Saves -> SaveRecord]
      /\ \A s \in Saves : /\ save[s].at \in {"checking", "graphing"} => First(s)
                          /\ save[s].at = "checking" => save[s].current = save[s].base
  BY DEF FlowInv
<1>2. ASSUME NEW s \in Saves, Load(s) PROVE FlowInv'
  <2>1. /\ save[s].at = "idle" /\ UNCHANGED <<file, queue, writes>>
        /\ save' = [save EXCEPT ![s] = [@ EXCEPT !.at = "loaded", !.base = file]]
    BY <1>2 DEF Load
  <2>2. save' \in [Saves -> SaveRecord] BY <1>1, <2>1 DEF SaveRecord, Steps
  <2>3. \A t \in Saves : IF t = s THEN save'[t].at = "loaded" ELSE save'[t] = save[t]
    BY <1>1, <2>1 DEF SaveRecord
  <2> QED BY <1>1, <2>1, <2>2, <2>3 DEF FlowInv, First
<1>3. ASSUME NEW s \in Saves, Put(s) PROVE FlowInv'
  <2>1. /\ save[s].at = "loaded" /\ UNCHANGED <<file, writes>> /\ queue' = Append(queue, s)
        /\ save' = [save EXCEPT ![s] = [@ EXCEPT !.at = "queued"]]
    BY <1>3 DEF Put
  <2>2. save' \in [Saves -> SaveRecord] BY <1>1, <2>1 DEF SaveRecord, Steps
  <2>3. \A t \in Saves : IF t = s THEN save'[t].at = "queued" ELSE save'[t] = save[t]
    BY <1>1, <2>1 DEF SaveRecord
  <2>4. queue' \in Seq(Saves) /\ queue' # << >> /\ (queue # << >> => Head(queue') = Head(queue))
    BY <1>1, <2>1, AppendProperties, HeadTailAppend
  <2>5. \A t \in Saves : First(t) => queue' # << >> /\ Head(queue') = t
    BY <2>4 DEF First
  <2> QED BY <1>1, <2>1, <2>2, <2>3, <2>4, <2>5 DEF FlowInv, First
<1>4. ASSUME NEW s \in Saves, First(s), NEW at \in {"stale", "invalid", "saved"}, Ends(s, at),
             file' = file
      PROVE  FlowInv'
  <2>1. /\ queue' = Tail(queue) /\ queue # << >> /\ Head(queue) = s
        /\ save' = [save EXCEPT ![s] = [@ EXCEPT !.at = at]]
    BY <1>4 DEF Ends, First
  <2>2. save' \in [Saves -> SaveRecord] BY <1>1, <2>1 DEF SaveRecord, Steps
  <2>3. \A t \in Saves : IF t = s THEN save'[t].at = at ELSE save'[t] = save[t]
    BY <1>1, <2>1 DEF SaveRecord
  <2>4. queue' \in Seq(Saves) BY <1>1, <2>1, HeadTailProperties
  <2>5. \A t \in Saves \ {s} : save[t].at \notin {"checking", "graphing"}
    BY <1>1, <2>1 DEF First
  <2>6. \A t \in Saves : save'[t].at \notin {"checking", "graphing"} BY <2>3, <2>5
  <2> QED BY <1>1, <1>4, <2>2, <2>4, <2>6 DEF FlowInv
<1>5. ASSUME NEW s \in Saves, Begin(s) PROVE FlowInv'
  <2>1. First(s) /\ UNCHANGED <<file, writes>> BY <1>5 DEF Begin
  <2>2. CASE Ends(s, "stale") \/ Ends(s, "invalid") BY <1>4, <2>1, <2>2
  <2>3. ASSUME NEW new \in Sources, queue' = queue,
               save' = [save EXCEPT ![s].at = "checking", ![s].new = new, ![s].current = file],
               save[s].base = file
        PROVE  FlowInv'
    <3>1. save' = [save EXCEPT ![s] = [@ EXCEPT !.at = "checking", !.new = new, !.current = file]]
      BY <2>3
    <3>2. save' \in [Saves -> SaveRecord] BY <1>1, <3>1 DEF SaveRecord, Steps
    <3>3. \A t \in Saves : IF t = s THEN save'[t].at = "checking" /\ save'[t].current = file
                                         /\ save'[t].base = file
                                    ELSE save'[t] = save[t]
      BY <1>1, <2>3, <3>1 DEF SaveRecord
    <3> QED BY <1>1, <2>1, <2>3, <3>2, <3>3 DEF FlowInv, First
  <2> QED BY <1>5, <2>2, <2>3 DEF Begin
<1>6. ASSUME NEW s \in Saves, Replace(s) PROVE FlowInv'
  <2>1. save[s].at = "checking" /\ First(s) BY <1>1, <1>6 DEF Replace
  <2>2. CASE Ends(s, "stale") /\ UNCHANGED file BY <1>4, <2>1, <2>2
  <2>3. CASE /\ file' = save[s].new /\ UNCHANGED queue
             /\ save' = [save EXCEPT ![s].at = "graphing"]
    <3>1. save' = [save EXCEPT ![s] = [@ EXCEPT !.at = "graphing"]] BY <2>3
    <3>2. save' \in [Saves -> SaveRecord] BY <1>1, <3>1 DEF SaveRecord, Steps
    <3>3. \A t \in Saves : IF t = s THEN save'[t].at = "graphing" ELSE save'[t] = save[t]
      BY <1>1, <3>1 DEF SaveRecord
    <3>4. file' \in Sources BY <1>1, <2>3 DEF SaveRecord
    <3> QED BY <1>1, <2>1, <2>3, <3>2, <3>3, <3>4 DEF FlowInv, First
  <2> QED BY <1>6, <2>2, <2>3 DEF Replace
<1>7. ASSUME NEW s \in Saves, Rejected(s) PROVE FlowInv'
  BY <1>1, <1>4, <1>7 DEF Rejected
<1>8. ASSUME NEW s \in Saves, Graphed(s) PROVE FlowInv'
  BY <1>1, <1>4, <1>8 DEF Graphed
<1>9. ASSUME NEW w \in Writes, Write(w) PROVE FlowInv'
  BY <1>1, <1>9 DEF Write, FlowInv, First
<1> QED BY <1>2, <1>3, <1>5, <1>6, <1>7, <1>8, <1>9 DEF FlowNext

-----------------------------------------------------------------------------
(* The services together.                                                    *)

LEMMA RegistryUnchanged ==
  ASSUME UNCHANGED entryVars, UNCHANGED sessionVars
  PROVE  /\ SessionInv => SessionInv'
         /\ RegistryInv => RegistryInv'
<1>1. UNCHANGED <<life, started, turn, work, stray, consult>> BY DEF sessionVars
<1>2. UNCHANGED <<entry, active, pending, version, used, resolved, given, closedEntry,
                  waiters, woken, request, reply>>
  BY DEF entryVars
<1>3. SessionInv => SessionInv'
  BY <1>1 DEF SessionInv, SessionTypeOK, HeadIsServed, StraysFailed, Busy
<1>4. RegistryInv => EntryTypeOK' /\ GoingIsActive' /\ CreateIsFirst'
  BY <1>1, <1>2 DEF RegistryInv, EntryTypeOK, GoingIsActive, CreateIsFirst, Going
<1>5. RegistryInv => AwaitsTheActive' /\ WaitersAwait'
  BY <1>1, <1>2 DEF RegistryInv, AwaitsTheActive, WaitersAwait, Awaiting, Ended
<1>6. RegistryInv => PendingIsAsked' /\ RulingsAreGiven' /\ ClosingIsQuiet'
  BY <1>1, <1>2 DEF RegistryInv, PendingIsAsked, RulingsAreGiven, ClosingIsQuiet, Going
<1>7. RegistryInv => RepliesStay' /\ StraysAreTold'
  BY <1>1, <1>2 DEF RegistryInv, RepliesStay, StraysAreTold, FailureTold
<1> QED BY <1>3, <1>4, <1>5, <1>6, <1>7 DEF RegistryInv

LEMMA NoEntryUnchanged ==
  ASSUME UNCHANGED entryVars
  PROVE  NoEntry => NoEntry'
BY DEF NoEntry, entryVars

LEMMA ServerUnchanged ==
  ASSUME UNCHANGED serverVars, UNCHANGED sessionVars
  PROVE  ServerInv => ServerInv'
BY DEF ServerInv, LiveRunsCounted, WaitingShowsItsRequest, serverVars, sessionVars

\* The listening session has not begun, whatever becomes of the runtime's.
LEMMA NoServerUnchanged ==
  ASSUME UNCHANGED serverVars, SessionInv'
  PROVE  NoServer => NoServer'
<1>1. UNCHANGED <<runState, failed, shown, stored, tracked, liveRuns, post>> BY DEF serverVars
<1>2. NoServer => 0 \in 0..Len(consult')
  BY LenProperties DEF SessionInv, SessionTypeOK
<1> QED BY <1>1, <1>2 DEF NoServer, ServerInv, LiveRunsCounted, WaitingShowsItsRequest

LEMMA FlowUnchanged ==
  ASSUME UNCHANGED flowVars
  PROVE  FlowInv => FlowInv'
BY DEF FlowInv, First, flowVars

LEMMA InitEstablishes == Init => StudioInv
<1> SUFFICES ASSUME Init PROVE StudioInv OBVIOUS
<1>1. SessionInit /\ RegistryInit /\ ServerInit /\ FlowInit BY DEF Init
<1>2. /\ consult = << >> /\ turn = << >> /\ Len(consult) = 0 /\ DOMAIN consult = {}
      /\ consult \in Seq(Consults) /\ turn \in Seq(Prompts) /\ 0 \in 0..Len(consult)
  <2>1. consult = << >> /\ turn = << >> BY <1>1 DEF SessionInit
  <2> QED BY <2>1, EmptySeq
<1>3. SessionInv
  <2>1. /\ work = [o \in Operations |-> "idle"] /\ life = "open" /\ started = FALSE /\ stray = {}
    BY <1>1 DEF SessionInit
  <2>2. HeadIsServed BY <2>1 DEF HeadIsServed, Busy, Phases, Operations
  <2>3. Len(consult) <= MaxAsks BY <1>2, SessionAssumption
  <2>4. SessionTypeOK BY <1>2, <2>1 DEF SessionTypeOK
  <2>5. StraysFailed BY <2>1 DEF StraysFailed
  <2> QED BY <2>2, <2>3, <2>4, <2>5 DEF SessionInv
<1>4. RegistryInv
  <2>1. /\ entry = "absent" /\ active = {} /\ pending = 0 /\ version = 0
        /\ used = {} /\ resolved = [i \in 1..MaxAsks |-> Decline]
        /\ given = {} /\ closedEntry = FALSE /\ waiters = {} /\ woken = {}
        /\ request = [r \in Requests |-> NoRequest]
        /\ reply = [r \in Requests |-> "none"]
    BY <1>1 DEF RegistryInit
  <2>2. \A r \in Requests : request[r].at = "idle" /\ reply[r] = "none"
    BY <2>1 DEF NoRequest
  <2>3. EntryTypeOK
    <3>1. NoRequest \in RequestRecord BY DEF NoRequest, RequestRecord, Wheres
    <3>2. "none" \in Replies BY DEF Replies
    <3>3. request \in [Requests -> RequestRecord] /\ reply \in [Requests -> Replies]
      BY <2>1, <3>1, <3>2
    <3>4. given \subseteq Rulings /\ used \subseteq DOMAIN consult /\ active \subseteq Operations
      BY <2>1
    <3>5. resolved \in [1..MaxAsks -> Decisions \cup {Decline}] BY <2>1
    <3>6. pending \in 0..Len(consult) /\ version \in 0..Len(consult) BY <1>2, <2>1
    <3> QED BY <2>1, <3>3, <3>4, <3>5, <3>6 DEF EntryTypeOK
  <2>4. GoingIsActive
    BY <1>1 DEF SessionInit, GoingIsActive, Going, Phases
  <2>5. Create \in Requests BY DEF Requests
  <2>6. CreateIsFirst /\ AwaitsTheActive /\ WaitersAwait
    BY <2>1, <2>2, <2>5 DEF CreateIsFirst, AwaitsTheActive, WaitersAwait, Awaiting
  <2>7. PendingIsAsked /\ RulingsAreGiven
    BY <1>2, <2>1 DEF PendingIsAsked, RulingsAreGiven
  <2>8. ClosingIsQuiet BY <1>1, <2>1 DEF SessionInit, ClosingIsQuiet
  <2>9. RepliesStay BY <2>2 DEF RepliesStay
  <2>10. StraysAreTold BY <1>1 DEF SessionInit, StraysAreTold
  <2> QED BY <2>3, <2>4, <2>6, <2>7, <2>8, <2>9, <2>10 DEF RegistryInv
<1>5. NoEntry
  BY <1>1, <1>4 DEF RegistryInit, NoEntry, RegistryInv, EntryTypeOK
<1>6. NoServer
  <2>1. /\ runState = "running" /\ failed = FALSE /\ shown = 0 /\ tracked = {} /\ liveRuns = 0
        /\ post = [r \in Posts |-> "idle"]
    BY <1>1 DEF ServerInit
  <2>2. \A r \in LivePosts : post[r] = "idle" BY <2>1 DEF LivePosts, Posts
  <2>3. LiveRunsCounted BY <2>1, <2>2 DEF LiveRunsCounted
  <2>4. post \in [Posts -> {"idle", "settling", "answered"}] BY <2>1
  <2>5. shown \in 0..Len(consult) BY <1>2, <2>1
  <2> QED BY <2>1, <2>3, <2>4, <2>5 DEF NoServer, ServerInv, WaitingShowsItsRequest
<1>7. FlowInv
  <2>1. /\ file \in Sources /\ queue = << >>
        /\ save = [s \in Saves |-> [at |-> "idle", base |-> file, new |-> file, current |-> file]]
    BY <1>1 DEF FlowInit
  <2>2. save \in [Saves -> SaveRecord] BY <2>1 DEF SaveRecord, Steps
  <2>3. queue \in Seq(Saves) BY <2>1
  <2> QED BY <2>1, <2>2, <2>3 DEF FlowInv
<1> QED BY <1>3, <1>4, <1>5, <1>6, <1>7 DEF StudioInv, NoServer

LEMMA NextPreserves ==
  ASSUME StudioInv, [Next]_studioVars
  PROVE  StudioInv'
<1>1. CASE service = "registry" /\ RegistryNext /\ UNCHANGED <<serverVars, flowVars, service>>
  <2>1. SessionInv /\ RegistryInv /\ NoServer /\ FlowInv BY <1>1 DEF StudioInv
  <2>2. SessionInv' /\ RegistryInv' BY <1>1, <2>1, RegistryKept
  <2>3. UNCHANGED serverVars /\ UNCHANGED flowVars /\ service' = service BY <1>1
  <2>4. NoServer' BY <2>1, <2>2, <2>3, NoServerUnchanged
  <2>5. FlowInv' BY <2>1, <2>3, FlowUnchanged
  <2> QED BY <1>1, <2>2, <2>3, <2>4, <2>5 DEF StudioInv
<1>2. CASE service = "server" /\ ServerNext /\ UNCHANGED <<entryVars, flowVars, service>>
  <2>1. SessionInv /\ NoEntry /\ ServerInv /\ FlowInv BY <1>2 DEF StudioInv
  <2>2. SessionInv' /\ ServerInv' BY <1>2, <2>1, ServerKept
  <2>3. UNCHANGED entryVars /\ UNCHANGED flowVars /\ service' = service BY <1>2
  <2>4. NoEntry' BY <2>1, <2>3, NoEntryUnchanged
  <2>5. FlowInv' BY <2>1, <2>3, FlowUnchanged
  <2> QED BY <1>2, <2>2, <2>3, <2>4, <2>5 DEF StudioInv
<1>3. CASE UNCHANGED <<sessionVars, entryVars, serverVars, service>> /\ (FlowNext \/ UNCHANGED flowVars)
  <2>1. /\ UNCHANGED sessionVars /\ UNCHANGED entryVars /\ UNCHANGED serverVars
        /\ service' = service
    BY <1>3
  <2>2. SessionInv /\ FlowInv BY DEF StudioInv
  <2>3. SessionInv' BY <2>1, <2>2, RegistryUnchanged
  <2>4. FlowInv' BY <1>3, <2>2, FlowKept, FlowUnchanged
  <2>5. /\ RegistryInv => RegistryInv'
        /\ NoEntry => NoEntry'
        /\ ServerInv => ServerInv'
        /\ NoServer => NoServer'
    BY <2>1, <2>3, RegistryUnchanged, NoEntryUnchanged, ServerUnchanged, NoServerUnchanged
  <2> QED BY <2>1, <2>3, <2>4, <2>5 DEF StudioInv
<1>4. CASE UNCHANGED studioVars BY <1>3, <1>4 DEF studioVars
<1> QED BY <1>1, <1>2, <1>3, <1>4 DEF Next

\* The services keep the invariant, whatever their clients do and in any order.
THEOREM Invariance == Spec => []StudioInv
<1>1. StudioInv /\ [Next]_studioVars => StudioInv' BY NextPreserves
<1> QED BY <1>1, InitEstablishes, PTL DEF Spec

LEMMA RegistryServes == StudioInv => RegistryInv \/ (NoEntry /\ service # "registry")
BY DEF StudioInv

LEMMA ServerServes == StudioInv => ServerInv
BY DEF StudioInv, NoServer

\* What is accepted of a request is its ruling, nothing else rules it, and the
\* verifier rejects it exactly where the driver of its principal is neither
\* "host" nor "none"; a run is held by the pending request and no other, and a listening
\* session that waits shows a request that can still be ruled (rule,
\* pauseForRuling, verifyAttester, onConsult).
THEOREM TakesEachRulingOnce == Spec => []RulingsStand
<1>1. StudioInv => RulingsStand
  <2> SUFFICES ASSUME StudioInv PROVE RulingsStand OBVIOUS
  <2> PICK n : n = Len(consult) OBVIOUS
  <2>1. SessionInv /\ ServerInv /\ FlowInv BY ServerServes DEF StudioInv
  <2>2. n \in Nat /\ DOMAIN consult = 1..n /\ n <= MaxAsks
    BY <2>1, LenProperties DEF SessionInv, SessionTypeOK
  <2>3. ASSUME RegistryInv
        PROVE  RegistryTypeOK /\ EveryRulingStands /\ OneConsultAtATime
    <3>1. Cardinality(active) <= 1
      <4>1. CASE active = {} BY <4>1, FS_EmptySet
      <4>2. ASSUME NEW o \in active PROVE Cardinality(active) <= 1
        <5>1. active = {o} BY <2>3 DEF RegistryInv, EntryTypeOK
        <5>2. Cardinality({o}) = 1 BY FS_Singleton
        <5> QED BY <5>1, <5>2
      <4> QED BY <4>1, <4>2
    <3>2. RegistryTypeOK
      <4>1. version \in 0..MaxAsks BY <2>2, <2>3, SessionAssumption DEF RegistryInv, EntryTypeOK
      <4>2. waiters \subseteq Requests /\ woken \subseteq Requests
        BY <2>3 DEF RegistryInv, WaitersAwait
      <4> QED BY <2>1, <2>3, <3>1, <4>1, <4>2 DEF RegistryTypeOK, RegistryInv, EntryTypeOK, SessionInv
    <3>3. EveryRulingStands
      <4>1. \A i \in DOMAIN consult : consult[i].state = "ruled" =>
              \E g \in given : g.consult = i /\ g.ruling # Decline
        <5> SUFFICES ASSUME NEW i \in DOMAIN consult, consult[i].state = "ruled"
                     PROVE  \E g \in given : g.consult = i /\ g.ruling # Decline
          OBVIOUS
        <5>1. consult[i].ruling # Decline BY <2>3 DEF RegistryInv, RulingsAreGiven
        <5>2. PICK g \in given : g.consult = i BY <2>3, <5>1 DEF RegistryInv, RulingsAreGiven
        <5>3. consult[g.consult].ruling = g.ruling BY <2>3 DEF RegistryInv, RulingsAreGiven
        <5> QED BY <5>1, <5>2, <5>3
      <4> QED BY <2>3, <4>1 DEF EveryRulingStands, RegistryInv, RulingsAreGiven, Fates
    <3>4. OneConsultAtATime
      <4>1. pending \in 0..n BY <2>3 DEF RegistryInv, EntryTypeOK
      <4>2. \A i : i \in 1..n /\ consult[i].state = "asked" <=> i \in {pending} \ {0}
        <5>1. \A i \in 1..n : consult[i].state = "asked" <=> i = pending
          BY <2>2, <2>3 DEF RegistryInv, PendingIsAsked
        <5> QED BY <2>2, <4>1, <5>1
      <4> QED BY <2>2, <4>2 DEF OneConsultAtATime
    <3> QED BY <3>2, <3>3, <3>4
  <2>4. ASSUME NoEntry
        PROVE  RegistryTypeOK /\ EveryRulingStands /\ OneConsultAtATime
    <3>1. Cardinality(active) <= 1 BY <2>4, FS_EmptySet DEF NoEntry
    <3>2. RegistryTypeOK
      BY <2>1, <2>2, <2>4, <3>1, SessionAssumption DEF NoEntry, RegistryTypeOK, SessionInv
    <3> QED BY <2>4, <3>2 DEF NoEntry, EveryRulingStands, OneConsultAtATime
  <2>5. TypeOK
    <3>1. RegistryTypeOK
      BY <2>3, <2>4, RegistryServes
    <3>2. \A s \in Saves : save[s].at \in Steps BY <2>1 DEF FlowInv, SaveRecord
    <3> QED BY <2>1, <3>1, <3>2 DEF TypeOK, ServerInv, LiveRunsCounted, FlowInv
  <2> QED BY <2>1, <2>3, <2>4, <2>5, RegistryServes DEF RulingsStand, ServerInv
<1> QED BY <1>1, Invariance, PTL

\* Where no operation runs and the active one left no paths, a client was told
\* of whatever still runs.
LEMMA StillnessIsTold ==
  ASSUME RegistryInv, SessionInv,
         \A o \in Operations : ~Going(o) /\ (o \in active => o \notin stray)
  PROVE  NothingUntoldRuns
<1>1. \A o \in stray : o \in Operations BY DEF SessionInv, SessionTypeOK
<1>2. \A o \in stray : FailureTold(o) BY <1>1 DEF RegistryInv, StraysAreTold
<1> QED BY <1>2 DEF NothingUntoldRuns, Going, Busy

\* Once close was answered no operation of the session runs, or waits its turn;
\* what runs on are paths of an operation whose failure a client was told
\* (close, sendPrompt).
THEOREM QuietOnceClosed == Spec => []QuietWhenClosed
<1>1. StudioInv => QuietWhenClosed
  <2>1. ASSUME RegistryInv, SessionInv, closedEntry
        PROVE  life = "closed" /\ NothingUntoldRuns
    <3>1. life = "closed" BY <2>1 DEF RegistryInv, ClosingIsQuiet
    <3>2. \A o \in Operations : ~Going(o) /\ (o \in active => o \notin stray)
      BY <2>1, <3>1 DEF RegistryInv, ClosingIsQuiet
    <3> QED BY <2>1, <3>1, <3>2, StillnessIsTold
  <2>2. NoEntry => QuietWhenClosed BY DEF NoEntry, QuietWhenClosed
  <2> QED BY <2>1, <2>2, RegistryServes DEF StudioInv, QuietWhenClosed
<1> QED BY <1>1, Invariance, PTL

\* A reply of "ready" finds every operation ended, whichever request it answers
\* and whatever else arrived meanwhile; the paths that may still run are of an
\* operation whose failure a client was told (awaitActive, rule).
THEOREM ReadyIsDone == Spec => ReadyMeansDone
<1>1. ASSUME StudioInv, [Next]_studioVars, StudioInv'
      PROVE  [\A r \in Requests : reply'[r] = "ready" /\ reply[r] = "none" =>
                NothingUntoldRuns']_registryVars
  <2>1. CASE reply' = reply BY <2>1
  <2>2. CASE service = "registry" /\ RegistryNext
    <3>1. RegistryInv /\ SessionInv BY <1>1, <2>2 DEF StudioInv
    <3>2. SUFFICES ASSUME NEW r \in Requests, reply'[r] = "ready", reply[r] = "none"
                   PROVE  NothingUntoldRuns'
      OBVIOUS
    <3>3. reply \in [Requests -> Replies] /\ request \in [Requests -> RequestRecord]
      BY <3>1 DEF RegistryInv, EntryTypeOK
    <3>4. ASSUME NEW q \in Requests, NEW what \in Replies \ {"ready"}, Reply(q, what)
          PROVE  FALSE
      BY <3>2, <3>3, <3>4 DEF Reply
    <3>5. reply' # reply BY <3>2
    <3>6. RegistryInv' /\ SessionInv'
      <4>1. service' = service BY <1>1 DEF Next, studioVars
      <4> QED BY <1>1, <2>2, <4>1 DEF StudioInv
    <3>7. ASSUME \A o \in Operations : /\ work'[o] \notin Phases \cup {"queued"}
                                       /\ o \in active' => o \notin stray'
          PROVE  NothingUntoldRuns'
      <4>1. stray' \subseteq Operations BY <3>6 DEF SessionInv, SessionTypeOK
      <4>2. \A o \in stray' : FailureTold(o)'
        BY <3>6, <3>7, <4>1 DEF RegistryInv, StraysAreTold
      <4> QED BY <3>7, <4>2 DEF NothingUntoldRuns, Busy
    <3>8. ASSUME NEW q \in Requests, Complete(q)
          PROVE  NothingUntoldRuns'
      <4> PICK p : p = request[q].op OBVIOUS
      <4>1. Awaiting(q) /\ Ended(p) BY <3>8 DEF Complete, Awaiting
      <4>2. active \subseteq {p} BY <3>1, <4>1 DEF RegistryInv, AwaitsTheActive
      <4>3. \A o \in Operations : ~Going(o)
        BY <3>1, <4>1, <4>2 DEF RegistryInv, GoingIsActive, Going, Ended, Phases
      <4>4. /\ UNCHANGED sessionVars /\ active' = active \ {p}
        <5>1. "error" \in Replies \ {"ready"} BY DEF Replies
        <5>2. ~Reply(q, "error") BY <3>4, <5>1
        <5>3. reply' = reply \/ (UNCHANGED <<sessionVars, entry>> /\ active' = active \ {p})
          BY <3>8, <5>2 DEF Complete, BeginInitialPrompt, CreateFails
        <5> QED BY <3>5, <5>3
      <4> QED BY <3>7, <4>2, <4>3, <4>4 DEF Going, sessionVars
    <3>9. ASSUME NEW q \in Requests, NEW i \in 1..MaxAsks, NEW ruling \in Decisions \cup {Decline},
                 RuleArrives(q, i, ruling)
          PROVE  NothingUntoldRuns'
      <4>1. "refused" \in Replies \ {"ready"} BY DEF Replies
      <4>2. ~Reply(q, "refused") BY <3>4, <4>1
      <4>3. ~Refused(q) BY <4>2 DEF Refused
      <4>4. active = {} /\ work' = work /\ active' = active
        BY <3>5, <3>9, <4>3 DEF RuleArrives, NothingToAwait
      <4>5. \A o \in Operations : ~Going(o) BY <3>1, <4>4, NobodyGoing
      <4> QED BY <3>7, <4>4, <4>5 DEF Going
    <3>10. ~(CreateArrives \/ OpenFails \/ Opened \/ Abandoned)
      <4>1. "error" \in Replies \ {"ready"} /\ Create \in Requests BY DEF Replies, Requests
      <4>2. ~Reply(Create, "error") BY <3>4, <4>1
      <4> QED BY <3>5, <4>2 DEF CreateArrives, OpenFails, Opened, Abandoned
    <3>11. ASSUME NEW q \in Requests
           PROVE  ~(Wake(q) \/ PromptArrives(q) \/ CloseArrives(q) \/ Closed(q))
      <4>1. \A what \in {"pending-ruling", "refused", "closed", "error"} :
              what \in Replies \ {"ready"}
        BY DEF Replies
      <4>2. \A what \in {"pending-ruling", "refused", "closed", "error"} : ~Reply(q, what)
        BY <3>4, <4>1
      <4> QED BY <3>5, <4>2 DEF Wake, PromptArrives, CloseArrives, Closed, Refused
    <3>12. ASSUME NEW p \in Operations, NEW authorized \in BOOLEAN
           PROVE  ~Pause(p, authorized)
      BY <3>5 DEF Pause
    <3>13. ~RunsOn BY <3>5 DEF RunsOn, entryVars
    <3> QED BY <2>2, <3>8, <3>9, <3>10, <3>11, <3>12, <3>13 DEF RegistryNext
  <2> QED BY <1>1, <2>1, <2>2 DEF Next, studioVars, entryVars
<1> QED BY <1>1, Invariance, PTL DEF Spec, ReadyMeansDone

\* A flow save replaces the source that its editor had loaded, and no other.
THEOREM LosesNoEdit == Spec => NoLostEdit
<1>1. ASSUME StudioInv, [Next]_studioVars
      PROVE  [\A s \in Saves :
                save'[s].at = "graphing" /\ save[s].at # "graphing" => file = save[s].base]_flowVars
  <2>1. CASE save' = save BY <2>1
  <2>2. CASE FlowNext
    <3>1. FlowInv BY <1>1 DEF StudioInv
    <3>2. SUFFICES ASSUME NEW s \in Saves, save'[s].at = "graphing", save[s].at # "graphing"
                   PROVE  file = save[s].base
      OBVIOUS
    <3>3. save \in [Saves -> SaveRecord] BY <3>1 DEF FlowInv
    <3>4. ASSUME NEW t \in Saves, NEW at \in Steps \ {"graphing"}, save' = [save EXCEPT ![t].at = at]
          PROVE  FALSE
      BY <3>2, <3>3, <3>4 DEF SaveRecord
    <3>5. ASSUME NEW t \in Saves
          PROVE  ~(Load(t) \/ Put(t) \/ Begin(t) \/ Rejected(t) \/ Graphed(t))
      <4>1. ~Put(t) BY <3>4 DEF Put, Steps
      <4>2. \A at \in {"stale", "invalid", "saved"} : ~Ends(t, at) BY <3>4 DEF Ends, Steps
      <4>3. ~Rejected(t) /\ ~Graphed(t) BY <4>2 DEF Rejected, Graphed
      <4>4. ~Load(t) BY <3>2, <3>3 DEF Load, SaveRecord
      <4>5. SUFFICES ASSUME Begin(t) PROVE FALSE BY <4>1, <4>3, <4>4
      <4>6. PICK new \in Sources :
              save' = [save EXCEPT ![t] = [@ EXCEPT !.at = "checking", !.new = new, !.current = file]]
        BY <4>2, <4>5 DEF Begin
      <4>7. save'[s].at = IF s = t THEN "checking" ELSE save[s].at
        BY <3>3, <4>6 DEF SaveRecord
      <4>8. "checking" # "graphing" OBVIOUS
      <4> QED BY <3>2, <4>7, <4>8
    <3>6. ASSUME NEW t \in Saves, Replace(t)
          PROVE  file = save[s].base
      <4>1. ~Ends(t, "stale") BY <3>4 DEF Ends, Steps
      <4>2. /\ save[t].at = "checking" /\ file = save[t].current
            /\ save' = [save EXCEPT ![t].at = "graphing"]
        BY <3>6, <4>1 DEF Replace, StillCurrent
      <4>3. s = t BY <3>2, <3>3, <4>2
      <4> QED BY <3>1, <4>2, <4>3 DEF FlowInv
    <3>7. ASSUME NEW w \in Writes, Write(w)
          PROVE  FALSE
      BY <3>2, <3>7 DEF Write
    <3> QED BY <2>2, <3>5, <3>6, <3>7 DEF FlowNext
  <2> QED BY <1>1, <2>1, <2>2 DEF Next, studioVars, flowVars
<1> QED BY <1>1, Invariance, PTL DEF Spec, NoLostEdit
=============================================================================
