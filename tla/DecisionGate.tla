---------------------------- MODULE DecisionGate ----------------------------
(* The gate between a judgement and an action (interp.ts evalSend of a       *)
(* Credence, evalGate, principalRule, execPerform), in the paths of a        *)
(* fan-out that run side by side, over the protected evidence store, while   *)
(* a host inspects and deletes evidence.  Path p uses slot p of the store.   *)
EXTENDS GateRules, EvidenceStore, TLC

CONSTANTS
    NPaths,         \* paths of the fan-out
    Evident,        \* paths whose provider returns protected evidence
    Rules,          \* rules a path may decide by
    Forms,          \* "plain", "escalating" or "by principal"
    Replies,        \* path -> scores the provider may return
    Setups,         \* the runs: see Setup
    Hosts,          \* slots of the host's calls
    HostOps,        \* operations of the host
    MaxDecides,     \* bound: decisions a path takes on one credence
    MaxRows         \* bound: rows of the ledger

ASSUME GateConstants ==
    /\ NPaths \in Nat \ {0} /\ Evident \subseteq 1..NPaths
    /\ Rules \subseteq Rule /\ Replies \in [1..NPaths -> SUBSET Scores]
    /\ MaxDecides \in Nat /\ MaxRows \in Nat

VARIABLES
    ledger,         \* rows in order; the tick of a row is its index - 1
    path,           \* path -> where it is and what it holds
    chain,          \* provider and tool calls in issue order, not yet applied
    setup           \* the run: its principal, its paths and its host

gateVars == <<ledger, path, chain, setup>>
vars == <<ledger, path, chain, setup, storeVars>>

Paths == 1..NPaths
NoTick == -1

\* A supplied attestation, a harness grant, a live consultation, or nobody;
\* the driver of the attester is `none`, verified by the host, or unverifiable.
\* The `paths` run, each decides at most `decides` times, and `hosts` call `host`.
Setup == [reach : {"attested", "grant", "consult", "nobody"},
          driver : {"none", "verifier", "missing"},
          paths : SUBSET Paths, decides : 0..MaxDecides, host : SUBSET HostOps,
          hosts : SUBSET Hosts]

\* A path and a host call of the store have slots of their own.
ASSUME SlotAssumption ==
    /\ Paths \subseteq Calls /\ Hosts \subseteq Calls /\ Paths \cap Hosts = {}
    /\ Evident \subseteq Refs /\ NoId \notin 0..MaxRows
    /\ HostOps \subseteq Operations /\ Setups \subseteq Setup

Blank == [type |-> "", path |-> 0, id |-> NoTick, by |-> NoTick,
          variant |-> "", rule |-> "", ref |-> 0, principal |-> NoTick,
          margin |-> 0, floor |-> Undefined, label |-> ""]

Tick == Len(ledger)
At(t) == ledger[t + 1]
IsTick(t) == t >= 0 /\ t < Len(ledger)
Row(type, p) == [Blank EXCEPT !.type = type, !.path = p]
AppendRow(r) == ledger' = Append(ledger, r)
Room == Len(ledger) + 3 <= MaxRows

Fresh == [at |-> "start", scores |-> [v \in Variants |-> 0],
          rule |-> CHOOSE r \in Rules : TRUE, id |-> NoTick,
          committed |-> Abstained, principal |-> NoTick, pending |-> NoTick,
          ruling |-> "", by |-> NoTick, decides |-> 0]

GateInit ==
    /\ StoreInit
    /\ ledger = << >>
    /\ path = [p \in Paths |-> Fresh]
    /\ chain = << >>
    /\ setup \in Setups

Ref(p) == IF p \in Evident THEN p ELSE 0    \* evidence_ref, 0 for null
Put(p, new) == path' = [path EXCEPT ![p] = new]
Move(p, at) == path' = [path EXCEPT ![p].at = at]
Crashed(p) == Put(p, [Fresh EXCEPT !.at = "crashed"])
Done(p) == Put(p, [Fresh EXCEPT !.at = "done"])
First(p) == chain # << >> /\ Head(chain) = p

-----------------------------------------------------------------------------
\* evalPipe starts every path; each sends before any reply is there.
Send(p) ==
    /\ path[p].at = "start" /\ p \in setup.paths
    /\ \A q \in setup.paths : q < p => path[q].at # "start"
    /\ AppendRow(Row("Sent", p))
    /\ chain' = Append(chain, p)
    /\ Move(p, "judging")
    /\ UNCHANGED <<setup, storeVars>>

\* The provider answers, in any order, or rejects.
Reply(p) ==
    /\ path[p].at = "judging"
    /\ \/ \E s \in Replies[p] : Put(p, [path[p] EXCEPT !.at = "replied", !.scores = s])
       \/ Move(p, "rejected")
    /\ UNCHANGED <<ledger, chain, setup, storeVars>>

ResolvedRow(p) == [Row("Resolved", p) EXCEPT !.ref = Ref(p)]

\* The result is applied in issue order; with evidence it is retained first,
\* and the calls behind it wait for that.
ApplyReply(p) ==
    /\ path[p].at = "replied" /\ First(p)
    /\ IF p \in Evident
       THEN /\ Start(p, "retain", p, NoId, FALSE)
            /\ Move(p, "retaining")
            /\ UNCHANGED <<ledger, chain, setup>>
       ELSE /\ AppendRow(ResolvedRow(p))
            /\ chain' = Tail(chain)
            /\ Move(p, "resolved")
            /\ UNCHANGED <<setup, storeVars>>

Retained(p) ==
    /\ path[p].at = "retaining" /\ ~Running(p)
    /\ chain' = Tail(chain)
    /\ IF answer[p] = "ok" THEN AppendRow(ResolvedRow(p)) /\ Move(p, "resolved")
                           ELSE Crashed(p) /\ UNCHANGED ledger
    /\ UNCHANGED <<setup, storeVars>>

\* A rejected call gives up its place when its turn comes.
Rejected(p) ==
    /\ path[p].at = "rejected" /\ First(p)
    /\ chain' = Tail(chain)
    /\ Crashed(p)
    /\ UNCHANGED <<ledger, setup, storeVars>>

-----------------------------------------------------------------------------
\* decide.  The id of a decision is the length of the ledger when the gate is
\* about to bind and append it.
DecisionId == Tick

DecidedNow(p, w) ==     \* mutant
    [Row("Decided", p) EXCEPT !.id = Tick, !.variant = w.committed,
        !.rule = w.rule.kind, !.ref = Ref(p), !.principal = w.principal,
        !.margin = MarginOf(w.scores), !.floor = w.rule.floor]

DecidedRow(p, w) ==
    [Row("Decided", p) EXCEPT !.id = w.id, !.variant = w.committed,
        !.rule = w.rule.kind, !.ref = Ref(p), !.principal = w.principal,
        !.margin = MarginOf(w.scores), !.floor = w.rule.floor]

Settle(p, w) ==
    LET known == [w EXCEPT !.id = DecisionId, !.decides = @ + 1] IN
    IF p \in Evident
    THEN /\ Start(p, "bind", p, DecisionId, FALSE)
         /\ Put(p, [known EXCEPT !.at = "binding"])
         /\ UNCHANGED <<ledger, chain, setup>>
    ELSE /\ AppendRow(DecidedRow(p, known))
         /\ Put(p, [known EXCEPT !.at = "decided"])
         /\ UNCHANGED <<chain, setup, storeVars>>

PendingRow(p) == [Row("PendingPrincipalDecision", p) EXCEPT !.id = Tick]

\* `decide c by rule`, with or without a principal to escalate to, and
\* `decide c by principal`.
Decide(p, r, form) ==
    LET w == [path[p] EXCEPT !.rule = r, !.principal = NoTick,
                             !.committed = Collapse(path[p].scores, r)] IN
    /\ path[p].at \in {"resolved", "decided"}
    /\ path[p].decides < setup.decides /\ Room
    /\ IF form = "by principal" \/ (form = "escalating" /\ w.committed = Abstained)
       THEN /\ AppendRow(PendingRow(p))
            /\ Put(p, [w EXCEPT !.at = "asked", !.pending = Tick])
            /\ UNCHANGED <<chain, setup, storeVars>>
       ELSE Settle(p, w)

FailedRow(p, label) ==
    [Row("FailedPrincipalDecision", p) EXCEPT !.id = path[p].pending, !.label = label]
RuledRow(p, v, label) ==
    [Row("PrincipalDecision", p) EXCEPT !.id = path[p].pending,
                                        !.variant = v, !.label = label]

\* `failed` and the end of applyRuling: the row that answers the request.
FailClosed(p, label) ==
    /\ AppendRow(FailedRow(p, label))
    /\ Put(p, [path[p] EXCEPT !.at = "ruled", !.committed = Abstained, !.principal = Tick])
Ruled(p, v, label) ==
    /\ AppendRow(RuledRow(p, v, label))
    /\ Put(p, [path[p] EXCEPT !.at = "ruled", !.committed = v, !.principal = Tick])

\* verifyAttester: taken on trust without a driver, refused without a
\* verifier, and otherwise asked of the host.
ApplyRuling(p, ruling) ==
    IF ruling = "decline" THEN FailClosed(p, "decline")
    ELSE IF ruling \notin Variants THEN FailClosed(p, "invalid")
    ELSE IF setup.driver = "none" THEN Ruled(p, ruling, "unverified")
    ELSE IF setup.driver = "missing" THEN FailClosed(p, "rejected")
    ELSE /\ Put(p, [path[p] EXCEPT !.at = "verifying", !.ruling = ruling])
         /\ UNCHANGED ledger

Rulings == Variants \cup {"decline", "foreign"}

AskPrincipal(p) ==
    /\ path[p].at = "asked" /\ Room
    /\ CASE setup.reach = "attested" -> \E x \in Rulings : ApplyRuling(p, x)
         [] setup.reach = "grant"    -> ApplyRuling(p, Top(path[p].scores))
         [] setup.reach = "consult"  -> Move(p, "consulting") /\ UNCHANGED ledger
         [] setup.reach = "nobody"   -> FailClosed(p, "unavailable")
    /\ UNCHANGED <<chain, setup, storeVars>>

\* The live consultation returns a ruling, or nothing, which is a decline.
Consulted(p) ==
    /\ path[p].at = "consulting" /\ Room
    /\ \E x \in Rulings : ApplyRuling(p, x)
    /\ UNCHANGED <<chain, setup, storeVars>>

\* The verifier names the principal, or somebody else.
AnyAttester(resolved) == TRUE \* mutant
AttesterMatches(resolved) == resolved = "who"

Verified(p) ==
    /\ path[p].at = "verifying" /\ Room
    /\ \E resolved \in {"who", "other"} :
          IF AttesterMatches(resolved)
          THEN Ruled(p, path[p].ruling, IF resolved = "who" THEN "verified" ELSE resolved)
          ELSE FailClosed(p, "rejected")
    /\ UNCHANGED <<chain, setup, storeVars>>

\* evalGate goes on with what the principal ruled.
SettleRuling(p) ==
    /\ path[p].at = "ruled" /\ Room
    /\ Settle(p, path[p])

Bound(p) ==
    /\ path[p].at = "binding" /\ ~Running(p)
    /\ IF answer[p] = "ok"
       THEN AppendRow(DecidedRow(p, path[p])) /\ Move(p, "decided")
       ELSE Crashed(p) /\ UNCHANGED ledger
    /\ UNCHANGED <<chain, setup, storeVars>>

-----------------------------------------------------------------------------
\* endorse: the subject is settled, or is what the decision was about, and
\* the decision is committed.
IsAbout(subject) == subject \in {"judged", "fed", "settled"}

EndorsedRow(p) ==
    [Row("Endorsed", p) EXCEPT !.id = path[p].id, !.variant = path[p].committed,
        !.rule = path[p].rule.kind, !.ref = Ref(p), !.principal = path[p].principal]

Endorse(p, subject) ==
    /\ path[p].at = "decided" /\ Room
    /\ IF IsAbout(subject) /\ path[p].committed # Abstained
       THEN /\ AppendRow(EndorsedRow(p))
            /\ Put(p, [path[p] EXCEPT !.at = "endorsed", !.by = Tick])
       ELSE Crashed(p) /\ UNCHANGED ledger
    /\ UNCHANGED <<chain, setup, storeVars>>

\* validateAuthorizationLineage: the receipts the lineage points at are an
\* earlier Decided and its Endorsed, and say the same of rule, evidence,
\* principal and variant.
SameVerdict(d, e) == e.variant = d.variant /\ e.rule = d.rule \* mutant

SameReceipt(d, e) ==
    /\ e.variant = d.variant /\ e.rule = d.rule
    /\ e.ref = d.ref /\ e.principal = d.principal

LineageHolds(w, ref) ==
    /\ IsTick(w.by) /\ At(w.by).type = "Endorsed"
    /\ IsTick(w.id) /\ At(w.id).type = "Decided"
    /\ w.id < w.by
    /\ At(w.by).id = w.id /\ At(w.id).id = w.id
    /\ At(w.by).ref = ref
    /\ SameReceipt(At(w.id), At(w.by))

\* enforceMarginFloor.
UnderFloor(w) == w.rule.floor # Undefined /\ MarginOf(w.scores) < w.rule.floor

\* perform: static grant, scope of the active task, margin floor, lineage,
\* then the action and what authorizes it in one batch, and for a wired
\* action the start of its tool.
Refuse(p, type) == AppendRow(Row(type, p)) /\ Crashed(p) /\ UNCHANGED chain

Authorize(p, wired) ==
    LET action == Row("Action", p)
        authorized == [Row("ActionAuthorized", p) EXCEPT !.id = path[p].id,
                          !.by = path[p].by, !.ref = Ref(p),
                          !.rule = path[p].rule.kind]
    IN  IF wired
        THEN /\ ledger' = ledger \o <<action, authorized, Row("ToolStarted", p)>>
             /\ chain' = Append(chain, p)
             /\ Move(p, "acting")
        ELSE /\ ledger' = ledger \o <<action, authorized>>
             /\ UNCHANGED chain
             /\ Done(p)

Perform(p, permit, wired) ==
    /\ path[p].at = "endorsed" /\ Room
    /\ CASE permit = "ungranted" -> Crashed(p) /\ UNCHANGED <<ledger, chain>>
         [] permit = "out of scope" -> Refuse(p, "TaskScopeViolation")
         [] permit = "granted" ->
              IF UnderFloor(path[p]) THEN Refuse(p, "MarginFloorViolation")
              ELSE IF LineageHolds(path[p], Ref(p)) THEN Authorize(p, wired)
              ELSE Crashed(p) /\ UNCHANGED <<ledger, chain>>
    /\ UNCHANGED <<setup, storeVars>>

\* The effector answers, in any order; its result is journalled in order.
ToolReply(p) ==
    /\ path[p].at = "acting"
    /\ \/ Move(p, "effected")
       \/ Move(p, "rejected")
    /\ UNCHANGED <<ledger, chain, setup, storeVars>>

ToolResolved(p) ==
    /\ path[p].at = "effected" /\ First(p)
    /\ AppendRow(Row("ToolResolved", p))
    /\ chain' = Tail(chain)
    /\ Done(p)
    /\ UNCHANGED <<setup, storeVars>>

-----------------------------------------------------------------------------
\* The host asks for the evidence of a decision in the ledger.
Decisions == {At(t).id : t \in {u \in 0..(Tick - 1) : At(u).type = "Decided"}}

HostCalls(h) ==
    /\ h \in setup.hosts
    /\ \E op \in setup.host, r \in Refs :
          IF op = "retain" THEN \E again \in BOOLEAN : Start(h, op, r, NoId, again)
          ELSE \E d \in Decisions : Start(h, op, r, d, op = "bind")
    /\ UNCHANGED gateVars

HostIssues ==
    /\ \E op \in setup.host \cap {"inspect", "export", "delete"}, r \in Refs, d \in Decisions :
          IssueAuthorization(op, r, d)
    /\ UNCHANGED gateVars

StoreMoves == StoreStep /\ UNCHANGED gateVars

\* The paths end with the process; the ledger is the host's.
ProcessCrash ==
    /\ Crash
    /\ path' = [p \in Paths |-> [Fresh EXCEPT !.at = "crashed"]]
    /\ chain' = << >>
    /\ UNCHANGED <<ledger, setup>>

PathStep(p) ==
    \/ Send(p) \/ Reply(p) \/ ApplyReply(p) \/ Retained(p) \/ Rejected(p)
    \/ \E r \in Rules, form \in Forms : Decide(p, r, form)
    \/ AskPrincipal(p) \/ Consulted(p) \/ Verified(p) \/ SettleRuling(p) \/ Bound(p)
    \/ \E subject \in {"judged", "unrelated"} : Endorse(p, subject)
    \/ \E permit \in {"granted", "ungranted", "out of scope"}, wired \in BOOLEAN :
          Perform(p, permit, wired)
    \/ ToolReply(p) \/ ToolResolved(p)

GateNext ==
    \/ \E p \in Paths : PathStep(p)
    \/ \E h \in Hosts : HostCalls(h)
    \/ HostIssues
    \/ StoreMoves
    \/ ProcessCrash

GateSpec == GateInit /\ [][GateNext]_vars

-----------------------------------------------------------------------------
TypeOK ==
    /\ StoreTypeOK(0..MaxRows)
    /\ \A i \in DOMAIN ledger : DOMAIN ledger[i] = DOMAIN Blank
    /\ \A p \in Paths : DOMAIN path[p] = DOMAIN Fresh
    /\ chain \in Seq(Paths) /\ setup \in Setup

Rows(type) == {t \in 0..(Tick - 1) : At(t).type = type}

\* Nothing is done that was not decided: every authorized action rests on an
\* Endorsed and an earlier Decided row of its own path, committed to the same
\* variant and with a margin no smaller than the floor of the rule, although
\* paths that interleave may have read the same decision id (interp.ts
\* validateAuthorizationLineage, appendAuthorizedAction).
AuthorizedActionsAreJustified ==
    \A t \in Rows("ActionAuthorized") :
        LET a == At(t) IN
        /\ IsTick(a.id) /\ IsTick(a.by) /\ a.id < a.by /\ a.by < t
        /\ At(a.id).type = "Decided" /\ At(a.by).type = "Endorsed"
        /\ At(a.id).path = a.path /\ At(a.by).path = a.path
        /\ At(a.id).variant = At(a.by).variant /\ At(a.id).variant # Abstained
        /\ At(a.id).floor = Undefined \/ At(a.id).margin >= At(a.id).floor

\* Whoever reads the ledger finds the evidence: a Decided row that names
\* evidence is the one its reference is bound to, unless the evidence was
\* deleted since (evalGate binds before it appends).
EvidenceExplainsDecision ==
    \A t \in Rows("Decided") :
        At(t).ref # 0 => \/ binding[At(t).ref] = At(t).id
                         \/ At(t).ref \in deleted

\* A decision by a principal rests on a ruling that answers a request of the
\* same path, once, and whose attester was verified or needs no verification
\* (principalRule: pending row, ruling, PrincipalDecision).
RulingsAreAttested ==
    /\ \A t \in Rows("Decided") :
          (At(t).principal # NoTick /\ At(t).variant # Abstained) =>
              LET r == At(At(t).principal) IN
              /\ r.type = "PrincipalDecision" /\ r.path = At(t).path
              /\ r.variant = At(t).variant
              /\ r.label \in {"verified", "unverified"}
    /\ \A t \in Rows("PrincipalDecision") \cup Rows("FailedPrincipalDecision") :
          /\ At(At(t).id).type = "PendingPrincipalDecision"
          /\ At(At(t).id).path = At(t).path
          /\ \A u \in Rows("PrincipalDecision") \cup Rows("FailedPrincipalDecision") :
                At(u).id = At(t).id => u = t

\* The ledger is well formed, and its decisions lead to their evidence.
LedgerIsExplained == TypeOK /\ EvidenceExplainsDecision

-----------------------------------------------------------------------------
(* What Studio certifies of a ledger (runtime-session.ts                     *)
(* validatedEndorsementCertificates): it knows nothing of the run but the    *)
(* rows, and follows the receipt of an action back to its endorsement, its   *)
(* decision and, for a principal, the attested ruling and its request.       *)
(* Hashes stand for what they hash; an action here has one guarded argument. *)

\* The receipt follows its action, of the same agent.
ReceiptOf(t, action) ==
    /\ IsTick(action) /\ At(action).type = "Action"
    /\ t = action + 1
    /\ At(action).path = At(t).path

\* Endorsed -> Decided: the ticks are in order, each row names its own, and
\* the two say the same.
VerdictHolds(t) ==
    LET a == At(t) IN
    /\ IsTick(a.by) /\ At(a.by).type = "Endorsed" /\ a.by < t - 1
    /\ IsTick(a.id) /\ At(a.id).type = "Decided"
    /\ At(a.by).id = a.id /\ At(a.id).id = a.id /\ a.id < a.by
    /\ At(a.by).variant = At(a.id).variant /\ At(a.id).variant # Abstained
    /\ At(a.by).rule = a.rule /\ At(a.id).rule = a.rule
    /\ At(a.by).ref = a.ref /\ At(a.id).ref = a.ref
    /\ At(a.by).principal = At(a.id).principal

UncheckedRuling(r) == TRUE \* mutant
AttestedRuling(r) == r.label = "verified"

\* A decision of a principal needs its ruling, earlier, on the same variant,
\* with a verified attester, that answers a request still earlier.
RulingHolds(d) ==
    d.principal # NoTick =>
        /\ IsTick(d.principal) /\ At(d.principal).type = "PrincipalDecision"
        /\ At(d.principal).variant = d.variant
        /\ d.principal < d.id
        /\ LET request == At(d.principal).id IN
              /\ IsTick(request) /\ request < d.principal
              /\ At(request).type = "PendingPrincipalDecision"
              /\ At(request).id = request
        /\ AttestedRuling(At(d.principal))

Certified(t) ==
    /\ ReceiptOf(t, t - 1)
    /\ VerdictHolds(t)
    /\ RulingHolds(At(At(t).id))

\* The runtime that authorizes and the host that certifies read the same rows
\* with two pieces of code (validateAuthorizationLineage and
\* validatedEndorsementCertificates), and agree: every authorized action has
\* its certificate, unless it rests on a ruling nobody verified.
CertifiesWhatWasAttested ==
    \A t \in Rows("ActionAuthorized") :
        Certified(t) <=>
            \/ At(At(t).id).principal = NoTick
            \/ At(At(At(t).id).principal).label = "verified"
=============================================================================
