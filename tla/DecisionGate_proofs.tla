------------------------ MODULE DecisionGate_proofs ------------------------
(* What TLAPS proves of DecisionGate, of the EvidenceStore it works over and *)
(* of the certificates Studio reads from its ledger, for any number of       *)
(* paths, rules, replies, host calls and faults.                             *)
EXTENDS DecisionGate, WellFoundedInduction, TLAPS

-----------------------------------------------------------------------------
(* The inductive invariant.                                                  *)

Ids == 0..MaxRows

Commits == Variants \cup {Abstained}

Places == {"start", "judging", "replied", "rejected", "retaining", "resolved",
           "asked", "consulting", "verifying", "ruled", "binding", "decided",
           "endorsed", "acting", "effected", "done", "crashed"}

RowKinds == {"", "Sent", "Resolved", "PendingPrincipalDecision", "PrincipalDecision",
             "FailedPrincipalDecision", "Decided", "Endorsed", "Action",
             "ActionAuthorized", "ToolStarted", "ToolResolved", "TaskScopeViolation",
             "MarginFloorViolation"}

RuleKinds == {"", "confidence", "conformal", "policy", "none"}

Labels == {"", "decline", "invalid", "rejected", "unavailable", "verified", "unverified"}

RowType ==
    [type : RowKinds, path : Nat, id : Int, by : Int, variant : Commits \cup {""},
     rule : RuleKinds, ref : Nat, principal : Int, margin : Int, floor : Int,
     label : Labels]

WorkType ==
    [at : Places, scores : Scores, rule : Rules \cup {CHOOSE r \in Rules : TRUE},
     id : Int, committed : Commits, principal : Int, pending : Int,
     ruling : Variants \cup {""}, by : Int, decides : Nat]

GateTypes ==
    /\ ledger \in Seq(RowType)
    /\ path \in [Paths -> WorkType]
    /\ chain \in Seq(Paths)
    /\ setup \in Setups

CallType ==
    [op : Operations \cup {"none"}, ref : Refs \cup {"none"}, id : Ids \cup {NoId},
     replay : BOOLEAN, step : Steps]

StoreTypes ==
    /\ evidence \subseteq Refs /\ deleted \subseteq Refs /\ lost \subseteq Refs
    /\ binding \in [Refs -> Ids \cup {NoId}]
    /\ store \in {"open", "reconciling", "closed"}
    /\ tokens \subseteq Tokens(Ids)
    /\ call \in [Calls -> CallType]
    /\ answer \in [Calls -> Answers]
    /\ faults \in 0..MaxFaults

\* What a call of the store has made sure of at the await it is at, unless the
\* reference was deleted meanwhile.
Found(k) ==
    k.step \in {"binding?", "final?"} \/ (k.step = "create" /\ k.op # "retain")
Matched(k) ==
    \/ k.step = "final?" /\ k.op # "retain"
    \/ k.step = "create" /\ k.op = "delete"

CallOK(c) ==
    LET k == call[c] IN
    Running(c) =>
        /\ answer[c] = "none"
        /\ k.op \in Operations /\ k.ref \in Refs
        /\ k.op # "retain" => k.id \in Ids
        /\ k.step = "binding?" => k.op # "retain"
        /\ k.step = "create" => k.op \in {"retain", "bind", "delete"}
        /\ k.step = "final?" => k.op # "delete"
        /\ k.step \in {"removeEvidence", "removeBinding"} =>
              k.ref \in deleted /\ k.op \in {"retain", "bind", "delete"}
        /\ k.ref \notin deleted =>
              /\ Found(k) => k.ref \in evidence
              /\ Matched(k) => binding[k.ref] = k.id

\* Who is going to remove what is left of a deleted reference.
RemovesEvidence(c, r) == WillRemove(c, r) /\ call[c].step # "removeBinding"

ResidueOK(r) ==
    r \in deleted /\ r \notin lost =>
        /\ r \in evidence => \E c \in Calls : RemovesEvidence(c, r)
        /\ binding[r] # NoId => \E c \in Calls : WillRemove(c, r)

StoreInv ==
    /\ StoreTypes
    /\ \A c \in Calls : CallOK(c)
    /\ \A r \in Refs : ResidueOK(r)

\* Rows.
IsRuling(t) == At(t).type \in {"PrincipalDecision", "FailedPrincipalDecision"}

RestsOn(t, p, v) ==
    /\ At(t).path = p
    /\ \/ At(t).type = "PrincipalDecision" /\ At(t).variant = v
       \/ At(t).type = "FailedPrincipalDecision" /\ v = Abstained

DecidedOK(t) ==
    LET d == At(t) IN
    /\ d.id \in 0..t /\ d.id \in Ids
    /\ d.path \in Paths /\ d.ref = Ref(d.path)
    /\ d.principal # NoTick =>
          d.principal \in 0..(d.id - 1) /\ RestsOn(d.principal, d.path, d.variant)

RulingOK(t) ==
    LET r == At(t) IN
    /\ r.id \in 0..(t - 1)
    /\ At(r.id).type = "PendingPrincipalDecision" /\ At(r.id).path = r.path
    /\ r.type = "PrincipalDecision" => r.label \in {"verified", "unverified"}

AuthorizedOK(t) ==
    LET a == At(t) IN
    /\ ReceiptOf(t, t - 1) /\ VerdictHolds(t)
    /\ At(a.id).path = a.path /\ At(a.by).path = a.path
    /\ At(a.id).floor = Undefined \/ At(a.id).margin >= At(a.id).floor

RowOK(t) ==
    /\ At(t).type = "Decided" => DecidedOK(t)
    /\ IsRuling(t) => RulingOK(t)
    /\ At(t).type = "PendingPrincipalDecision" => At(t).id = t
    /\ At(t).type = "ActionAuthorized" => AuthorizedOK(t)

AnsweredOnce ==
    \A t, u \in 0..(Tick - 1) :
        IsRuling(t) /\ IsRuling(u) /\ At(t).id = At(u).id => t = u

RowsInv == (\A t \in 0..(Tick - 1) : RowOK(t)) /\ AnsweredOnce

\* Paths.
Ruling == {"asked", "consulting", "verifying"}
Settled == {"binding", "decided", "endorsed"}

\* The request of a path that waits for a ruling is still open.
RequestOK(p) ==
    LET w == path[p] IN
    w.at \in Ruling =>
        /\ IsTick(w.pending)
        /\ At(w.pending).type = "PendingPrincipalDecision"
        /\ At(w.pending).path = p
        /\ \A t \in 0..(Tick - 1) : IsRuling(t) => At(t).id # w.pending

\* The ruling a path settles by.
PrincipalOK(p) ==
    LET w == path[p] IN
    w.principal # NoTick =>
        /\ IsTick(w.principal) /\ RestsOn(w.principal, p, w.committed)
        /\ w.at \in Settled => w.principal < w.id

OwnRow(t, p) ==
    /\ At(t).type = "Decided" /\ At(t).path = p /\ At(t).id = path[p].id

\* The decision row of a path: not there before the evidence is bound, and
\* afterwards what the path carries.
DecisionOK(p) ==
    LET w == path[p] IN
    w.at \in Settled =>
        /\ w.id \in Ids /\ w.id <= Tick
        /\ w.at = "binding" => p \in Evident
        /\ w.at # "binding" /\ p \notin Evident => IsTick(w.id) /\ OwnRow(w.id, p)
        /\ \A t \in 0..(Tick - 1) : OwnRow(t, p) =>
              /\ w.at # "binding"
              /\ At(t).variant = w.committed /\ At(t).floor = w.rule.floor
              /\ At(t).margin = MarginOf(w.scores)

\* The endorsement of a path.
EndorsementOK(p) ==
    LET w == path[p] IN
    w.at = "endorsed" =>
        /\ IsTick(w.by) /\ At(w.by).path = p /\ At(w.by).id = w.id
        /\ At(w.by).variant = w.committed /\ w.committed # Abstained
        /\ At(w.by).rule = w.rule.kind /\ At(w.by).ref = Ref(p)

RuleOK(p) == path[p].at \in Ruling \cup {"ruled"} \cup Settled => path[p].rule \in Rules

\* A path whose evidence is being retained is the first of the chain.
RetainsFirst(p) == path[p].at = "retaining" => First(p)

\* A ruling that awaits its verifier is one of the variants.
RulingIsVariant(p) == path[p].at = "verifying" => path[p].ruling \in Variants

PathOK(p) ==
    /\ RuleOK(p) /\ RequestOK(p) /\ PrincipalOK(p)
    /\ DecisionOK(p) /\ EndorsementOK(p) /\ RetainsFirst(p) /\ RulingIsVariant(p)

\* A path that binds its evidence waits for the call in its own slot.
SlotOK(p) ==
    path[p].at = "binding" =>
        IF Running(p)
        THEN call[p].op = "bind" /\ call[p].ref = p /\ call[p].id = path[p].id
        ELSE answer[p] = "ok" => binding[p] = path[p].id \/ p \in deleted

GateInv ==
    /\ GateTypes /\ StoreInv /\ RowsInv
    /\ \A p \in Paths : PathOK(p) /\ SlotOK(p)
    /\ EvidenceExplainsDecision
-----------------------------------------------------------------------------
(* The arithmetic of the gate.                                               *)

\* Every nonempty set of naturals has a least element.
LEMMA HasLeast ==
  ASSUME NEW T \in SUBSET Nat, T # {}
  PROVE  \E x \in T : \A y \in T : x <= y
<1>1. PICK x \in T : \A y \in T : ~(<<y, x>> \in OpToRel(<, Nat))
  BY NatLessThanWellFounded, WFMin
<1>2. \A y \in T : y < x => <<y, x>> \in OpToRel(<, Nat)
  BY DEF OpToRel
<1>3. \A y \in T : ~(y < x)
  BY <1>1, <1>2, Zenon
<1> QED
  BY <1>3

\* The best of a nonempty set of variants is one of them: of the indices with
\* the highest score take the least.
LEMMA BestIsOneOf ==
  ASSUME NEW s \in Scores, NEW V \in SUBSET Variants, V # {}
  PROVE  BestOf(s, V) \in V
<1> DEFINE I == {i \in DOMAIN VariantOrder : VariantOrder[i] \in V}
           Score(i) == s[VariantOrder[i]]
           T == {Unit - Score(i) : i \in I}
<1>1. DOMAIN VariantOrder \subseteq Nat
  BY VariantsAreDistinct
<1>2. \A i \in DOMAIN VariantOrder : Score(i) \in 0..Unit
  BY DEF Scores, Variants
<1>3. T \in SUBSET Nat
  BY <1>2, UnitIsPositive
<1>4. T # {}
  BY DEF Variants
<1>5. PICK least \in T : \A y \in T : least <= y
  BY <1>3, <1>4, HasLeast
<1>6. PICK a \in I : least = Unit - Score(a)
  BY <1>5
<1>7. ASSUME NEW i \in I PROVE Score(i) <= Score(a)
  <2>1. Score(i) \in Int /\ Score(a) \in Int /\ Unit \in Int
    BY <1>2, <1>6, UnitIsPositive
  <2>2. Unit - Score(a) <= Unit - Score(i)
    BY <1>5, <1>6
  <2> QED
    BY <2>1, <2>2
<1> DEFINE B == {i \in I : Score(i) = Score(a)}
<1>8. PICK b \in B : \A i \in B : b <= i
  <2>1. B \in SUBSET Nat /\ B # {}
    BY <1>1, <1>6
  <2> QED
    BY <2>1, HasLeast
<1>9. ASSUME NEW j \in DOMAIN VariantOrder, VariantOrder[j] \in V
      PROVE  IF j < b THEN s[VariantOrder[j]] < s[VariantOrder[b]]
                      ELSE s[VariantOrder[j]] <= s[VariantOrder[b]]
  <2>1. Score(j) <= Score(b) /\ Score(j) \in Int /\ Score(b) \in Int
    BY <1>2, <1>7, <1>8, <1>9, UnitIsPositive
  <2>2. j < b => Score(j) # Score(b)
    BY <1>1, <1>8, <1>9
  <2> QED
    BY <2>1, <2>2
<1>10. VariantOrder[b] \in V /\ b \in DOMAIN VariantOrder
  BY <1>8
<1>11. \E v \in V : \E i \in DOMAIN VariantOrder :
          /\ VariantOrder[i] = v
          /\ \A j \in DOMAIN VariantOrder :
                VariantOrder[j] \in V =>
                    IF j < i THEN s[VariantOrder[j]] < s[v]
                             ELSE s[VariantOrder[j]] <= s[v]
  <2> WITNESS VariantOrder[b] \in V
  <2> WITNESS b \in DOMAIN VariantOrder
  <2> QED
    BY <1>9
<1> QED
  BY <1>11, Zenon DEF BestOf

\* There is a variant, so a credence has a top one.
LEMMA TopIsVariant ==
  ASSUME NEW s \in Scores
  PROVE  Top(s) \in Variants
<1>1. Variants # {}
  BY VariantsAreDistinct DEF Variants
<1> QED
  BY <1>1, BestIsOneOf DEF Top

\* The margin of a credence is a number.
LEMMA MarginIsInt ==
  ASSUME NEW s \in Scores
  PROVE  MarginOf(s) \in Int
<1>1. s[Top(s)] \in Int
  BY TopIsVariant, UnitIsPositive DEF Scores
<1>2. SecondScore(s) \in Int
  <2>1. CASE Variants = {Top(s)}
    BY <2>1 DEF SecondScore, RunnerUp
  <2>2. CASE Variants # {Top(s)}
    <3>1. Variants \ {Top(s)} # {}
      BY <2>2, TopIsVariant
    <3>2. RunnerUp(s) \in Variants
      BY <2>2, <3>1, BestIsOneOf DEF RunnerUp
    <3>3. s[RunnerUp(s)] \in Int
      BY <3>2, UnitIsPositive DEF Scores
    <3> QED
      BY <3>3 DEF SecondScore
  <2> QED
    BY <2>1, <2>2
<1> QED
  BY <1>1, <1>2 DEF MarginOf

\* A rule commits a credence to a variant, or abstains.
LEMMA CollapseCommits ==
  ASSUME NEW s \in Scores, NEW r
  PROVE  Collapse(s, r) \in Commits
<1>1. ConformalCommit(s, r) \in Commits
  <2>1. CASE \E v \in Variants : PredictionSet(s, r.alpha) = {v}
    <3>1. (CHOOSE v \in Variants : PredictionSet(s, r.alpha) = {v}) \in Variants
      BY <2>1
    <3> QED
      BY <3>1 DEF ConformalCommit, Commits
  <2> QED
    BY <2>1 DEF ConformalCommit, Commits
<1>2. Top(s) \in Commits /\ Abstained \in Commits
  BY TopIsVariant DEF Commits
<1> QED
  BY <1>1, <1>2 DEF Collapse

-----------------------------------------------------------------------------
(* The store.                                                                *)

\* A step of the store: the start of a call, an authorization the principal
\* issues, an await that ends, or a crash.
StoreAct ==
    \/ UNCHANGED storeVars
    \/ \E c \in Calls, op \in Operations, r \in Refs, d \in Ids \cup {NoId},
          again \in BOOLEAN :
          (op # "retain" => d \in Ids) /\ Start(c, op, r, d, again)
    \/ \E op \in {"inspect", "export", "delete"}, r \in Refs, d \in Ids :
          IssueAuthorization(op, r, d)
    \/ StoreStep
    \/ Crash

\* What every step does to the files: a deletion marker stays, evidence goes
\* only when it is deleted, and a binding is only ever removed, and only then.
FilesKept ==
    /\ deleted \subseteq deleted'
    /\ \A r \in Refs : r \in evidence /\ r \notin deleted => r \in evidence'
    /\ \A r \in Refs : binding[r] # NoId =>
          binding'[r] = binding[r] \/ (binding'[r] = NoId /\ r \in deleted)

LEMMA GotoEffect ==
  ASSUME StoreTypes, NEW c \in Calls, NEW s \in Steps, Goto(c, s)
  PROVE  /\ call' \in [Calls -> CallType] /\ answer' = answer
         /\ call'[c].op = call[c].op /\ call'[c].ref = call[c].ref
         /\ call'[c].id = call[c].id /\ call'[c].step = s
         /\ \A d \in Calls \ {c} : call'[d] = call[d]
<1>1. call'[c] = [op |-> call[c].op, ref |-> call[c].ref, id |-> call[c].id,
                  replay |-> call[c].replay, step |-> s]
  BY DEF StoreTypes, Goto, CallType
<1>2. call' \in [Calls -> CallType] /\ answer' = answer
  BY DEF StoreTypes, Goto, CallType
<1>3. \A d \in Calls \ {c} : call'[d] = call[d]
  BY DEF StoreTypes, Goto
<1> QED
  BY <1>1, <1>2, <1>3

LEMMA ReturnEffect ==
  ASSUME StoreTypes, NEW c \in Calls, NEW a \in Answers, Return(c, a)
  PROVE  /\ call' \in [Calls -> CallType] /\ answer' \in [Calls -> Answers]
         /\ call'[c] = Idle /\ call'[c].step = "idle" /\ answer'[c] = a
         /\ \A d \in Calls \ {c} : call'[d] = call[d] /\ answer'[d] = answer[d]
<1>1. Idle \in CallType /\ Idle.step = "idle"
  BY DEF Idle, CallType, Steps
<1> QED
  BY <1>1 DEF StoreTypes, Return

\* A slot that a step leaves alone stays well, whatever becomes of the files.
LEMMA OthersStay ==
  ASSUME StoreTypes, NEW c \in Calls, CallOK(c), FilesKept,
         call'[c] = call[c], answer'[c] = answer[c]
  PROVE  CallOK(c)'
<1> SUFFICES ASSUME Running(c)' PROVE CallOK(c)'
  BY DEF CallOK
<1>1. Running(c)
  BY DEF Running
<1> DEFINE k == call[c]
<1>2. k.ref \in Refs
  BY <1>1 DEF CallOK
<1>3. k.ref \notin deleted' => k.ref \notin deleted
  BY DEF FilesKept
<1>4. k.ref \notin deleted' /\ Found(k) => k.ref \in evidence'
  BY <1>1, <1>2, <1>3 DEF CallOK, FilesKept
<1>5. k.ref \notin deleted' /\ Matched(k) => binding'[k.ref] = k.id
  <2>1. HAVE k.ref \notin deleted' /\ Matched(k)
  <2>2. binding[k.ref] = k.id
    BY <1>1, <1>3, <2>1 DEF CallOK
  <2>3. k.id \in Ids
    BY <1>1, <2>1 DEF CallOK, Matched
  <2>4. k.id # NoId
    BY <2>3, SlotAssumption DEF Ids
  <2> QED
    BY <1>2, <1>3, <2>1, <2>2, <2>4 DEF FilesKept
<1>6. k.step \in {"removeEvidence", "removeBinding"} => k.ref \in deleted'
  BY <1>1 DEF CallOK, FilesKept
<1> QED
  BY <1>1, <1>4, <1>5, <1>6 DEF CallOK

\* A slot without a call is well.
LEMMA IdleIsOK ==
  ASSUME NEW c \in Calls, call'[c].step = "idle"
  PROVE  CallOK(c)'
  BY DEF CallOK, Running

LEMMA CallTyped ==
  ASSUME StoreInv, NEW c \in Calls, Running(c)
  PROVE  /\ call[c].op \in Operations /\ call[c].ref \in Refs
         /\ call[c].id \in Ids \cup {NoId} /\ answer[c] = "none"
         /\ call[c].op # "retain" => call[c].id \in Ids
  BY DEF StoreInv, StoreTypes, CallOK, CallType

\* What a call promises with an answer.
AnswerStep ==
    \A c \in Calls : (Running(c) /\ answer'[c] = "ok" /\ call[c].op # "delete") =>
        /\ call[c].ref \in evidence
        /\ call[c].op # "retain" => binding[call[c].ref] = call[c].id

OnlyCall(c) ==
    \A d \in Calls \ {c} : call'[d] = call[d] /\ answer'[d] = answer[d]

\* A step of the call in slot c disturbs the residue of a reference only
\* through its own files and its own promise to remove them.
LEMMA ResidueStays ==
  ASSUME StoreInv, NEW c \in Calls, NEW r \in Refs, OnlyCall(c), lost \subseteq lost',
         r \in deleted' /\ r \notin lost' /\ r \in evidence' =>
            \/ RemovesEvidence(c, r)'
            \/ r \in deleted /\ r \in evidence /\ ~RemovesEvidence(c, r),
         r \in deleted' /\ r \notin lost' /\ binding'[r] # NoId =>
            \/ WillRemove(c, r)'
            \/ r \in deleted /\ binding[r] # NoId /\ ~WillRemove(c, r)
  PROVE  ResidueOK(r)'
<1>1. \A d \in Calls \ {c} :
          /\ WillRemove(d, r) => WillRemove(d, r)'
          /\ RemovesEvidence(d, r) => RemovesEvidence(d, r)'
  BY DEF OnlyCall, WillRemove, RemovesEvidence, Running
<1>2. ASSUME r \in deleted', r \notin lost', r \in evidence'
      PROVE  \E d \in Calls : RemovesEvidence(d, r)'
  <2>1. CASE RemovesEvidence(c, r)'
    BY <2>1
  <2>2. CASE r \in deleted /\ r \in evidence /\ ~RemovesEvidence(c, r)
    <3>1. PICK d \in Calls : RemovesEvidence(d, r)
      BY <1>2, <2>2 DEF StoreInv, ResidueOK
    <3>2. d # c
      BY <2>2, <3>1
    <3> QED
      BY <1>1, <3>1, <3>2
  <2> QED
    BY <1>2, <2>1, <2>2
<1>3. ASSUME r \in deleted', r \notin lost', binding'[r] # NoId
      PROVE  \E d \in Calls : WillRemove(d, r)'
  <2>1. CASE WillRemove(c, r)'
    BY <2>1
  <2>2. CASE r \in deleted /\ binding[r] # NoId /\ ~WillRemove(c, r)
    <3>1. PICK d \in Calls : WillRemove(d, r)
      BY <1>3, <2>2 DEF StoreInv, ResidueOK
    <3>2. d # c
      BY <2>2, <3>1
    <3> QED
      BY <1>1, <3>1, <3>2
  <2> QED
    BY <1>3, <2>1, <2>2
<1> QED
  BY <1>2, <1>3 DEF ResidueOK

\* What remains to be shown of a step of one call.
LEMMA CallKeeps ==
  ASSUME StoreInv, NEW c \in Calls, OnlyCall(c), FilesKept, StoreTypes',
         CallOK(c)', \A r \in Refs : ResidueOK(r)',
         Running(c) /\ answer'[c] = "ok" /\ call[c].op # "delete" =>
            /\ call[c].ref \in evidence
            /\ call[c].op # "retain" => binding[call[c].ref] = call[c].id
  PROVE  StoreInv' /\ AnswerStep
<1>1. \A d \in Calls : CallOK(d)'
  <2> TAKE d \in Calls
  <2>1. CASE d = c
    BY <2>1
  <2>2. CASE d # c
    <3>1. call'[d] = call[d] /\ answer'[d] = answer[d]
      BY <2>2 DEF OnlyCall
    <3>2. CallOK(d) /\ StoreTypes
      BY DEF StoreInv
    <3> QED
      BY <3>1, <3>2, OthersStay
  <2> QED
    BY <2>1, <2>2
<1>2. AnswerStep
  <2> SUFFICES ASSUME NEW d \in Calls, Running(d), answer'[d] = "ok", call[d].op # "delete"
               PROVE  /\ call[d].ref \in evidence
                      /\ call[d].op # "retain" => binding[call[d].ref] = call[d].id
    BY DEF AnswerStep
  <2>1. CASE d = c
    BY <2>1
  <2>2. CASE d # c
    BY <2>2, CallTyped DEF OnlyCall
  <2> QED
    BY <2>1, <2>2
<1> QED
  BY <1>1, <1>2 DEF StoreInv

LEMMA SameFiles ==
  ASSUME UNCHANGED <<evidence, binding, deleted>>
  PROVE  FilesKept
  BY DEF FilesKept

FilesUntouched == UNCHANGED <<evidence, binding, deleted, store, lost, faults>>

\* A call answers and changes no file.
LEMMA ReturnKeeps ==
  ASSUME StoreInv, NEW c \in Calls, NEW a \in Answers, Running(c), Return(c, a),
         FilesUntouched, UNCHANGED tokens, \A r \in deleted : ~WillRemove(c, r),
         a = "ok" /\ call[c].op # "delete" =>
            /\ call[c].ref \in evidence
            /\ call[c].op # "retain" => binding[call[c].ref] = call[c].id
  PROVE  StoreInv' /\ FilesKept /\ AnswerStep
<1>0. StoreTypes
  BY DEF StoreInv
<1>1. FilesKept
  BY SameFiles DEF FilesUntouched
<1>2. /\ call' \in [Calls -> CallType] /\ answer' \in [Calls -> Answers]
      /\ call'[c].step = "idle" /\ answer'[c] = a /\ OnlyCall(c)
  BY <1>0, ReturnEffect DEF OnlyCall
<1>3. StoreTypes'
  BY <1>0, <1>2 DEF StoreTypes, FilesUntouched
<1>4. \A r \in Refs : ResidueOK(r)'
  BY <1>2, ResidueStays DEF RemovesEvidence, FilesUntouched
<1>5. CallOK(c)'
  BY <1>2, IdleIsOK
<1> QED
  BY <1>1, <1>2, <1>3, <1>4, <1>5, CallKeeps

\* A call goes on to its next await and changes no file.
LEMMA GotoKeeps ==
  ASSUME StoreInv, NEW c \in Calls, NEW s \in Steps, Running(c), Goto(c, s),
         FilesUntouched, tokens' \subseteq Tokens(Ids), CallOK(c)',
         \A r \in deleted : WillRemove(c, r) => RemovesEvidence(c, r)'
  PROVE  StoreInv' /\ FilesKept /\ AnswerStep
<1>0. StoreTypes
  BY DEF StoreInv
<1>1. FilesKept
  BY SameFiles DEF FilesUntouched
<1>2. call' \in [Calls -> CallType] /\ answer' = answer /\ OnlyCall(c)
  BY <1>0, GotoEffect DEF OnlyCall
<1>3. StoreTypes'
  BY <1>0, <1>2 DEF StoreTypes, FilesUntouched
<1>4. \A r \in Refs : ResidueOK(r)'
  BY <1>2, ResidueStays DEF RemovesEvidence, FilesUntouched
<1>5. answer'[c] # "ok"
  BY <1>2, CallTyped
<1> QED
  BY <1>1, <1>2, <1>3, <1>4, <1>5, CallKeeps

LEMMA LookAtMarkerKeeps ==
  ASSUME StoreInv, NEW c \in Calls, LookAtMarker(c)
  PROVE  StoreInv' /\ FilesKept /\ AnswerStep
<1>0. Running(c) /\ FilesUntouched /\ UNCHANGED tokens /\ StoreTypes
  BY DEF StoreInv, LookAtMarker, Running, Kept, FilesUntouched
<1>1. \A r \in Refs : ~WillRemove(c, r)
  BY DEF LookAtMarker, WillRemove
<1>2. "Unavailable" \in Answers /\ "evidence?" \in Steps /\ tokens \subseteq Tokens(Ids)
      /\ deleted \subseteq Refs
  BY <1>0 DEF Answers, Steps, StoreTypes
<1>3. CASE Return(c, "Unavailable")
  BY <1>0, <1>1, <1>2, <1>3, ReturnKeeps
<1>4. CASE Goto(c, "evidence?")
  <2>1. answer' = answer /\ call'[c].step = "evidence?" /\ call'[c].op = call[c].op
        /\ call'[c].ref = call[c].ref /\ call'[c].id = call[c].id
    BY <1>0, <1>2, <1>4, GotoEffect
  <2>2. CallOK(c)'
    BY <1>0, <2>1, CallTyped DEF CallOK, Running, Found, Matched
  <2> QED
    BY <1>0, <1>1, <1>2, <1>4, <2>2, GotoKeeps
<1> QED
  BY <1>3, <1>4 DEF LookAtMarker

LEMMA LookAtEvidenceKeeps ==
  ASSUME StoreInv, NEW c \in Calls, LookAtEvidence(c)
  PROVE  StoreInv' /\ FilesKept /\ AnswerStep
<1> DEFINE k == call[c]
<1>0. Running(c) /\ FilesUntouched /\ UNCHANGED tokens /\ StoreTypes
  BY DEF StoreInv, LookAtEvidence, Running, Kept, FilesUntouched
<1>1. \A r \in Refs : ~WillRemove(c, r)
  BY DEF LookAtEvidence, WillRemove
<1>2. "Unavailable" \in Answers /\ tokens \subseteq Tokens(Ids) /\ deleted \subseteq Refs
  BY <1>0 DEF Answers, StoreTypes
<1>3. \/ Return(c, "Unavailable")
      \/ k.op = "retain" /\ Present(k.ref) /\ Goto(c, "final?")
      \/ k.op = "retain" /\ Goto(c, "create")
      \/ k.op # "retain" /\ Present(k.ref) /\ Goto(c, "binding?")
  BY DEF LookAtEvidence
<1>4. CASE Return(c, "Unavailable")
  BY <1>0, <1>1, <1>2, <1>4, ReturnKeeps
<1>5. ASSUME NEW s \in {"final?", "create", "binding?"}, Goto(c, s),
             s = "binding?" <=> k.op # "retain", s # "create" => Present(k.ref)
      PROVE  StoreInv' /\ FilesKept /\ AnswerStep
  <2>1. s \in Steps
    BY DEF Steps
  <2>2. answer' = answer /\ call'[c].step = s /\ call'[c].op = k.op
        /\ call'[c].ref = k.ref /\ call'[c].id = k.id
    BY <1>0, <1>5, <2>1, GotoEffect
  <2>3. CallOK(c)'
    BY <1>0, <1>5, <2>2, CallTyped DEF CallOK, Running, Found, Matched, Present, FilesUntouched
  <2> QED
    BY <1>0, <1>1, <1>2, <1>5, <2>1, <2>3, GotoKeeps
<1> QED
  BY <1>3, <1>4, <1>5

LEMMA LookAtBindingKeeps ==
  ASSUME StoreInv, NEW c \in Calls, LookAtBinding(c)
  PROVE  StoreInv' /\ FilesKept /\ AnswerStep
<1> DEFINE k == call[c]
<1>0. Running(c) /\ FilesUntouched /\ StoreTypes /\ k.step = "binding?" /\ k.op # "retain"
  BY DEF StoreInv, LookAtBinding, Running, Kept, FilesUntouched, CallOK
<1>1. \A r \in Refs : ~WillRemove(c, r)
  BY DEF LookAtBinding, WillRemove
<1>2. {"Unavailable", "Mismatch"} \subseteq Answers /\ tokens \subseteq Tokens(Ids)
      /\ deleted \subseteq Refs
  BY <1>0 DEF Answers, StoreTypes
<1>3. \/ Return(c, "Unavailable") /\ UNCHANGED tokens
      \/ Return(c, "Mismatch") /\ UNCHANGED tokens
      \/ k.op = "bind" /\ Goto(c, "create") /\ UNCHANGED tokens
      \/ /\ BoundTo(k.ref, k.id)
         /\ Goto(c, IF k.op = "delete" THEN "create" ELSE "final?")
         /\ \/ UNCHANGED tokens
            \/ \E o \in {"inspect", "export", "delete"} :
                  tokens' = tokens \cup {[op |-> o, ref |-> k.ref, id |-> k.id]}
  BY DEF LookAtBinding
<1>4. CASE UNCHANGED tokens /\ (Return(c, "Unavailable") \/ Return(c, "Mismatch"))
  BY <1>0, <1>1, <1>2, <1>4, ReturnKeeps
<1>5. tokens' \subseteq Tokens(Ids)
  <2>1. k.ref \in Refs /\ k.id \in Ids
    BY <1>0, CallTyped
  <2>2. \A o \in {"inspect", "export", "delete"} :
           [op |-> o, ref |-> k.ref, id |-> k.id] \in Tokens(Ids)
    BY <2>1 DEF Tokens
  <2>3. \/ UNCHANGED tokens
        \/ \E o \in {"inspect", "export", "delete"} :
              tokens' = tokens \cup {[op |-> o, ref |-> k.ref, id |-> k.id]}
    BY <1>3
  <2> QED
    BY <1>2, <2>2, <2>3
<1>6. ASSUME NEW s \in {"final?", "create"}, Goto(c, s),
             s = "final?" => k.op # "delete" /\ BoundTo(k.ref, k.id),
             s = "create" => k.op = "bind" \/ (k.op = "delete" /\ BoundTo(k.ref, k.id))
      PROVE  StoreInv' /\ FilesKept /\ AnswerStep
  <2>1. s \in Steps
    BY DEF Steps
  <2>2. answer' = answer /\ call'[c].step = s /\ call'[c].op = k.op
        /\ call'[c].ref = k.ref /\ call'[c].id = k.id
    BY <1>0, <1>6, <2>1, GotoEffect
  <2>3. k.ref \notin deleted => k.ref \in evidence
    BY <1>0 DEF StoreInv, CallOK, Found
  <2>4. CallOK(c)'
    BY <1>0, <1>6, <2>2, <2>3, CallTyped
       DEF CallOK, Running, Found, Matched, BoundTo, FilesUntouched
  <2> QED
    BY <1>0, <1>1, <1>2, <1>5, <1>6, <2>1, <2>4, GotoKeeps
<1> QED
  BY <1>0, <1>3, <1>4, <1>6

\* What atomicCreate leaves when the file was not there.
LEMMA CreatesKeepsFiles ==
  ASSUME StoreInv, NEW c \in Calls, Creates(call[c]),
         call[c].op \in {"retain", "bind", "delete"}, Running(c)
  PROVE  /\ FilesKept
         /\ evidence' \subseteq Refs /\ deleted' \subseteq Refs
         /\ binding' \in [Refs -> Ids \cup {NoId}]
         /\ \A r \in Refs : r # call[c].ref =>
               /\ r \in evidence' <=> r \in evidence
               /\ r \in deleted' <=> r \in deleted
               /\ binding'[r] = binding[r]
<1> DEFINE k == call[c]
<1>1. k.ref \in Refs /\ (k.op # "retain" => k.id \in Ids)
  BY CallTyped
<1>2. evidence \subseteq Refs /\ deleted \subseteq Refs /\ binding \in [Refs -> Ids \cup {NoId}]
  BY DEF StoreInv, StoreTypes
<1>3. CASE k.op = "retain"
  BY <1>1, <1>2, <1>3 DEF Creates, FilesKept
<1>4. CASE k.op = "bind"
  BY <1>1, <1>2, <1>4 DEF Creates, FilesKept, Unbound
<1>5. CASE k.op = "delete"
  BY <1>1, <1>2, <1>5 DEF Creates, FilesKept
<1> QED
  BY <1>3, <1>4, <1>5

LEMMA CreateKeeps ==
  ASSUME StoreInv, NEW c \in Calls, Create(c)
  PROVE  StoreInv' /\ FilesKept /\ AnswerStep
<1> DEFINE k == call[c]
<1>0. /\ Running(c) /\ StoreTypes /\ k.step = "create"
      /\ k.op \in {"retain", "bind", "delete"} /\ k.ref \in Refs
      /\ UNCHANGED <<tokens, store, lost, faults>>
  BY CallTyped DEF StoreInv, Create, Running, Kept, CallOK
<1>1. \A r \in Refs : ~WillRemove(c, r)
  BY <1>0 DEF WillRemove
<1>2. CASE /\ Exists(k)
           /\ Return(c, IF k.op = "delete" THEN "Unavailable" ELSE "Mismatch")
           /\ UNCHANGED <<evidence, binding, deleted>>
  <2>1. {"Unavailable", "Mismatch"} \subseteq Answers /\ deleted \subseteq Refs
    BY <1>0 DEF Answers, StoreTypes
  <2>2. FilesUntouched
    BY <1>0, <1>2 DEF FilesUntouched
  <2>3. Return(c, "Unavailable") \/ Return(c, "Mismatch")
    BY <1>2
  <2> QED
    BY <1>0, <1>1, <2>1, <2>2, <2>3, ReturnKeeps
<1>3. CASE Creates(k) /\ Goto(c, AfterCreate(k.op))
  <2>1. AfterCreate(k.op) \in Steps
        /\ AfterCreate(k.op) = (IF k.op = "delete" THEN "removeEvidence" ELSE "final?")
    BY DEF AfterCreate, Steps
  <2>2. /\ call' \in [Calls -> CallType] /\ answer' = answer /\ OnlyCall(c)
        /\ call'[c].op = k.op /\ call'[c].ref = k.ref /\ call'[c].id = k.id
        /\ call'[c].step = (IF k.op = "delete" THEN "removeEvidence" ELSE "final?")
    BY <1>0, <1>3, <2>1, GotoEffect DEF OnlyCall
  <2>3. /\ FilesKept /\ evidence' \subseteq Refs /\ deleted' \subseteq Refs
        /\ binding' \in [Refs -> Ids \cup {NoId}]
        /\ \A r \in Refs : r # k.ref =>
              /\ r \in evidence' <=> r \in evidence
              /\ r \in deleted' <=> r \in deleted
              /\ binding'[r] = binding[r]
    BY <1>0, <1>3, CreatesKeepsFiles
  <2>4. StoreTypes'
    BY <1>0, <2>2, <2>3 DEF StoreTypes
  <2>5. \A r \in Refs : r = k.ref => WillRemove(c, r)' /\ RemovesEvidence(c, r)'
    BY <1>0, <2>2 DEF WillRemove, RemovesEvidence, Running
  <2>6. \A r \in Refs : ResidueOK(r)'
    <3> TAKE r \in Refs
    <3>1. CASE r = k.ref
      BY <2>5, <3>1 DEF ResidueOK
    <3>2. CASE r # k.ref
      BY <1>0, <1>1, <2>2, <2>3, <3>2, ResidueStays DEF RemovesEvidence
    <3> QED
      BY <3>1, <3>2
  <2>7. k.ref \notin deleted /\ k.op # "retain" => k.ref \in evidence
    BY <1>0 DEF StoreInv, CallOK, Found
  <2>8. /\ k.op = "retain" => k.ref \in evidence'
        /\ k.op = "bind" => binding'[k.ref] = k.id /\ evidence' = evidence /\ deleted' = deleted
        /\ k.op = "delete" => k.ref \in deleted'
    BY <1>0, <1>3 DEF Creates, StoreTypes
  <2>9. CallOK(c)'
    BY <1>0, <2>2, <2>7, <2>8, CallTyped DEF CallOK, Running, Found, Matched
  <2>10. answer'[c] # "ok"
    BY <1>0, <2>2, CallTyped
  <2> QED
    BY <2>2, <2>3, <2>4, <2>6, <2>9, <2>10, <1>0, CallKeeps
<1> QED
  BY <1>2, <1>3 DEF Create

LEMMA FinallyKeeps ==
  ASSUME StoreInv, NEW c \in Calls, Finally(c)
  PROVE  StoreInv' /\ FilesKept /\ AnswerStep
<1> DEFINE k == call[c]
<1>0. /\ Running(c) /\ FilesUntouched /\ UNCHANGED tokens /\ StoreTypes
      /\ k.step = "final?" /\ k.op # "delete"
  BY DEF StoreInv, Finally, Running, Kept, FilesUntouched, CallOK
<1>1. {"Unavailable", "ok"} \subseteq Answers /\ tokens \subseteq Tokens(Ids)
      /\ "removeEvidence" \in Steps
  BY <1>0 DEF Answers, StoreTypes, Steps
<1>2. CASE k.ref \notin deleted /\ Return(c, "ok")
  <2>1. \A r \in deleted : ~WillRemove(c, r)
    BY <1>2 DEF WillRemove
  <2>2. k.ref \in evidence /\ (k.op # "retain" => binding[k.ref] = k.id)
    BY <1>0, <1>2 DEF StoreInv, CallOK, Found, Matched
  <2> QED
    BY <1>0, <1>1, <1>2, <2>1, <2>2, ReturnKeeps
<1>3. CASE k.ref \in deleted /\ CleansUp(k.op) /\ Goto(c, "removeEvidence")
  <2>1. answer' = answer /\ call'[c].step = "removeEvidence" /\ call'[c].op = k.op
        /\ call'[c].ref = k.ref /\ call'[c].id = k.id
    BY <1>0, <1>1, <1>3, GotoEffect
  <2>2. CallOK(c)'
    BY <1>0, <1>3, <2>1, CallTyped
       DEF CallOK, Running, Found, Matched, CleansUp, FilesUntouched
  <2>3. \A r \in deleted : WillRemove(c, r) => RemovesEvidence(c, r)'
    BY <2>1 DEF WillRemove, RemovesEvidence, Running
  <2> QED
    BY <1>0, <1>1, <1>3, <2>2, <2>3, GotoKeeps
<1>4. CASE ~CleansUp(k.op) /\ Return(c, "Unavailable")
  <2>1. \A r \in deleted : ~WillRemove(c, r)
    BY <1>0, <1>4 DEF WillRemove, CleansUp
  <2> QED
    BY <1>0, <1>1, <1>4, <2>1, ReturnKeeps
<1> QED
  BY <1>2, <1>3, <1>4 DEF Finally

LEMMA RemoveEvidenceKeeps ==
  ASSUME StoreInv, NEW c \in Calls, RemoveEvidence(c)
  PROVE  StoreInv' /\ FilesKept /\ AnswerStep
<1> DEFINE k == call[c]
<1>0. /\ Running(c) /\ StoreTypes /\ k.step = "removeEvidence" /\ k.ref \in deleted
      /\ k.op \in {"retain", "bind", "delete"} /\ k.ref \in Refs
      /\ UNCHANGED <<binding, deleted, tokens, store, lost, faults>>
      /\ evidence' = evidence \ {k.ref} /\ Goto(c, "removeBinding")
  BY CallTyped DEF StoreInv, RemoveEvidence, Running, Kept, CallOK
<1>1. "removeBinding" \in Steps
  BY DEF Steps
<1>2. /\ call' \in [Calls -> CallType] /\ answer' = answer /\ OnlyCall(c)
      /\ call'[c].op = k.op /\ call'[c].ref = k.ref /\ call'[c].id = k.id
      /\ call'[c].step = "removeBinding"
  BY <1>0, <1>1, GotoEffect DEF OnlyCall
<1>3. FilesKept
  BY <1>0 DEF FilesKept
<1>4. StoreTypes'
  BY <1>0, <1>2 DEF StoreTypes
<1>5. \A r \in Refs : ResidueOK(r)'
  <2> TAKE r \in Refs
  <2>1. CASE r = k.ref
    <3>1. WillRemove(c, r)' /\ r \notin evidence'
      BY <1>0, <1>2, <2>1 DEF WillRemove, Running
    <3> QED
      BY <3>1 DEF ResidueOK
  <2>2. CASE r # k.ref
    <3>1. ~WillRemove(c, r)
      BY <2>2 DEF WillRemove
    <3> QED
      BY <1>0, <1>2, <3>1, ResidueStays DEF RemovesEvidence
  <2> QED
    BY <2>1, <2>2
<1>6. CallOK(c)'
  BY <1>0, <1>2, CallTyped DEF CallOK, Running, Found, Matched
<1>7. answer'[c] # "ok"
  BY <1>0, <1>2, CallTyped
<1> QED
  BY <1>0, <1>2, <1>3, <1>4, <1>5, <1>6, <1>7, CallKeeps

LEMMA RemoveBindingKeeps ==
  ASSUME StoreInv, NEW c \in Calls, RemoveBinding(c)
  PROVE  StoreInv' /\ FilesKept /\ AnswerStep
<1> DEFINE k == call[c]
           a == IF k.op = "delete" THEN "ok" ELSE "Unavailable"
<1>0. /\ Running(c) /\ StoreTypes /\ k.step = "removeBinding" /\ k.ref \in deleted
      /\ k.op \in {"retain", "bind", "delete"} /\ k.ref \in Refs
      /\ UNCHANGED <<evidence, deleted, tokens, store, lost, faults>>
      /\ binding' = [binding EXCEPT ![k.ref] = NoId] /\ Return(c, a)
  BY CallTyped DEF StoreInv, RemoveBinding, Running, Kept, CallOK
<1>1. a \in Answers
  BY DEF Answers
<1>2. /\ call' \in [Calls -> CallType] /\ answer' \in [Calls -> Answers]
      /\ call'[c].step = "idle" /\ answer'[c] = a /\ OnlyCall(c)
  BY <1>0, <1>1, ReturnEffect DEF OnlyCall
<1>3. binding' \in [Refs -> Ids \cup {NoId}] /\ binding'[k.ref] = NoId
      /\ \A r \in Refs : r # k.ref => binding'[r] = binding[r]
  BY <1>0 DEF StoreTypes
<1>4. FilesKept
  BY <1>0, <1>3 DEF FilesKept
<1>5. StoreTypes'
  BY <1>0, <1>2, <1>3 DEF StoreTypes
<1>6. \A r \in Refs : ResidueOK(r)'
  <2> TAKE r \in Refs
  <2>1. ~RemovesEvidence(c, r)
    BY <1>0 DEF RemovesEvidence
  <2>2. r = k.ref => binding'[r] = NoId
    BY <1>3
  <2>3. r # k.ref => ~WillRemove(c, r) /\ binding'[r] = binding[r]
    BY <1>3 DEF WillRemove
  <2> QED
    BY <1>0, <1>2, <2>1, <2>2, <2>3, ResidueStays
<1>7. CallOK(c)'
  BY <1>2, IdleIsOK
<1>8. answer'[c] = "ok" => k.op = "delete"
  BY <1>2
<1> QED
  BY <1>0, <1>2, <1>4, <1>5, <1>6, <1>7, <1>8, CallKeeps

LEMMA FailKeeps ==
  ASSUME StoreInv, NEW c \in Calls, Fail(c)
  PROVE  StoreInv' /\ FilesKept /\ AnswerStep
<1> DEFINE k == call[c]
<1>0. /\ Running(c) /\ StoreTypes /\ k.ref \in Refs /\ faults' \in 0..MaxFaults
      /\ UNCHANGED <<store, tokens>> /\ Return(c, FailedAnswer(k))
  BY CallTyped, StoreConstants DEF StoreInv, StoreTypes, Fail
<1>1. PICK a \in {"Unavailable", "failed"} : Return(c, a)
  BY <1>0 DEF FailedAnswer
<1>2. /\ call' \in [Calls -> CallType] /\ answer' \in [Calls -> Answers]
      /\ call'[c].step = "idle" /\ answer'[c] = a /\ OnlyCall(c)
  <2>1. a \in Answers
    BY DEF Answers
  <2> QED
    BY <1>0, <1>1, <2>1, ReturnEffect DEF OnlyCall
<1>3. CallOK(c)' /\ answer'[c] # "ok"
  BY <1>2, IdleIsOK
<1>4. CASE k.step = "create" /\ Creates(k) /\ lost' = lost \cup {k.ref}
  <2>1. k.op \in {"retain", "bind", "delete"}
    BY <1>0, <1>4 DEF StoreInv, CallOK
  <2>2. /\ FilesKept /\ evidence' \subseteq Refs /\ deleted' \subseteq Refs
        /\ binding' \in [Refs -> Ids \cup {NoId}]
        /\ \A r \in Refs : r # k.ref =>
              /\ r \in evidence' <=> r \in evidence
              /\ r \in deleted' <=> r \in deleted
              /\ binding'[r] = binding[r]
    BY <1>0, <1>4, <2>1, CreatesKeepsFiles
  <2>3. StoreTypes'
    BY <1>0, <1>2, <1>4, <2>2 DEF StoreTypes
  <2>4. \A r \in Refs : ResidueOK(r)'
    <3> TAKE r \in Refs
    <3>1. CASE r = k.ref
      BY <1>4, <3>1 DEF ResidueOK
    <3>2. CASE r # k.ref
      <4>1. ~WillRemove(c, r)
        BY <3>2 DEF WillRemove
      <4> QED
        BY <1>2, <1>4, <2>2, <3>2, <4>1, ResidueStays DEF RemovesEvidence
    <3> QED
      BY <3>1, <3>2
  <2> QED
    BY <1>0, <1>2, <1>3, <2>2, <2>3, <2>4, CallKeeps
<1>5. CASE /\ lost' = IF WillRemove(c, k.ref) THEN lost \cup {k.ref} ELSE lost
           /\ UNCHANGED <<evidence, binding, deleted>>
  <2>1. FilesKept
    BY <1>5, SameFiles
  <2>2. StoreTypes' /\ lost \subseteq lost'
    BY <1>0, <1>2, <1>5 DEF StoreTypes
  <2>3. \A r \in Refs : WillRemove(c, r) => r \in lost'
    BY <1>5 DEF WillRemove
  <2>4. \A r \in Refs : ResidueOK(r)'
    BY <1>2, <1>5, <2>2, <2>3, ResidueStays DEF RemovesEvidence
  <2> QED
    BY <1>0, <1>2, <1>3, <2>1, <2>2, <2>4, CallKeeps
<1> QED
  BY <1>4, <1>5 DEF Fail

\* The steps that touch no call.
LEMMA QuietKeeps ==
  ASSUME StoreInv, StoreTypes', FilesKept, UNCHANGED <<call, answer>>,
         \A r \in Refs : r \in deleted' /\ r \notin lost' =>
            /\ r \in evidence' => r \in evidence /\ r \in deleted /\ r \notin lost
            /\ binding'[r] # NoId => binding[r] # NoId /\ r \in deleted /\ r \notin lost
  PROVE  StoreInv' /\ AnswerStep
<1>1. \A c \in Calls : CallOK(c)'
  BY OthersStay DEF StoreInv
<1>2. \A r \in Refs : ResidueOK(r)'
  BY DEF StoreInv, ResidueOK, RemovesEvidence, WillRemove, Running
<1>3. AnswerStep
  BY CallTyped DEF AnswerStep
<1> QED
  BY <1>1, <1>2, <1>3 DEF StoreInv

LEMMA UnchangedKeeps ==
  ASSUME StoreInv, UNCHANGED storeVars
  PROVE  StoreInv' /\ FilesKept /\ AnswerStep
<1>1. StoreTypes'
  BY DEF StoreInv, StoreTypes, storeVars
<1>2. FilesKept
  BY SameFiles DEF storeVars
<1> QED
  BY <1>1, <1>2, QuietKeeps DEF storeVars

LEMMA IssueKeeps ==
  ASSUME StoreInv, NEW op \in {"inspect", "export", "delete"}, NEW r \in Refs,
         NEW d \in Ids, IssueAuthorization(op, r, d)
  PROVE  StoreInv' /\ FilesKept /\ AnswerStep
<1>1. tokens' \subseteq Tokens(Ids)
  BY DEF StoreInv, StoreTypes, IssueAuthorization, Tokens
<1>2. StoreTypes'
  BY <1>1 DEF StoreInv, StoreTypes, IssueAuthorization
<1>3. FilesKept
  BY SameFiles DEF IssueAuthorization
<1> QED
  BY <1>2, <1>3, QuietKeeps DEF IssueAuthorization

LEMMA ExpireKeeps ==
  ASSUME StoreInv, Expire
  PROVE  StoreInv' /\ FilesKept /\ AnswerStep
<1>1. StoreTypes'
  BY DEF StoreInv, StoreTypes, Expire
<1>2. FilesKept
  BY SameFiles DEF Expire
<1> QED
  BY <1>1, <1>2, QuietKeeps DEF Expire

LEMMA OpenKeeps ==
  ASSUME StoreInv, Open
  PROVE  StoreInv' /\ FilesKept /\ AnswerStep
<1>1. StoreTypes'
  BY DEF StoreInv, StoreTypes, Open
<1>2. FilesKept
  BY SameFiles DEF Open
<1> QED
  BY <1>1, <1>2, QuietKeeps DEF Open

LEMMA OpenedKeeps ==
  ASSUME StoreInv, Opened
  PROVE  StoreInv' /\ FilesKept /\ AnswerStep
<1>1. StoreTypes'
  BY DEF StoreInv, StoreTypes, Opened
<1>2. FilesKept
  BY SameFiles DEF Opened
<1> QED
  BY <1>1, <1>2, QuietKeeps DEF Opened, Residue

LEMMA ReconcileKeeps ==
  ASSUME StoreInv, NEW r \in Refs, Reconcile(r)
  PROVE  StoreInv' /\ FilesKept /\ AnswerStep
<1>1. binding' \in [Refs -> Ids \cup {NoId}]
      /\ \A q \in Refs : binding'[q] = IF q = r THEN NoId ELSE binding[q]
  BY DEF StoreInv, StoreTypes, Reconcile
<1>2. StoreTypes'
  BY <1>1 DEF StoreInv, StoreTypes, Reconcile
<1>3. FilesKept
  BY <1>1 DEF FilesKept, Reconcile
<1> QED
  BY <1>1, <1>2, <1>3, QuietKeeps DEF Reconcile

LEMMA StartKeeps ==
  ASSUME StoreInv, NEW c \in Calls, NEW op \in Operations, NEW r \in Refs,
         NEW d \in Ids \cup {NoId}, NEW again \in BOOLEAN,
         op # "retain" => d \in Ids, Start(c, op, r, d, again)
  PROVE  StoreInv' /\ FilesKept /\ AnswerStep
<1>0. /\ FilesUntouched /\ UNCHANGED tokens /\ StoreTypes /\ ~Running(c)
      /\ {"none", "Forbidden"} \subseteq Answers
  BY DEF StoreInv, Start, FilesUntouched, Answers
<1>1. FilesKept
  BY <1>0, SameFiles DEF FilesUntouched
<1>2. \A q \in Refs : ~WillRemove(c, q) /\ ~RemovesEvidence(c, q)
  BY <1>0 DEF WillRemove, RemovesEvidence
<1>3. CASE Admits(op, r, d)
  <2> DEFINE new == [op |-> op, ref |-> r, id |-> d, replay |-> again, step |-> "marker?"]
  <2>1. new \in CallType
    BY DEF CallType, Steps
  <2>2. call' = [call EXCEPT ![c] = new] /\ answer' = [answer EXCEPT ![c] = "none"]
    BY <1>3 DEF Start
  <2>3. /\ call' \in [Calls -> CallType] /\ answer' \in [Calls -> Answers]
        /\ call'[c] = new /\ answer'[c] = "none" /\ OnlyCall(c)
    BY <1>0, <2>1, <2>2 DEF StoreTypes, OnlyCall
  <2>4. StoreTypes'
    BY <1>0, <2>3 DEF StoreTypes, FilesUntouched
  <2>5. \A q \in Refs : ResidueOK(q)'
    BY <1>0, <1>2, <2>3, ResidueStays DEF FilesUntouched
  <2>6. CallOK(c)'
    BY <2>3 DEF CallOK, Running, Found, Matched
  <2> QED
    BY <1>0, <1>1, <2>3, <2>4, <2>5, <2>6, CallKeeps
<1>4. CASE ~Admits(op, r, d)
  <2>1. call' = call /\ answer' = [answer EXCEPT ![c] = "Forbidden"]
    BY <1>4 DEF Start
  <2>2. answer' \in [Calls -> Answers] /\ OnlyCall(c)
    BY <1>0, <2>1 DEF StoreTypes, OnlyCall
  <2>3. StoreTypes'
    BY <1>0, <2>1, <2>2 DEF StoreTypes, FilesUntouched
  <2>4. \A q \in Refs : ResidueOK(q)'
    BY <1>0, <1>2, <2>2, ResidueStays DEF FilesUntouched
  <2>5. CallOK(c)'
    BY <1>0, <2>1 DEF CallOK, Running
  <2> QED
    BY <1>0, <1>1, <2>2, <2>3, <2>4, <2>5, CallKeeps
<1> QED
  BY <1>3, <1>4

LEMMA CrashKeeps ==
  ASSUME StoreInv, Crash
  PROVE  StoreInv' /\ FilesKept /\ AnswerStep
<1>1. Idle \in CallType /\ Idle.step = "idle" /\ "failed" \in Answers
  BY DEF Idle, CallType, Steps, Answers
<1>2. /\ call' \in [Calls -> CallType] /\ answer' \in [Calls -> Answers]
      /\ \A c \in Calls : call'[c].step = "idle"
      /\ \A c \in Calls : Running(c) => answer'[c] = "failed"
  BY <1>1 DEF StoreInv, StoreTypes, Crash
<1>3. StoreTypes'
  BY <1>2, StoreConstants DEF StoreInv, StoreTypes, Crash
<1>4. FilesKept
  BY SameFiles DEF Crash
<1>5. \A c \in Calls : CallOK(c)'
  BY <1>2, IdleIsOK
<1>6. \A r \in Refs : ResidueOK(r)'
  BY DEF StoreInv, ResidueOK, RemovesEvidence, Crash
<1>7. AnswerStep
  BY <1>2 DEF AnswerStep
<1> QED
  BY <1>3, <1>4, <1>5, <1>6, <1>7 DEF StoreInv

\* Every step of the store keeps the invariant and the files.
LEMMA StoreKeeps ==
  ASSUME StoreInv, StoreAct
  PROVE  StoreInv' /\ FilesKept /\ AnswerStep
<1>1. CASE StoreStep
  <2>1. ASSUME NEW c \in Calls, CallStep(c)
        PROVE  StoreInv' /\ FilesKept /\ AnswerStep
    BY <2>1, LookAtMarkerKeeps, LookAtEvidenceKeeps, LookAtBindingKeeps, CreateKeeps,
       FinallyKeeps, RemoveEvidenceKeeps, RemoveBindingKeeps DEF CallStep
  <2> QED
    BY <1>1, <2>1, FailKeeps, ExpireKeeps, OpenKeeps, OpenedKeeps, ReconcileKeeps
       DEF StoreStep
<1> QED
  BY <1>1, UnchangedKeeps, StartKeeps, IssueKeeps, CrashKeeps DEF StoreAct

-----------------------------------------------------------------------------
(* The ledger.                                                               *)

\* The ledger only grows.
RowsKept ==
    /\ ledger' \in Seq(RowType)
    /\ Len(ledger) <= Len(ledger')
    /\ \A t \in 0..(Len(ledger) - 1) : ledger'[t + 1] = ledger[t + 1]

NewTicks == Len(ledger)..(Len(ledger') - 1)

LEMMA TickIsNat ==
  ASSUME GateTypes
  PROVE  Tick \in Nat /\ Tick = Len(ledger)
  BY DEF GateTypes, Tick

LEMMA RowTyped ==
  ASSUME GateTypes, NEW t \in 0..(Tick - 1)
  PROVE  At(t) \in RowType /\ IsTick(t)
  BY DEF GateTypes, Tick, At, IsTick

LEMMA RowsAreKept ==
  ASSUME GateTypes, RowsKept, NEW t \in Int, IsTick(t)
  PROVE  At(t)' = At(t) /\ IsTick(t)' /\ t \in 0..(Tick - 1)
  BY DEF GateTypes, RowsKept, IsTick, At, Tick

LEMMA SameLedger ==
  ASSUME GateTypes, UNCHANGED ledger
  PROVE  RowsKept /\ NewTicks = {}
  BY DEF GateTypes, RowsKept, NewTicks

LEMMA AppendKeeps ==
  ASSUME GateTypes, NEW r \in RowType, AppendRow(r)
  PROVE  RowsKept /\ NewTicks = {Len(ledger)} /\ ledger'[Len(ledger) + 1] = r
<1>1. ledger \in Seq(RowType) /\ ledger' = Append(ledger, r)
  BY DEF GateTypes, AppendRow
<1>2. /\ Len(ledger') = Len(ledger) + 1 /\ ledger' \in Seq(RowType)
      /\ ledger'[Len(ledger) + 1] = r
      /\ \A i \in 1..Len(ledger) : ledger'[i] = ledger[i]
  BY <1>1
<1> QED
  BY <1>2 DEF RowsKept, NewTicks

LEMMA RulingStands ==
  ASSUME GateTypes, RowsKept, NEW m \in Int, NEW p, NEW v, IsTick(m), RestsOn(m, p, v)
  PROVE  IsTick(m)' /\ RestsOn(m, p, v)'
<1>1. IsTick(m)' /\ At(m)' = At(m)
  BY RowsAreKept
<1> QED
  BY <1>1 DEF RestsOn

\* A row that was well stays so.
LEMMA RowStays ==
  ASSUME GateTypes, RowsKept, NEW t \in 0..(Tick - 1), RowOK(t)
  PROVE  RowOK(t)'
<1>0. t \in Int /\ IsTick(t) /\ At(t) \in RowType /\ Tick \in Nat
  BY RowTyped, TickIsNat
<1>1. At(t)' = At(t)
  BY <1>0, RowsAreKept
<1>2. \A u \in 0..(Tick - 1) : At(u)' = At(u) /\ IsTick(u)'
  BY RowTyped, RowsAreKept
<1>3. ASSUME At(t).type = "Decided" PROVE DecidedOK(t)'
  <2> DEFINE d == At(t)
  <2>1. DecidedOK(t)
    BY <1>3 DEF RowOK
  <2>2. d.principal # NoTick => d.principal \in 0..(Tick - 1)
    <3>1. d.id \in 0..t /\ (d.principal # NoTick => d.principal \in 0..(d.id - 1))
      BY <2>1 DEF DecidedOK
    <3>2. d.id \in Int /\ d.principal \in Int
      BY <1>0 DEF RowType
    <3> QED
      BY <1>0, <3>1, <3>2
  <2>3. d.principal # NoTick => RestsOn(d.principal, d.path, d.variant)'
    <3>1. HAVE d.principal # NoTick
    <3> QED
      BY <1>1, <1>2, <2>1, <2>2, <3>1 DEF DecidedOK, RestsOn
  <2> QED
    BY <1>1, <2>1, <2>3 DEF DecidedOK
<1>4. ASSUME IsRuling(t) PROVE RulingOK(t)'
  <2>1. RulingOK(t)
    BY <1>4 DEF RowOK
  <2>2. At(t).id \in 0..(Tick - 1)
    <3>1. At(t).id \in 0..(t - 1)
      BY <2>1 DEF RulingOK
    <3>2. At(t).id \in Int
      BY <1>0 DEF RowType
    <3> QED
      BY <1>0, <3>1, <3>2
  <2> QED
    BY <1>1, <1>2, <2>1, <2>2 DEF RulingOK
<1>5. ASSUME At(t).type = "ActionAuthorized" PROVE AuthorizedOK(t)'
  <2> DEFINE a == At(t)
  <2>1. AuthorizedOK(t)
    BY <1>5 DEF RowOK
  <2>2. a.id \in Int /\ a.by \in Int
    BY <1>0 DEF RowType
  <2>3. IsTick(a.by) /\ IsTick(a.id) /\ IsTick(t - 1)
    BY <2>1 DEF AuthorizedOK, VerdictHolds, ReceiptOf
  <2>4. {a.by, a.id, t - 1} \subseteq 0..(Tick - 1)
    BY <1>0, <2>2, <2>3, TickIsNat DEF IsTick
  <2>5. ReceiptOf(t, t - 1)'
    BY <1>1, <1>2, <2>1, <2>4 DEF AuthorizedOK, ReceiptOf
  <2>6. VerdictHolds(t)'
    BY <1>1, <1>2, <2>1, <2>4 DEF AuthorizedOK, VerdictHolds
  <2> QED
    BY <1>1, <1>2, <2>1, <2>4, <2>5, <2>6 DEF AuthorizedOK
<1> QED
  BY <1>1, <1>3, <1>4, <1>5 DEF RowOK, IsRuling

\* The rows a step appends are well; a ruling among them answers a request
\* nobody answered.
NewRowsOK(p) ==
    /\ \A t \in NewTicks : RowOK(t)' /\ At(t)'.path = p
    /\ \A t, u \in NewTicks : IsRuling(t)' /\ IsRuling(u)' => t = u
    /\ \A t \in NewTicks, u \in 0..(Tick - 1) :
          IsRuling(t)' /\ IsRuling(u) => At(t)'.id # At(u).id

LEMMA TickSplits ==
  ASSUME GateTypes, RowsKept, NEW t \in 0..(Len(ledger') - 1)
  PROVE  \/ t \in 0..(Tick - 1) /\ At(t)' = At(t) /\ IsTick(t)'
         \/ t \in NewTicks /\ t \notin 0..(Tick - 1)
<1>1. Tick \in Nat /\ Tick = Len(ledger) /\ Len(ledger') \in Nat
  BY TickIsNat DEF RowsKept
<1>2. t \in 0..(Tick - 1) \/ (t \in NewTicks /\ t \notin 0..(Tick - 1))
  BY <1>1 DEF NewTicks
<1>3. t \in 0..(Tick - 1) => At(t)' = At(t) /\ IsTick(t)'
  BY RowTyped, RowsAreKept
<1> QED
  BY <1>2, <1>3

LEMMA RowsGrow ==
  ASSUME GateTypes, RowsInv, RowsKept, NEW p, NewRowsOK(p)
  PROVE  RowsInv'
<1>0. Tick' = Len(ledger')
  BY DEF Tick
<1>1. ASSUME NEW t \in 0..(Tick' - 1) PROVE RowOK(t)'
  BY <1>0, TickSplits, RowStays DEF RowsInv, NewRowsOK
<1>2. ASSUME NEW t \in 0..(Tick' - 1), NEW u \in 0..(Tick' - 1),
             IsRuling(t)', IsRuling(u)', At(t)'.id = At(u)'.id
      PROVE  t = u
  <2>1. CASE t \in 0..(Tick - 1) /\ At(t)' = At(t)
    <3>1. CASE u \in 0..(Tick - 1) /\ At(u)' = At(u)
      BY <1>2, <2>1, <3>1 DEF RowsInv, AnsweredOnce, IsRuling
    <3>2. CASE u \in NewTicks
      <4>1. IsRuling(t)
        BY <1>2, <2>1 DEF IsRuling
      <4> QED
        BY <1>2, <2>1, <3>2, <4>1 DEF NewRowsOK
    <3> QED
      BY <1>0, <3>1, <3>2, TickSplits
  <2>2. CASE t \in NewTicks
    <3>1. CASE u \in 0..(Tick - 1) /\ At(u)' = At(u)
      <4>1. IsRuling(u)
        BY <1>2, <3>1 DEF IsRuling
      <4> QED
        BY <1>2, <2>2, <3>1, <4>1 DEF NewRowsOK
    <3>2. CASE u \in NewTicks
      BY <1>2, <2>2, <3>2 DEF NewRowsOK
    <3> QED
      BY <1>0, <3>1, <3>2, TickSplits
  <2> QED
    BY <1>0, <2>1, <2>2, TickSplits
<1> QED
  BY <1>1, <1>2 DEF RowsInv, AnsweredOnce

\* Decisions lead to their evidence as long as the files are kept.
LEMMA EvidenceStays ==
  ASSUME GateTypes, StoreTypes, RowsInv, EvidenceExplainsDecision, RowsKept, FilesKept,
         \A t \in NewTicks : At(t)'.type = "Decided" /\ At(t)'.ref # 0 =>
            binding'[At(t)'.ref] = At(t)'.id \/ At(t)'.ref \in deleted'
  PROVE  EvidenceExplainsDecision'
<1> SUFFICES ASSUME NEW t \in 0..(Len(ledger') - 1), At(t)'.type = "Decided", At(t)'.ref # 0
             PROVE  binding'[At(t)'.ref] = At(t)'.id \/ At(t)'.ref \in deleted'
  BY DEF EvidenceExplainsDecision, Rows, Tick
<1>1. CASE t \in 0..(Tick - 1) /\ At(t)' = At(t)
  <2> DEFINE d == At(t)
  <2>1. binding[d.ref] = d.id \/ d.ref \in deleted
    BY <1>1 DEF EvidenceExplainsDecision, Rows
  <2>2. DecidedOK(t)
    BY <1>1 DEF RowsInv, RowOK
  <2>3. d.ref \in Refs
    BY <1>1, <2>2, SlotAssumption DEF DecidedOK, Ref
  <2>4. d.id # NoId
    BY <2>2, SlotAssumption DEF DecidedOK, Ids
  <2> QED
    BY <1>1, <2>1, <2>3, <2>4 DEF FilesKept
<1>2. CASE t \in NewTicks
  BY <1>2
<1> QED
  BY <1>1, <1>2, TickSplits

\* A path that does not move keeps its facts while others append.
LEMMA PathStays ==
  ASSUME GateTypes, RowsInv, RowsKept, NEW p, NewRowsOK(p), NEW q \in Paths, q # p,
         path'[q] = path[q], PathOK(q), RetainsFirst(q)'
  PROVE  PathOK(q)'
<1> DEFINE w == path[q]
<1>0. w \in WorkType
  BY DEF GateTypes
<1>1. \A t \in Int : IsTick(t) => IsTick(t)' /\ At(t)' = At(t)
  BY RowsAreKept
<1>2. \A t \in 0..(Tick' - 1) :
         \/ t \in 0..(Tick - 1) /\ At(t)' = At(t)
         \/ t \in NewTicks
  BY TickSplits DEF Tick
<1>3. RequestOK(q)'
  <2> SUFFICES ASSUME w.at \in Ruling
               PROVE  /\ IsTick(w.pending)'
                      /\ At(w.pending)'.type = "PendingPrincipalDecision"
                      /\ At(w.pending)'.path = q
                      /\ \A t \in 0..(Tick' - 1) : IsRuling(t)' => At(t)'.id # w.pending
    BY DEF RequestOK
  <2>1. /\ IsTick(w.pending) /\ At(w.pending).type = "PendingPrincipalDecision"
        /\ At(w.pending).path = q /\ w.pending \in Int
        /\ \A t \in 0..(Tick - 1) : IsRuling(t) => At(t).id # w.pending
    BY <1>0 DEF PathOK, RequestOK, WorkType
  <2>2. IsTick(w.pending)' /\ At(w.pending)' = At(w.pending)
    <3>1. PICK n \in Int : n = w.pending
      BY <2>1
    <3> QED
      BY <1>1, <2>1, <3>1
  <2>3. ASSUME NEW t \in 0..(Tick' - 1), IsRuling(t)', At(t)'.id = w.pending PROVE FALSE
    <3>1. CASE t \in 0..(Tick - 1) /\ At(t)' = At(t)
      BY <2>1, <2>3, <3>1 DEF IsRuling
    <3>2. CASE t \in NewTicks
      <4>1. RulingOK(t)' /\ At(t)'.path = p
        BY <2>3, <3>2 DEF NewRowsOK, RowOK
      <4>2. PICK n \in Int : n = w.pending
        BY <2>1
      <4>3. At(n)'.path = p
        BY <2>3, <4>1, <4>2 DEF RulingOK
      <4>4. At(n)'.path = q
        BY <1>1, <2>1, <4>2
      <4> QED
        BY <4>3, <4>4
    <3> QED
      BY <1>2, <3>1, <3>2
  <2> QED
    BY <2>1, <2>2, <2>3
<1>4. PrincipalOK(q)'
  <2>1. w.principal \in Int
    BY <1>0 DEF WorkType
  <2>2. PICK n \in Int : n = w.principal
    BY <2>1
  <2>3. IsTick(n) => IsTick(n)' /\ At(n)' = At(n)
    BY <1>1
  <2> QED
    BY <2>2, <2>3 DEF PathOK, PrincipalOK, RestsOn
<1>5. DecisionOK(q)'
  <2> SUFFICES ASSUME w.at \in Settled PROVE DecisionOK(q)'
    BY DEF DecisionOK
  <2>0. PICK n \in Int : n = w.id
    BY <1>0 DEF WorkType
  <2>1. n \in Ids /\ n <= Tick' /\ (w.at = "binding" => q \in Evident)
    BY <2>0, TickIsNat DEF PathOK, DecisionOK, RowsKept, Tick
  <2>2. w.at # "binding" /\ q \notin Evident => IsTick(n)' /\ OwnRow(n, q)'
    BY <1>1, <2>0 DEF PathOK, DecisionOK, OwnRow
  <2>3. ASSUME NEW t \in 0..(Tick' - 1), OwnRow(t, q)'
        PROVE  /\ w.at # "binding" /\ At(t)'.variant = w.committed
               /\ At(t)'.floor = w.rule.floor /\ At(t)'.margin = MarginOf(w.scores)
    <3>1. t \in 0..(Tick - 1) /\ At(t)' = At(t)
      BY <1>2, <2>3 DEF NewRowsOK, OwnRow
    <3>2. OwnRow(t, q)
      BY <2>3, <3>1 DEF OwnRow
    <3> QED
      BY <3>1, <3>2 DEF PathOK, DecisionOK
  <2> QED
    BY <2>0, <2>1, <2>2, <2>3 DEF DecisionOK
<1>6. EndorsementOK(q)'
  <2>1. PICK n \in Int : n = w.by
    BY <1>0 DEF WorkType
  <2>2. IsTick(n) => IsTick(n)' /\ At(n)' = At(n)
    BY <1>1
  <2> QED
    BY <2>1, <2>2 DEF PathOK, EndorsementOK
<1>7. RuleOK(q)'
  BY DEF PathOK, RuleOK
<1>8. RulingIsVariant(q)'
  BY DEF PathOK, RulingIsVariant
<1> QED
  BY <1>3, <1>4, <1>5, <1>6, <1>7, <1>8 DEF PathOK

-----------------------------------------------------------------------------
(* A path and its slot.                                                      *)

LEMMA SlotStays ==
  ASSUME StoreTypes, FilesKept, NEW q \in Paths, PathOK(q), SlotOK(q),
         path'[q] = path[q], call'[q] = call[q], answer'[q] = answer[q]
  PROVE  SlotOK(q)'
<1> SUFFICES ASSUME path[q].at = "binding" PROVE SlotOK(q)'
  BY DEF SlotOK
<1>1. q \in Refs /\ path[q].id # NoId
  BY SlotAssumption DEF PathOK, DecisionOK, Settled, Ids
<1> QED
  BY <1>1 DEF SlotOK, Running, FilesKept

\* What a step of the store does to a slot: nothing, or its call goes on or
\* ends.
LEMMA SlotMoves ==
  ASSUME StoreInv, StoreStep, NEW q \in Calls
  PROVE  \/ call'[q] = call[q] /\ answer'[q] = answer[q]
         \/ /\ Running(q)
            /\ \/ call'[q].step = "idle"
               \/ /\ call'[q].op = call[q].op /\ call'[q].ref = call[q].ref
                  /\ call'[q].id = call[q].id /\ call'[q].step # "idle"
<1> DEFINE Same == call'[q] = call[q] /\ answer'[q] = answer[q]
           Moved == /\ Running(q)
                    /\ \/ call'[q].step = "idle"
                       \/ /\ call'[q].op = call[q].op /\ call'[q].ref = call[q].ref
                          /\ call'[q].id = call[q].id /\ call'[q].step # "idle"
<1>0. StoreTypes
  BY DEF StoreInv
<1>1. ASSUME NEW c \in Calls, Running(c), NEW s \in Steps \ {"idle"}, Goto(c, s)
      PROVE  Same \/ Moved
  BY <1>0, <1>1, GotoEffect
<1>2. ASSUME NEW c \in Calls, Running(c), NEW a \in Answers, Return(c, a)
      PROVE  Same \/ Moved
  BY <1>0, <1>2, ReturnEffect
<1>3. /\ \A s \in {"evidence?", "binding?", "create", "final?", "removeEvidence",
                   "removeBinding"} : s \in Steps \ {"idle"}
      /\ \A a \in {"ok", "Unavailable", "Mismatch", "failed"} : a \in Answers
  BY DEF Steps, Answers
<1>4. ASSUME NEW c \in Calls, CallStep(c)
      PROVE  /\ Running(c)
             /\ \/ \E s \in Steps \ {"idle"} : Goto(c, s)
                \/ \E a \in Answers : Return(c, a)
  <2>1. CASE LookAtMarker(c)
    BY <1>3, <2>1 DEF LookAtMarker, Running
  <2>2. CASE LookAtEvidence(c)
    BY <1>3, <2>2 DEF LookAtEvidence, Running
  <2>3. CASE LookAtBinding(c)
    <3>1. Running(c)
      BY <2>3 DEF LookAtBinding, Running
    <3>2. \/ Return(c, "Unavailable") \/ Return(c, "Mismatch")
          \/ Goto(c, "create") \/ Goto(c, "final?")
      BY <2>3 DEF LookAtBinding
    <3> QED
      BY <1>3, <3>1, <3>2
  <2>4. CASE Create(c)
    <3>1. Running(c)
      BY <2>4 DEF Create, Running
    <3>2. \/ Return(c, "Unavailable") \/ Return(c, "Mismatch")
          \/ Goto(c, "removeEvidence") \/ Goto(c, "final?")
      BY <2>4 DEF Create, AfterCreate
    <3> QED
      BY <1>3, <3>1, <3>2
  <2>5. CASE Finally(c)
    BY <1>3, <2>5 DEF Finally, Running
  <2>6. CASE RemoveEvidence(c)
    BY <1>3, <2>6 DEF RemoveEvidence, Running
  <2>7. CASE RemoveBinding(c)
    <3>1. Running(c)
      BY <2>7 DEF RemoveBinding, Running
    <3>2. Return(c, "ok") \/ Return(c, "Unavailable")
      BY <2>7 DEF RemoveBinding
    <3> QED
      BY <1>3, <3>1, <3>2
  <2> QED
    BY <1>4, <2>1, <2>2, <2>3, <2>4, <2>5, <2>6, <2>7 DEF CallStep
<1>5. ASSUME NEW c \in Calls, Fail(c)
      PROVE  Running(c) /\ (\E a \in Answers : Return(c, a))
  <2>1. Running(c) /\ (Return(c, "Unavailable") \/ Return(c, "failed"))
    BY <1>5 DEF Fail, FailedAnswer
  <2> QED
    BY <1>3, <2>1
<1>6. CASE \E c \in Calls : CallStep(c)
  BY <1>1, <1>2, <1>4, <1>6
<1>7. CASE \E c \in Calls : Fail(c)
  BY <1>2, <1>5, <1>7
<1>8. CASE Expire \/ Open \/ Opened \/ \E r \in Refs : Reconcile(r)
  BY <1>8 DEF Expire, Open, Opened, Reconcile
<1> QED
  BY <1>6, <1>7, <1>8 DEF StoreStep

\* The store at work for a path that waits.
LEMMA SlotSteps ==
  ASSUME StoreInv, StoreStep, FilesKept, AnswerStep, NEW q \in Paths, PathOK(q),
         SlotOK(q), path'[q] = path[q]
  PROVE  SlotOK(q)'
<1> SUFFICES ASSUME path[q].at = "binding" PROVE SlotOK(q)'
  BY DEF SlotOK
<1>0. q \in Calls /\ q \in Refs /\ StoreTypes /\ path[q].id # NoId
  BY SlotAssumption DEF StoreInv, PathOK, DecisionOK, Settled, Ids
<1>1. CASE call'[q] = call[q] /\ answer'[q] = answer[q]
  BY <1>0, <1>1, SlotStays
<1>2. CASE Running(q) /\ call'[q].step = "idle"
  <2>1. call[q].op = "bind" /\ call[q].ref = q /\ call[q].id = path[q].id
    BY <1>2 DEF SlotOK
  <2>2. answer'[q] = "ok" => binding[q] = path[q].id
    BY <1>0, <1>2, <2>1 DEF AnswerStep
  <2>3. answer'[q] = "ok" => binding'[q] = path[q].id \/ q \in deleted'
    BY <1>0, <2>2 DEF FilesKept
  <2> QED
    BY <1>2, <2>3 DEF SlotOK, Running
<1>3. CASE /\ Running(q) /\ call'[q].op = call[q].op /\ call'[q].ref = call[q].ref
           /\ call'[q].id = call[q].id /\ call'[q].step # "idle"
  BY <1>3 DEF SlotOK, Running
<1> QED
  BY <1>0, <1>1, <1>2, <1>3, SlotMoves

\* What remains to be shown of a step of one path.
LEMMA PathStepKeeps ==
  ASSUME GateInv, NEW p \in Paths, NEW w \in WorkType, StoreInv', FilesKept,
         path' = [path EXCEPT ![p] = w], RowsKept, NewRowsOK(p),
         chain' \in Seq(Paths), setup' = setup, OnlyCall(p),
         PathOK(p)', SlotOK(p)', \A q \in Paths \ {p} : RetainsFirst(q)',
         \A t \in NewTicks : At(t)'.type = "Decided" /\ At(t)'.ref # 0 =>
            binding'[At(t)'.ref] = At(t)'.id \/ At(t)'.ref \in deleted'
  PROVE  GateInv'
<1>0. GateTypes /\ StoreInv /\ StoreTypes /\ RowsInv /\ EvidenceExplainsDecision
      /\ \A q \in Paths : PathOK(q) /\ SlotOK(q)
  BY DEF GateInv, StoreInv
<1>1. /\ path' \in [Paths -> WorkType] /\ \A q \in Paths \ {p} : path'[q] = path[q]
  BY <1>0 DEF GateTypes
<1>2. GateTypes'
  BY <1>0, <1>1 DEF GateTypes, RowsKept
<1>3. RowsInv'
  BY <1>0, RowsGrow
<1>4. EvidenceExplainsDecision'
  BY <1>0, EvidenceStays
<1>5. ASSUME NEW q \in Paths \ {p} PROVE PathOK(q)' /\ SlotOK(q)'
  <2>1. PathOK(q)'
    BY <1>0, <1>1, PathStays
  <2>2. call'[q] = call[q] /\ answer'[q] = answer[q]
    BY SlotAssumption DEF OnlyCall
  <2> QED
    BY <1>0, <1>1, <2>1, <2>2, SlotStays
<1> QED
  BY <1>2, <1>3, <1>4, <1>5 DEF GateInv

-----------------------------------------------------------------------------
(* The steps of a path.                                                      *)

LEMMA GateInvParts ==
  ASSUME GateInv
  PROVE  /\ GateTypes /\ StoreInv /\ StoreTypes /\ RowsInv /\ EvidenceExplainsDecision
         /\ \A q \in Paths : PathOK(q) /\ SlotOK(q) /\ path[q] \in WorkType
         /\ \A t \in 0..(Tick - 1) : RowOK(t)
         /\ Tick \in Nat /\ Tick = Len(ledger)
  BY TickIsNat DEF GateInv, StoreInv, GateTypes, RowsInv

\* The order of the calls: a call joins at the back, and the first one leaves.
ChainStep(p) ==
    \/ chain' = chain
    \/ chain' = Append(chain, p)
    \/ First(p) /\ chain' = Tail(chain)

LEMMA ChainKeeps ==
  ASSUME GateInv, NEW p \in Paths, ChainStep(p),
         \A q \in Paths \ {p} : path'[q] = path[q]
  PROVE  chain' \in Seq(Paths) /\ \A q \in Paths \ {p} : RetainsFirst(q)'
<1>0. chain \in Seq(Paths)
  BY DEF GateInv, GateTypes
<1>1. chain' \in Seq(Paths)
  BY <1>0 DEF ChainStep, First
<1>2. ASSUME NEW q \in Paths \ {p}, path[q].at = "retaining" PROVE First(q)'
  <2>1. First(q)
    BY <1>2 DEF GateInv, PathOK, RetainsFirst
  <2>2. chain' = chain \/ chain' = Append(chain, p)
    BY <2>1 DEF ChainStep, First
  <2> QED
    BY <1>0, <2>1, <2>2 DEF First
<1> QED
  BY <1>1, <1>2 DEF RetainsFirst

\* The places where a path carries no obligation.
FreePlaces == Places \ (Ruling \cup {"ruled", "retaining"} \cup Settled)

\* What a principal ruled stands while the path carries it.
LEMMA CarriesPrincipal ==
  ASSUME GateInv, RowsKept, NEW p \in Paths,
         path'[p].principal = path[p].principal,
         path'[p].committed = path[p].committed,
         path'[p].at \in Settled => path[p].at \in Settled /\ path'[p].id = path[p].id
  PROVE  PrincipalOK(p)'
<1>1. PICK n \in Int : n = path[p].principal
  BY GateInvParts DEF WorkType
<1>2. n # NoTick => /\ IsTick(n) /\ RestsOn(n, p, path[p].committed)
                    /\ path[p].at \in Settled => n < path[p].id
  BY <1>1 DEF GateInv, PathOK, PrincipalOK
<1>3. IsTick(n) => IsTick(n)' /\ At(n)' = At(n)
  BY RowsAreKept DEF GateInv
<1> QED
  BY <1>1, <1>2, <1>3 DEF PrincipalOK, RestsOn

LEMMA FreeIsOK ==
  ASSUME GateInv, RowsKept, NEW p \in Paths, path'[p].at \in FreePlaces,
         \/ path'[p].principal = NoTick
         \/ /\ path'[p].principal = path[p].principal
            /\ path'[p].committed = path[p].committed
  PROVE  PathOK(p)' /\ SlotOK(p)'
<1>1. PrincipalOK(p)'
  <2>1. path'[p].at \notin Settled
    BY DEF FreePlaces
  <2> QED
    BY <2>1, CarriesPrincipal DEF PrincipalOK
<1> QED
  BY <1>1 DEF PathOK, RuleOK, RequestOK, DecisionOK, EndorsementOK, RetainsFirst, RulingIsVariant,
              SlotOK, FreePlaces, Settled, Ruling

\* A step that appends nothing and leaves the store alone.
LEMMA QuietPath ==
  ASSUME GateInv, NEW p \in Paths, NEW w \in WorkType,
         path' = [path EXCEPT ![p] = w], ChainStep(p),
         UNCHANGED <<ledger, setup, storeVars>>, PathOK(p)', SlotOK(p)'
  PROVE  GateInv'
<1>1. GateTypes /\ StoreInv
  BY GateInvParts
<1>2. StoreInv' /\ FilesKept
  BY <1>1, UnchangedKeeps
<1>3. RowsKept /\ NewTicks = {}
  BY <1>1, SameLedger
<1>4. NewRowsOK(p)
  BY <1>3 DEF NewRowsOK
<1>5. \A q \in Paths \ {p} : path'[q] = path[q]
  BY <1>1 DEF GateTypes
<1>6. chain' \in Seq(Paths) /\ \A q \in Paths \ {p} : RetainsFirst(q)'
  BY <1>5, ChainKeeps
<1>7. OnlyCall(p)
  BY DEF OnlyCall, storeVars
<1> QED
  BY <1>2, <1>3, <1>4, <1>6, <1>7, PathStepKeeps

\* A step that appends one row and leaves the store alone.
LEMMA OneRowPath ==
  ASSUME GateInv, NEW p \in Paths, NEW w \in WorkType, NEW r \in RowType,
         path' = [path EXCEPT ![p] = w], ChainStep(p),
         UNCHANGED <<setup, storeVars>>, AppendRow(r), r.path = p,
         \A n \in Nat : n = Len(ledger) => RowOK(n)', PathOK(p)', SlotOK(p)',
         r.type \in {"PrincipalDecision", "FailedPrincipalDecision"} =>
            \A u \in 0..(Tick - 1) : IsRuling(u) => At(u).id # r.id,
         r.type = "Decided" /\ r.ref # 0 => binding[r.ref] = r.id \/ r.ref \in deleted
  PROVE  GateInv'
<1>1. GateTypes /\ StoreInv
  BY GateInvParts
<1>2. StoreInv' /\ FilesKept
  BY <1>1, UnchangedKeeps
<1>3. RowsKept /\ NewTicks = {Len(ledger)} /\ ledger'[Len(ledger) + 1] = r
  BY <1>1, AppendKeeps
<1>4. ASSUME NEW t \in NewTicks PROVE RowOK(t)' /\ At(t)' = r
  <2>1. t = Len(ledger)
    BY <1>3
  <2>2. PICK n \in Nat : n = Len(ledger)
    BY <1>1, TickIsNat
  <2>3. RowOK(n)'
    BY <2>2
  <2>4. At(n)' = r
    BY <1>3, <2>2 DEF At
  <2> QED
    BY <2>1, <2>2, <2>3, <2>4
<1>5. NewRowsOK(p)
  BY <1>3, <1>4 DEF NewRowsOK, IsRuling
<1>6. \A q \in Paths \ {p} : path'[q] = path[q]
  BY <1>1 DEF GateTypes
<1>7. chain' \in Seq(Paths) /\ \A q \in Paths \ {p} : RetainsFirst(q)'
  BY <1>6, ChainKeeps
<1>8. OnlyCall(p) /\ UNCHANGED <<binding, deleted>>
  BY DEF OnlyCall, storeVars
<1> QED
  BY <1>2, <1>3, <1>4, <1>5, <1>7, <1>8, PathStepKeeps

\* Rows of the other types say nothing that could be wrong.
PlainTypes == {"Sent", "Resolved", "Endorsed", "Action", "ToolStarted", "ToolResolved",
               "TaskScopeViolation", "MarginFloorViolation"}

LEMMA RecordIsRow ==
  ASSUME NEW type \in RowKinds, NEW p \in Nat, NEW id \in Int, NEW by \in Int,
         NEW variant \in Commits \cup {""}, NEW rule \in RuleKinds, NEW ref \in Nat,
         NEW principal \in Int, NEW margin \in Int, NEW floor \in Int,
         NEW label \in Labels
  PROVE  [type |-> type, path |-> p, id |-> id, by |-> by, variant |-> variant,
          rule |-> rule, ref |-> ref, principal |-> principal, margin |-> margin,
          floor |-> floor, label |-> label] \in RowType
  BY DEF RowType

LEMMA RowIsRow ==
  ASSUME NEW kind \in RowKinds, NEW p \in Paths
  PROVE  Row(kind, p) \in RowType /\ Row(kind, p).type = kind /\ Row(kind, p).path = p
<1>1. Undefined \in Int /\ NoTick \in Int
  BY DEF Undefined, NoTick
<1>2. p \in Nat /\ 0 \in Nat /\ 0 \in Int
  BY GateConstants DEF Paths
<1>3. "" \in RowKinds /\ "" \in RuleKinds /\ "" \in Labels /\ "" \in Commits \cup {""}
  BY DEF RowKinds, RuleKinds, Labels
<1>4. Blank \in RowType
  BY <1>1, <1>2, <1>3, RecordIsRow, Zenon DEF Blank
<1> QED
  BY <1>2, <1>4 DEF Row, RowType

LEMMA RefIsNat ==
  ASSUME NEW p \in Paths
  PROVE  Ref(p) \in Nat /\ (p \in Evident => Ref(p) = p) /\ p # 0
  BY GateConstants DEF Ref, Paths

LEMMA WorkParts ==
  ASSUME NEW w \in WorkType
  PROVE  /\ w.at \in Places /\ w.scores \in Scores /\ w.id \in Int
         /\ w.committed \in Commits /\ w.principal \in Int /\ w.pending \in Int
         /\ w.ruling \in Variants \cup {""} /\ w.by \in Int /\ w.decides \in Nat
         /\ w.rule \in Rules \cup {CHOOSE r \in Rules : TRUE}
  BY DEF WorkType

LEMMA FreshIsWork ==
  ASSUME NEW a \in {"start", "crashed", "done"}
  PROVE  /\ [Fresh EXCEPT !.at = a] \in WorkType
         /\ [Fresh EXCEPT !.at = a].at = a /\ [Fresh EXCEPT !.at = a].principal = NoTick
         /\ a \in FreePlaces /\ Fresh \in WorkType
<1>1. [v \in Variants |-> 0] \in Scores
  BY UnitIsPositive DEF Scores
<1>2. Abstained \in Commits /\ a \in Places /\ "start" \in Places /\ NoTick \in Int
  BY DEF Commits, Places, NoTick
<1>3. Fresh \in WorkType
  BY <1>1, <1>2 DEF Fresh, WorkType
<1>4. [Fresh EXCEPT !.at = a] \in WorkType
  BY <1>2, <1>3 DEF WorkType
<1> QED
  BY <1>2, <1>3, <1>4 DEF Fresh, FreePlaces, Places, Ruling, Settled

\* The path moves on, and carries what it carried.
LEMMA MovePuts ==
  ASSUME GateInv, NEW p \in Paths, NEW a \in Places, Move(p, a)
  PROVE  /\ path' = [path EXCEPT ![p] = [path[p] EXCEPT !.at = a]]
         /\ [path[p] EXCEPT !.at = a] \in WorkType
         /\ path'[p] = [path[p] EXCEPT !.at = a] /\ path'[p].at = a
         /\ path'[p].principal = path[p].principal
         /\ path'[p].committed = path[p].committed
<1>1. path \in [Paths -> WorkType] /\ path[p] \in WorkType
  BY GateInvParts DEF GateTypes
<1>2. path' = [path EXCEPT ![p] = [path[p] EXCEPT !.at = a]]
  BY <1>1 DEF Move
<1>3. [path[p] EXCEPT !.at = a] \in WorkType
  BY <1>1 DEF WorkType
<1>4. path'[p] = [path[p] EXCEPT !.at = a]
  BY <1>1, <1>2
<1> QED
  BY <1>1, <1>2, <1>3, <1>4 DEF WorkType

LEMMA MoveIsPut ==
  ASSUME GateInv, NEW p \in Paths, NEW a \in Places, Move(p, a)
  PROVE  \E w \in WorkType :
            /\ Put(p, w) /\ w.at = a /\ w.principal = path[p].principal
            /\ w.committed = path[p].committed
<1> DEFINE w == [path[p] EXCEPT !.at = a]
<1>1. w \in WorkType /\ w.at = a /\ w.principal = path[p].principal
      /\ w.committed = path[p].committed
  BY GateInvParts DEF WorkType
<1>2. Put(p, w)
  BY MovePuts DEF Put
<1> QED
  BY <1>1, <1>2

LEMMA PutPuts ==
  ASSUME GateInv, NEW p \in Paths, NEW w, Put(p, w)
  PROVE  path' = [path EXCEPT ![p] = w] /\ path'[p] = w
  BY GateInvParts DEF GateTypes, Put

\* A path moves to a place without obligations and appends nothing.
LEMMA QuietMove ==
  ASSUME GateInv, NEW p \in Paths, NEW w \in WorkType, Put(p, w), w.at \in FreePlaces,
         \/ w.principal = NoTick
         \/ w.principal = path[p].principal /\ w.committed = path[p].committed,
         ChainStep(p), UNCHANGED <<ledger, setup, storeVars>>
  PROVE  GateInv'
<1>1. path' = [path EXCEPT ![p] = w] /\ path'[p] = w
  BY PutPuts
<1>2. RowsKept
  BY SameLedger DEF GateInv
<1>3. PathOK(p)' /\ SlotOK(p)'
  BY <1>1, <1>2, FreeIsOK
<1> QED
  BY <1>1, <1>3, QuietPath

\* A path moves to a place without obligations and appends a plain row.
LEMMA PlainMove ==
  ASSUME GateInv, NEW p \in Paths, NEW w \in WorkType, Put(p, w), w.at \in FreePlaces,
         \/ w.principal = NoTick
         \/ w.principal = path[p].principal /\ w.committed = path[p].committed,
         NEW r \in RowType, r.type \in PlainTypes, r.path = p, AppendRow(r),
         ChainStep(p), UNCHANGED <<setup, storeVars>>
  PROVE  GateInv'
<1>1. path' = [path EXCEPT ![p] = w] /\ path'[p] = w
  BY PutPuts
<1>2. RowsKept /\ ledger'[Len(ledger) + 1] = r
  BY AppendKeeps DEF GateInv
<1>3. PathOK(p)' /\ SlotOK(p)'
  BY <1>1, <1>2, FreeIsOK
<1>4. ASSUME NEW n \in Nat, n = Len(ledger) PROVE RowOK(n)'
  <2>1. At(n)' = r
    BY <1>2, <1>4 DEF At
  <2> QED
    BY <2>1 DEF RowOK, IsRuling, PlainTypes
<1>5. r.type \notin {"PrincipalDecision", "FailedPrincipalDecision", "Decided"}
  BY DEF PlainTypes
<1> QED
  BY <1>1, <1>3, <1>4, <1>5, OneRowPath

LEMMA SendKeeps ==
  ASSUME GateInv, NEW p \in Paths, Send(p)
  PROVE  GateInv'
<1>1. Move(p, "judging") /\ "judging" \in Places /\ "judging" \in FreePlaces
  BY DEF Send, Places, FreePlaces, Ruling, Settled
<1>2. PICK w \in WorkType : /\ Put(p, w) /\ w.at = "judging"
                            /\ w.principal = path[p].principal
                            /\ w.committed = path[p].committed
  BY <1>1, MoveIsPut
<1>3. Row("Sent", p) \in RowType /\ Row("Sent", p).type \in PlainTypes /\ Row("Sent", p).path = p
  <2>1. "Sent" \in RowKinds /\ "Sent" \in PlainTypes
    BY DEF RowKinds, PlainTypes
  <2> QED
    BY <2>1, RowIsRow
<1> QED
  BY <1>1, <1>2, <1>3, PlainMove DEF Send, ChainStep

LEMMA ReplyKeeps ==
  ASSUME GateInv, NEW p \in Paths, Reply(p)
  PROVE  GateInv'
<1>1. {"rejected", "replied"} \subseteq Places /\ {"rejected", "replied"} \subseteq FreePlaces
  BY DEF Places, FreePlaces, Ruling, Settled
<1>2. UNCHANGED <<ledger, setup, storeVars>> /\ ChainStep(p) /\ path[p] \in WorkType
  BY GateInvParts DEF Reply, ChainStep
<1>3. CASE Move(p, "rejected")
  <2>1. PICK w \in WorkType : /\ Put(p, w) /\ w.at = "rejected"
                              /\ w.principal = path[p].principal
                              /\ w.committed = path[p].committed
    BY <1>1, <1>3, MoveIsPut
  <2> QED
    BY <1>1, <1>2, <2>1, QuietMove
<1>4. CASE \E s \in Replies[p] : Put(p, [path[p] EXCEPT !.at = "replied", !.scores = s])
  <2>1. PICK s \in Replies[p] : Put(p, [path[p] EXCEPT !.at = "replied", !.scores = s])
    BY <1>4
  <2>2. s \in Scores
    BY GateConstants DEF Paths
  <2> DEFINE w == [path[p] EXCEPT !.at = "replied", !.scores = s]
  <2>3. w \in WorkType /\ w.at = "replied" /\ w.principal = path[p].principal
        /\ w.committed = path[p].committed
    BY <1>1, <1>2, <2>2 DEF WorkType
  <2> QED
    BY <1>1, <1>2, <2>1, <2>3, QuietMove
<1> QED
  BY <1>3, <1>4 DEF Reply

LEMMA CrashedIsPut ==
  ASSUME NEW p \in Paths, Crashed(p)
  PROVE  \E w \in WorkType : Put(p, w) /\ w.at \in FreePlaces /\ w.principal = NoTick
  BY FreshIsWork DEF Crashed

LEMMA DoneIsPut ==
  ASSUME NEW p \in Paths, Done(p)
  PROVE  \E w \in WorkType : Put(p, w) /\ w.at \in FreePlaces /\ w.principal = NoTick
  BY FreshIsWork DEF Done

LEMMA RejectedKeeps ==
  ASSUME GateInv, NEW p \in Paths, Rejected(p)
  PROVE  GateInv'
  BY CrashedIsPut, QuietMove DEF Rejected, ChainStep

LEMMA ToolReplyKeeps ==
  ASSUME GateInv, NEW p \in Paths, ToolReply(p)
  PROVE  GateInv'
<1>1. {"rejected", "effected"} \subseteq Places /\ {"rejected", "effected"} \subseteq FreePlaces
  BY DEF Places, FreePlaces, Ruling, Settled
<1>2. PICK a \in {"rejected", "effected"} : Move(p, a)
  BY DEF ToolReply
<1>3. PICK w \in WorkType : /\ Put(p, w) /\ w.at = a
                            /\ w.principal = path[p].principal
                            /\ w.committed = path[p].committed
  BY <1>1, <1>2, MoveIsPut
<1> QED
  BY <1>1, <1>3, QuietMove DEF ToolReply, ChainStep

LEMMA ToolResolvedKeeps ==
  ASSUME GateInv, NEW p \in Paths, ToolResolved(p)
  PROVE  GateInv'
<1>1. /\ Row("ToolResolved", p) \in RowType /\ Row("ToolResolved", p).type \in PlainTypes
      /\ Row("ToolResolved", p).path = p
  <2>1. "ToolResolved" \in RowKinds /\ "ToolResolved" \in PlainTypes
    BY DEF RowKinds, PlainTypes
  <2> QED
    BY <2>1, RowIsRow
<1> QED
  BY <1>1, DoneIsPut, PlainMove DEF ToolResolved, ChainStep

-----------------------------------------------------------------------------
(* A ruling.                                                                 *)

\* A path that waits for a ruling goes on waiting.
LEMMA StillWaits ==
  ASSUME GateInv, NEW p \in Paths, path[p].at \in Ruling,
         NEW w \in WorkType, Put(p, w), w.at \in Ruling, w.pending = path[p].pending,
         w.rule = path[p].rule, w.principal = path[p].principal,
         w.committed = path[p].committed, w.at = "verifying" => w.ruling \in Variants,
         UNCHANGED <<ledger, chain, setup, storeVars>>
  PROVE  GateInv'
<1>1. path' = [path EXCEPT ![p] = w] /\ path'[p] = w
  BY PutPuts
<1>2. PathOK(p)
  BY GateInvParts
<1>3. RuleOK(p)' /\ RequestOK(p)' /\ PrincipalOK(p)' /\ RulingIsVariant(p)'
  <2>1. RuleOK(p)'
    BY <1>1, <1>2 DEF PathOK, RuleOK, Ruling, Settled
  <2>2. RequestOK(p)'
    BY <1>1, <1>2 DEF PathOK, RequestOK, IsTick, At, IsRuling, Tick
  <2>3. PrincipalOK(p)'
    BY <1>1, <1>2 DEF PathOK, PrincipalOK, IsTick, At, RestsOn, Ruling, Settled
  <2>4. RulingIsVariant(p)'
    BY <1>1 DEF RulingIsVariant
  <2> QED
    BY <2>1, <2>2, <2>3, <2>4
<1>4. PathOK(p)' /\ SlotOK(p)'
  BY <1>1, <1>3 DEF PathOK, DecisionOK, EndorsementOK, RetainsFirst, RulingIsVariant, SlotOK, Ruling, Settled
<1> QED
  BY <1>1, <1>4, QuietPath DEF ChainStep

\* The ruling, or its failure, answers the open request.
LEMMA RulingKeeps ==
  ASSUME GateInv, NEW p \in Paths, path[p].at \in Ruling, NEW v \in Commits,
         NEW r \in RowType, AppendRow(r), r.path = p, r.id = path[p].pending,
         \/ /\ r.type = "PrincipalDecision" /\ r.variant = v
            /\ r.label \in {"verified", "unverified"}
         \/ r.type = "FailedPrincipalDecision" /\ v = Abstained,
         Put(p, [path[p] EXCEPT !.at = "ruled", !.committed = v, !.principal = Tick]),
         UNCHANGED <<chain, setup, storeVars>>
  PROVE  GateInv'
<1> DEFINE w == [path[p] EXCEPT !.at = "ruled", !.committed = v, !.principal = Tick]
<1>0. PICK n \in Nat : n = Len(ledger)
  BY GateInvParts
<1>1. path[p] \in WorkType /\ PathOK(p) /\ GateTypes /\ Tick = n /\ path[p].pending \in Int
  BY <1>0, GateInvParts DEF WorkType
<1>2. w \in WorkType /\ w.at = "ruled" /\ w.committed = v /\ w.principal = n
      /\ w.rule = path[p].rule
  <2>1. "ruled" \in Places
    BY DEF Places
  <2>2. Tick \in Int /\ v \in Commits
    BY <1>1
  <2>3. w \in WorkType
    BY <1>1, <2>1, <2>2 DEF WorkType
  <2>4. w.at = "ruled" /\ w.committed = v /\ w.principal = Tick /\ w.rule = path[p].rule
    BY <1>1 DEF WorkType
  <2> QED
    BY <1>1, <2>3, <2>4
<1>3. path' = [path EXCEPT ![p] = w] /\ path'[p] = w
  BY PutPuts
<1>4. RowsKept /\ ledger'[n + 1] = r /\ NewTicks = {n}
  BY <1>0, <1>1, AppendKeeps
<1>5. At(n)' = r /\ IsTick(n)'
  BY <1>0, <1>4 DEF At, IsTick, NewTicks, RowsKept
<1>6. PICK m \in Int : m = path[p].pending
  BY <1>1
<1>7. /\ IsTick(m) /\ At(m).type = "PendingPrincipalDecision" /\ At(m).path = p
      /\ \A t \in 0..(Tick - 1) : IsRuling(t) => At(t).id # m
  BY <1>1, <1>6 DEF PathOK, RequestOK
<1>8. m \in 0..(n - 1) /\ At(m)' = At(m)
  BY <1>1, <1>4, <1>7, RowsAreKept
<1>9. RowOK(n)'
  <2>1. RulingOK(n)'
    BY <1>5, <1>6, <1>7, <1>8 DEF RulingOK
  <2> QED
    BY <1>5, <2>1 DEF RowOK
<1>10. PrincipalOK(p)'
  BY <1>2, <1>3, <1>5 DEF PrincipalOK, RestsOn, Settled
<1>11. RuleOK(p)'
  BY <1>1, <1>2, <1>3 DEF RuleOK, PathOK, Ruling
<1>12. PathOK(p)' /\ SlotOK(p)'
  BY <1>2, <1>3, <1>10, <1>11
     DEF PathOK, RequestOK, DecisionOK, EndorsementOK, RetainsFirst, RulingIsVariant, SlotOK, Ruling, Settled
<1>13. \A t \in Nat : t = Len(ledger) => RowOK(t)'
  BY <1>0, <1>9
<1>14. \A u \in 0..(Tick - 1) : IsRuling(u) => At(u).id # r.id
  BY <1>6, <1>7
<1>15. r.type # "Decided" /\ ChainStep(p)
  BY DEF ChainStep
<1> QED
  BY <1>2, <1>3, <1>12, <1>13, <1>14, <1>15, OneRowPath

LEMMA FailClosedKeeps ==
  ASSUME GateInv, NEW p \in Paths, path[p].at \in Ruling,
         NEW label \in Labels, FailClosed(p, label),
         UNCHANGED <<chain, setup, storeVars>>
  PROVE  GateInv'
<1> DEFINE r == FailedRow(p, label)
<1>1. path[p].pending \in Int
  BY GateInvParts DEF WorkType
<1>2. /\ Row("FailedPrincipalDecision", p) \in RowType
      /\ Row("FailedPrincipalDecision", p).type = "FailedPrincipalDecision"
      /\ Row("FailedPrincipalDecision", p).path = p
  <2>1. "FailedPrincipalDecision" \in RowKinds
    BY DEF RowKinds
  <2> QED
    BY <2>1, RowIsRow
<1>3. r \in RowType /\ r.path = p /\ r.id = path[p].pending
      /\ r.type = "FailedPrincipalDecision"
  BY <1>1, <1>2 DEF FailedRow, RowType
<1>4. Abstained \in Commits
  BY DEF Commits
<1> QED
  BY <1>3, <1>4, RulingKeeps DEF FailClosed

LEMMA RuledKeeps ==
  ASSUME GateInv, NEW p \in Paths, path[p].at \in Ruling, NEW v \in Variants,
         NEW label \in {"verified", "unverified"}, Ruled(p, v, label),
         UNCHANGED <<chain, setup, storeVars>>
  PROVE  GateInv'
<1> DEFINE r == RuledRow(p, v, label)
<1>1. path[p].pending \in Int
  BY GateInvParts DEF WorkType
<1>2. /\ Row("PrincipalDecision", p) \in RowType
      /\ Row("PrincipalDecision", p).type = "PrincipalDecision"
      /\ Row("PrincipalDecision", p).path = p
  <2>1. "PrincipalDecision" \in RowKinds
    BY DEF RowKinds
  <2> QED
    BY <2>1, RowIsRow
<1>3. v \in Commits /\ label \in Labels
  BY DEF Commits, Labels
<1>4. r \in RowType /\ r.path = p /\ r.id = path[p].pending
      /\ r.type = "PrincipalDecision" /\ r.variant = v /\ r.label = label
  BY <1>1, <1>2, <1>3 DEF RuledRow, RowType
<1> QED
  BY <1>3, <1>4, RulingKeeps DEF Ruled

LEMMA ApplyRulingKeeps ==
  ASSUME GateInv, NEW p \in Paths, path[p].at \in Ruling, NEW x, ApplyRuling(p, x),
         UNCHANGED <<chain, setup, storeVars>>
  PROVE  GateInv'
<1>1. \/ \E label \in {"decline", "invalid", "rejected"} : FailClosed(p, label)
      \/ x \in Variants /\ Ruled(p, x, "unverified")
      \/ /\ x \in Variants /\ UNCHANGED ledger
         /\ Put(p, [path[p] EXCEPT !.at = "verifying", !.ruling = x])
  BY DEF ApplyRuling
<1>2. CASE \E label \in {"decline", "invalid", "rejected"} : FailClosed(p, label)
  BY <1>2, FailClosedKeeps DEF Labels
<1>3. CASE x \in Variants /\ Ruled(p, x, "unverified")
  BY <1>3, RuledKeeps
<1>4. CASE /\ x \in Variants /\ UNCHANGED ledger
           /\ Put(p, [path[p] EXCEPT !.at = "verifying", !.ruling = x])
  <2> DEFINE w == [path[p] EXCEPT !.at = "verifying", !.ruling = x]
  <2>1. path[p] \in WorkType /\ "verifying" \in Places /\ "verifying" \in Ruling
    BY GateInvParts DEF Places, Ruling
  <2>2. w \in WorkType /\ w.at = "verifying" /\ w.pending = path[p].pending
        /\ w.rule = path[p].rule /\ w.principal = path[p].principal
        /\ w.committed = path[p].committed /\ w.ruling = x
    BY <1>4, <2>1 DEF WorkType
  <2> QED
    BY <1>4, <2>1, <2>2, StillWaits
<1> QED
  BY <1>1, <1>2, <1>3, <1>4

LEMMA AskPrincipalKeeps ==
  ASSUME GateInv, NEW p \in Paths, AskPrincipal(p)
  PROVE  GateInv'
<1>1. path[p].at \in Ruling /\ UNCHANGED <<chain, setup, storeVars>>
  BY DEF AskPrincipal, Ruling
<1>2. setup.reach \in {"attested", "grant", "consult", "nobody"}
  BY SlotAssumption DEF GateInv, GateTypes, Setup
<1>3. \/ \E x \in Rulings : ApplyRuling(p, x)
      \/ ApplyRuling(p, Top(path[p].scores))
      \/ Move(p, "consulting") /\ UNCHANGED ledger
      \/ FailClosed(p, "unavailable")
  BY <1>2 DEF AskPrincipal
<1>4. CASE Move(p, "consulting") /\ UNCHANGED ledger
  <2>1. "consulting" \in Places /\ "consulting" \in Ruling /\ path[p] \in WorkType
    BY GateInvParts DEF Places, Ruling
  <2> DEFINE w == [path[p] EXCEPT !.at = "consulting"]
  <2>2. w \in WorkType /\ w.at = "consulting" /\ w.pending = path[p].pending
        /\ w.rule = path[p].rule /\ w.principal = path[p].principal
        /\ w.committed = path[p].committed
    BY <2>1 DEF WorkType
  <2>3. Put(p, w)
    BY <1>4, <2>1, MovePuts DEF Put
  <2> QED
    BY <1>1, <1>4, <2>1, <2>2, <2>3, StillWaits
<1>5. "unavailable" \in Labels
  BY DEF Labels
<1> QED
  BY <1>1, <1>3, <1>4, <1>5, ApplyRulingKeeps, FailClosedKeeps

LEMMA ConsultedKeeps ==
  ASSUME GateInv, NEW p \in Paths, Consulted(p)
  PROVE  GateInv'
<1>1. path[p].at \in Ruling /\ UNCHANGED <<chain, setup, storeVars>>
  BY DEF Consulted, Ruling
<1> QED
  BY <1>1, ApplyRulingKeeps DEF Consulted

LEMMA VerifiedKeeps ==
  ASSUME GateInv, NEW p \in Paths, Verified(p)
  PROVE  GateInv'
<1>1. path[p].at = "verifying" /\ path[p].at \in Ruling /\ UNCHANGED <<chain, setup, storeVars>>
  BY DEF Verified, Ruling
<1>2. Ruled(p, path[p].ruling, "verified") \/ FailClosed(p, "rejected")
  BY DEF Verified, AttesterMatches
<1>3. "rejected" \in Labels /\ "verified" \in {"verified", "unverified"}
  BY DEF Labels
<1>4. CASE FailClosed(p, "rejected")
  BY <1>1, <1>3, <1>4, FailClosedKeeps
<1>5. CASE Ruled(p, path[p].ruling, "verified")
  BY <1>1, <1>3, <1>5, RuledKeeps, GateInvParts DEF PathOK, RulingIsVariant
<1> QED
  BY <1>2, <1>4, <1>5

-----------------------------------------------------------------------------
(* A decision.                                                               *)

LEMMA RuleTyped ==
  ASSUME NEW r \in Rules
  PROVE  r.kind \in RuleKinds /\ r.floor \in Int /\ r \in Rule
<1>1. r \in Rule
  BY GateConstants
<1>2. r.kind \in RuleKinds
  BY <1>1 DEF Rule, RuleKinds
<1>3. r.floor \in 0..Unit \cup {Undefined}
  BY <1>1 DEF Rule
<1>4. r.floor \in Int
  BY <1>3, UnitIsPositive DEF Undefined
<1> QED
  BY <1>1, <1>2, <1>4

LEMMA DecidedRowIs ==
  ASSUME NEW p \in Paths, NEW w \in WorkType, w.rule \in Rules
  PROVE  /\ DecidedRow(p, w) \in RowType
         /\ DecidedRow(p, w).type = "Decided" /\ DecidedRow(p, w).path = p
         /\ DecidedRow(p, w).id = w.id /\ DecidedRow(p, w).variant = w.committed
         /\ DecidedRow(p, w).ref = Ref(p) /\ DecidedRow(p, w).principal = w.principal
         /\ DecidedRow(p, w).margin = MarginOf(w.scores)
         /\ DecidedRow(p, w).floor = w.rule.floor
<1> DEFINE r == Row("Decided", p)
           r1 == [r EXCEPT !.id = w.id, !.variant = w.committed]
<1>1. "Decided" \in RowKinds
  BY DEF RowKinds
<1>2. r \in RowType /\ r.type = "Decided" /\ r.path = p
  BY <1>1, RowIsRow
<1>3. w.id \in Int /\ w.committed \in Commits \cup {""} /\ w.principal \in Int /\ w.scores \in Scores
  BY WorkParts
<1>4. w.rule.kind \in RuleKinds /\ w.rule.floor \in Int /\ Ref(p) \in Nat
      /\ MarginOf(w.scores) \in Int
  BY <1>3, RuleTyped, RefIsNat, MarginIsInt
<1>5. DecidedRow(p, w) \in RowType
  BY <1>2, <1>3, <1>4 DEF DecidedRow, RowType
<1>6. /\ DecidedRow(p, w).type = "Decided" /\ DecidedRow(p, w).path = p
      /\ DecidedRow(p, w).id = w.id /\ DecidedRow(p, w).variant = w.committed
  BY <1>2 DEF DecidedRow, RowType
<1>7. /\ DecidedRow(p, w).ref = Ref(p) /\ DecidedRow(p, w).principal = w.principal
      /\ DecidedRow(p, w).margin = MarginOf(w.scores)
      /\ DecidedRow(p, w).floor = w.rule.floor
  BY <1>2 DEF DecidedRow, RowType
<1> QED
  BY <1>5, <1>6, <1>7

\* The Decided row of a path whose principal, if it has one, ruled before.
LEMMA DecidedRowIsOK ==
  ASSUME GateInv, NEW p \in Paths, NEW w \in WorkType, w.rule \in Rules,
         w.id \in Ids, w.id <= Tick,
         w.principal # NoTick =>
            /\ IsTick(w.principal) /\ RestsOn(w.principal, p, w.committed)
            /\ w.principal < w.id,
         AppendRow(DecidedRow(p, w)), NEW n \in Nat, n = Len(ledger)
  PROVE  RowOK(n)' /\ At(n)' = DecidedRow(p, w) /\ RowsKept /\ IsTick(n)'
<1> DEFINE r == DecidedRow(p, w)
<1>0. GateTypes /\ Tick = n
  BY GateInvParts
<1>1. /\ r \in RowType /\ r.type = "Decided" /\ r.path = p /\ r.id = w.id
      /\ r.variant = w.committed /\ r.ref = Ref(p) /\ r.principal = w.principal
  BY DecidedRowIs
<1>2. RowsKept /\ NewTicks = {n} /\ ledger'[n + 1] = r
  BY <1>0, <1>1, AppendKeeps
<1>3. At(n)' = r /\ IsTick(n)'
  BY <1>2 DEF At, IsTick, NewTicks, RowsKept
<1>4. w.id \in 0..n
  BY <1>0 DEF Ids
<1>5. ASSUME w.principal # NoTick
      PROVE  w.principal \in 0..(w.id - 1) /\ RestsOn(w.principal, p, w.committed)'
  <2>1. PICK m \in Int : m = w.principal
    BY WorkParts
  <2>2. IsTick(m) /\ RestsOn(m, p, w.committed) /\ m < w.id
    BY <1>5, <2>1
  <2>3. At(m)' = At(m)
    BY <1>0, <1>2, <2>2, RowsAreKept
  <2>4. w.id \in Int /\ m >= 0
    BY <1>4, <2>2 DEF IsTick
  <2> QED
    BY <2>1, <2>2, <2>3, <2>4 DEF RestsOn
<1>6. DecidedOK(n)'
  BY <1>1, <1>3, <1>4, <1>5 DEF DecidedOK
<1> QED
  BY <1>1, <1>2, <1>3, <1>6 DEF RowOK, IsRuling

\* A Decided row carries an id that is not past its own tick.
LEMMA NoRowAhead ==
  ASSUME GateInv, NEW t \in 0..(Tick - 1), At(t).type = "Decided"
  PROVE  At(t).id < Tick /\ At(t).id \in Int
<1>1. DecidedOK(t)
  BY GateInvParts DEF RowOK
<1>2. At(t).id \in 0..t /\ Tick \in Nat
  BY <1>1, GateInvParts DEF DecidedOK
<1> QED
  BY <1>2

\* Settle: the gate binds the evidence first, or appends at once.
LEMMA SettleKeeps ==
  ASSUME GateInv, NEW p \in Paths, NEW w \in WorkType, w.rule \in Rules, Room,
         w.principal # NoTick => IsTick(w.principal) /\ RestsOn(w.principal, p, w.committed),
         Settle(p, w)
  PROVE  GateInv'
<1> DEFINE known == [w EXCEPT !.id = DecisionId, !.decides = @ + 1]
           bound == [known EXCEPT !.at = "binding"]
           settled == [known EXCEPT !.at = "decided"]
<1>0. PICK n \in Nat : n = Len(ledger)
  BY GateInvParts
<1>1. GateTypes /\ StoreInv /\ Tick = n /\ DecisionId = n /\ n \in Ids /\ n <= Tick
  BY <1>0, GateInvParts, GateConstants DEF DecisionId, Room, Ids
<1>2. /\ known \in WorkType /\ known.id = n /\ known.rule = w.rule
      /\ known.principal = w.principal /\ known.committed = w.committed
      /\ known.scores = w.scores
  <2>1. w.decides + 1 \in Nat /\ DecisionId \in Int
    <3>1. w.decides \in Nat
      BY WorkParts
    <3> QED
      BY <1>1, <3>1
  <2>2. known \in WorkType
    BY <2>1 DEF WorkType
  <2>3. /\ known.id = DecisionId /\ known.rule = w.rule
        /\ known.principal = w.principal /\ known.committed = w.committed
        /\ known.scores = w.scores
    BY DEF WorkType
  <2> QED
    BY <1>1, <2>2, <2>3
<1>3. "binding" \in Places /\ "decided" \in Places
  BY DEF Places
<1>4. /\ bound \in WorkType /\ bound.at = "binding" /\ bound.id = n
      /\ bound.rule = w.rule /\ bound.principal = w.principal
      /\ bound.committed = w.committed
  BY <1>2, <1>3 DEF WorkType
<1>5. /\ settled \in WorkType /\ settled.at = "decided" /\ settled.id = n
      /\ settled.rule = w.rule /\ settled.principal = w.principal
      /\ settled.committed = w.committed /\ settled.scores = w.scores
  BY <1>2, <1>3 DEF WorkType
<1>6. PICK m \in Int : m = w.principal
  BY WorkParts
<1>7. m # NoTick => IsTick(m) /\ RestsOn(m, p, w.committed) /\ m < n
  BY <1>1, <1>6 DEF IsTick, Tick
<1>8. CASE p \in Evident
  <2>1. /\ Start(p, "bind", p, n, FALSE) /\ Put(p, bound)
        /\ UNCHANGED <<ledger, chain, setup>>
    BY <1>1, <1>8 DEF Settle
  <2>2. p \in Calls /\ p \in Refs /\ "bind" \in Operations /\ n \in Ids \cup {NoId}
    BY <1>1, <1>8, SlotAssumption DEF Operations
  <2>3. StoreInv' /\ FilesKept
    BY <1>1, <2>1, <2>2, StartKeeps
  <2>4. /\ call'[p].op = "bind" /\ call'[p].ref = p /\ call'[p].id = n
        /\ call'[p].step = "marker?" /\ OnlyCall(p)
    <3> DEFINE new == [op |-> "bind", ref |-> p, id |-> n, replay |-> FALSE,
                       step |-> "marker?"]
    <3>1. Admits("bind", p, n)
      BY DEF Admits
    <3>2. call' = [call EXCEPT ![p] = new] /\ answer' = [answer EXCEPT ![p] = "none"]
      BY <2>1, <3>1 DEF Start
    <3>3. call'[p] = new
      BY <1>1, <2>2, <3>2 DEF StoreInv, StoreTypes
    <3>4. OnlyCall(p)
      BY <1>1, <2>2, <3>2 DEF StoreInv, StoreTypes, OnlyCall
    <3> QED
      BY <3>3, <3>4
  <2>5. path' = [path EXCEPT ![p] = bound] /\ path'[p] = bound
    BY <2>1, PutPuts
  <2>6. RowsKept /\ NewTicks = {} /\ Tick' = Tick
    BY <1>1, <2>1, SameLedger DEF Tick
  <2>7. NewRowsOK(p)
    BY <2>6 DEF NewRowsOK
  <2>8. chain' \in Seq(Paths) /\ \A q \in Paths \ {p} : RetainsFirst(q)'
    <3>1. ChainStep(p) /\ \A q \in Paths \ {p} : path'[q] = path[q]
      BY <1>1, <2>1, <2>5 DEF ChainStep, GateTypes
    <3> QED
      BY <3>1, ChainKeeps
  <2>9. SlotOK(p)'
    BY <1>4, <2>4, <2>5 DEF SlotOK, Running
  <2>10. DecisionOK(p)'
    <3>1. ASSUME NEW t \in 0..(Tick' - 1), OwnRow(t, p)' PROVE FALSE
      <4>1. t \in 0..(Tick - 1) /\ At(t)' = At(t)
        BY <2>1, <2>6 DEF At
      <4>2. At(t).type = "Decided" /\ At(t).id = n
        BY <1>4, <2>5, <3>1, <4>1 DEF OwnRow
      <4> QED
        BY <1>1, <4>1, <4>2, NoRowAhead
    <3> QED
      BY <1>1, <1>4, <1>8, <2>5, <2>6, <3>1 DEF DecisionOK
  <2>11. PrincipalOK(p)'
    <3>1. /\ path'[p].principal = m /\ path'[p].committed = w.committed
          /\ path'[p].id = n
      BY <1>4, <1>6, <2>5
    <3>2. m # NoTick => IsTick(m)' /\ RestsOn(m, p, w.committed)'
      BY <1>1, <1>7, <2>6, RulingStands
    <3> QED
      BY <1>7, <3>1, <3>2 DEF PrincipalOK, RestsOn
  <2>12. PathOK(p)'
    BY <1>4, <2>5, <2>10, <2>11
       DEF PathOK, RuleOK, RequestOK, EndorsementOK, RetainsFirst, RulingIsVariant, Ruling
  <2> QED
    BY <1>4, <2>1, <2>3, <2>4, <2>5, <2>6, <2>7, <2>8, <2>9, <2>12, PathStepKeeps
<1>9. CASE p \notin Evident
  <2>1. /\ AppendRow(DecidedRow(p, known)) /\ Put(p, settled)
        /\ UNCHANGED <<chain, setup, storeVars>>
    BY <1>9 DEF Settle
  <2> DEFINE r == DecidedRow(p, known)
  <2>2. /\ r \in RowType /\ r.type = "Decided" /\ r.path = p /\ r.id = n
        /\ r.variant = w.committed /\ r.ref = 0
        /\ r.margin = MarginOf(w.scores) /\ r.floor = w.rule.floor
    <3>1. known \in WorkType /\ known.rule \in Rules
      BY <1>2
    <3>2. /\ r \in RowType /\ r.type = "Decided" /\ r.path = p /\ r.id = known.id
          /\ r.variant = known.committed /\ r.ref = Ref(p)
          /\ r.margin = MarginOf(known.scores) /\ r.floor = known.rule.floor
      BY <3>1, DecidedRowIs
    <3>3. Ref(p) = 0
      BY <1>9 DEF Ref
    <3> QED
      BY <1>2, <3>2, <3>3
  <2>3. RowOK(n)' /\ At(n)' = r /\ RowsKept /\ IsTick(n)'
    <3>1. known.principal # NoTick =>
             /\ IsTick(known.principal) /\ RestsOn(known.principal, p, known.committed)
             /\ known.principal < known.id
      BY <1>2, <1>6, <1>7
    <3> QED
      BY <1>0, <1>1, <1>2, <2>1, <3>1, DecidedRowIsOK
  <2>4. path' = [path EXCEPT ![p] = settled] /\ path'[p] = settled
    BY <2>1, PutPuts
  <2>5. Tick' = n + 1
    BY <1>0, <1>1, <2>1, <2>2 DEF AppendRow, GateTypes, Tick
  <2>6. DecisionOK(p)'
    <3>1. OwnRow(n, p)'
      BY <1>5, <2>2, <2>3, <2>4 DEF OwnRow
    <3>2. ASSUME NEW t \in 0..(Tick' - 1), OwnRow(t, p)' PROVE t = n
      <4>1. CASE t \in 0..(Tick - 1) /\ At(t)' = At(t)
        <5>1. At(t).type = "Decided" /\ At(t).id = n
          BY <1>5, <2>4, <3>2, <4>1 DEF OwnRow
        <5> QED
          BY <1>1, <4>1, <5>1, NoRowAhead
      <4>2. t \in 0..(Tick - 1) => At(t)' = At(t)
        BY <1>1, <2>3, RowTyped, RowsAreKept
      <4> QED
        BY <1>1, <2>5, <4>1, <4>2
    <3>3. /\ path'[p].id = n /\ path'[p].at = "decided" /\ path'[p].committed = w.committed
          /\ path'[p].scores = w.scores /\ path'[p].rule = w.rule
      BY <1>5, <2>4
    <3>4. n \in Ids /\ n <= Tick'
      BY <1>1, <2>5
    <3>5. ASSUME NEW t \in 0..(Tick' - 1), OwnRow(t, p)'
          PROVE  /\ At(t)'.variant = w.committed /\ At(t)'.floor = w.rule.floor
                 /\ At(t)'.margin = MarginOf(w.scores)
      <4>1. t = n
        BY <3>2, <3>5
      <4> QED
        BY <2>2, <2>3, <4>1
    <3> QED
      BY <2>3, <3>1, <3>3, <3>4, <3>5 DEF DecisionOK
  <2>7. PrincipalOK(p)'
    <3>1. /\ path'[p].principal = m /\ path'[p].committed = w.committed
          /\ path'[p].id = n
      BY <1>5, <1>6, <2>4
    <3>2. m # NoTick => IsTick(m)' /\ RestsOn(m, p, w.committed)'
      BY <1>1, <1>7, <2>3, RulingStands
    <3> QED
      BY <1>7, <3>1, <3>2 DEF PrincipalOK, RestsOn
  <2>8. PathOK(p)' /\ SlotOK(p)'
    BY <1>5, <2>4, <2>6, <2>7
       DEF PathOK, RuleOK, RequestOK, EndorsementOK, RetainsFirst, RulingIsVariant, SlotOK, Ruling
  <2>9. ChainStep(p)
    BY <2>1 DEF ChainStep
  <2> QED
    BY <1>0, <1>5, <2>1, <2>2, <2>3, <2>4, <2>8, <2>9, OneRowPath
<1> QED
  BY <1>8, <1>9

LEMMA PendingRowIs ==
  ASSUME GateInv, NEW p \in Paths
  PROVE  /\ PendingRow(p) \in RowType /\ PendingRow(p).path = p /\ PendingRow(p).id = Tick
         /\ PendingRow(p).type = "PendingPrincipalDecision"
<1>1. "PendingPrincipalDecision" \in RowKinds
  BY DEF RowKinds
<1>2. /\ Row("PendingPrincipalDecision", p) \in RowType
      /\ Row("PendingPrincipalDecision", p).path = p
      /\ Row("PendingPrincipalDecision", p).type = "PendingPrincipalDecision"
  BY <1>1, RowIsRow
<1>3. Tick \in Int
  BY GateInvParts
<1> QED
  BY <1>2, <1>3 DEF PendingRow, RowType

\* The request of a decision that goes to a principal is open when it is made.
LEMMA AskKeeps ==
  ASSUME GateInv, NEW p \in Paths, NEW w \in WorkType, w.at = "asked", w.pending = Tick,
         w.rule \in Rules, w.principal = NoTick, AppendRow(PendingRow(p)), Put(p, w),
         UNCHANGED <<chain, setup, storeVars>>
  PROVE  GateInv'
<1>0. PICK n \in Nat : n = Len(ledger)
  BY GateInvParts
<1>1. GateTypes /\ Tick = n
  BY <1>0, GateInvParts
<1>2. /\ PendingRow(p) \in RowType /\ PendingRow(p).path = p /\ PendingRow(p).id = n
      /\ PendingRow(p).type = "PendingPrincipalDecision"
  BY <1>1, PendingRowIs
<1>3. RowsKept /\ ledger'[n + 1] = PendingRow(p) /\ NewTicks = {n}
  BY <1>0, <1>1, <1>2, AppendKeeps
<1>4. At(n)' = PendingRow(p) /\ IsTick(n)'
  BY <1>0, <1>3 DEF At, IsTick, NewTicks, RowsKept
<1>5. RowOK(n)'
  BY <1>2, <1>4 DEF RowOK, IsRuling
<1>6. path' = [path EXCEPT ![p] = w] /\ path'[p] = w
  BY PutPuts
<1>7. ASSUME NEW t \in 0..(Tick' - 1), IsRuling(t)', At(t)'.id = n PROVE FALSE
  <2>1. CASE t \in 0..(Tick - 1) /\ At(t)' = At(t)
    <3>1. RulingOK(t)
      BY <1>7, <2>1, GateInvParts DEF RowOK, IsRuling
    <3>2. At(t).id \in 0..(t - 1)
      BY <3>1 DEF RulingOK
    <3> QED
      BY <1>1, <1>7, <2>1, <3>2
  <2>2. CASE t \in NewTicks
    BY <1>2, <1>3, <1>4, <1>7, <2>2 DEF IsRuling
  <2> QED
    BY <1>1, <1>3, <2>1, <2>2, TickSplits DEF Tick
<1>8. RequestOK(p)'
  <2>1. path'[p].pending = n
    BY <1>1, <1>6
  <2> QED
    BY <1>2, <1>4, <1>7, <2>1 DEF RequestOK
<1>9. PathOK(p)' /\ SlotOK(p)'
  BY <1>6, <1>8
     DEF PathOK, RuleOK, PrincipalOK, DecisionOK, EndorsementOK, RetainsFirst,
         RulingIsVariant, SlotOK, Settled
<1> QED
  BY <1>0, <1>2, <1>5, <1>6, <1>9, OneRowPath DEF ChainStep

LEMMA DecideKeeps ==
  ASSUME GateInv, NEW p \in Paths, NEW r \in Rules, NEW form, Decide(p, r, form)
  PROVE  GateInv'
<1> DEFINE w == [path[p] EXCEPT !.rule = r, !.principal = NoTick,
                                !.committed = Collapse(path[p].scores, r)]
           asked == [w EXCEPT !.at = "asked", !.pending = Tick]
<1>1. path[p] \in WorkType /\ path[p].scores \in Scores /\ Tick \in Int
  <2>1. path[p] \in WorkType /\ Tick \in Int
    BY GateInvParts
  <2> QED
    BY <2>1, WorkParts
<1>2. Collapse(path[p].scores, r) \in Commits /\ NoTick \in Int /\ "asked" \in Places
  BY <1>1, CollapseCommits DEF NoTick, Places
<1>3. w \in WorkType /\ w.rule = r /\ w.principal = NoTick
  BY <1>1, <1>2 DEF WorkType
<1>4. /\ asked \in WorkType /\ asked.at = "asked" /\ asked.pending = Tick
      /\ asked.rule = r /\ asked.principal = NoTick
  BY <1>1, <1>2, <1>3 DEF WorkType
<1>5. CASE AppendRow(PendingRow(p)) /\ Put(p, asked) /\ UNCHANGED <<chain, setup, storeVars>>
  BY <1>4, <1>5, AskKeeps
<1>6. CASE Settle(p, w)
  BY <1>3, <1>6, SettleKeeps DEF Decide
<1> QED
  BY <1>5, <1>6 DEF Decide

LEMMA SettleRulingKeeps ==
  ASSUME GateInv, NEW p \in Paths, SettleRuling(p)
  PROVE  GateInv'
<1>1. path[p] \in WorkType /\ PathOK(p) /\ path[p].at = "ruled" /\ Room
      /\ Settle(p, path[p])
  BY GateInvParts DEF SettleRuling
<1>2. path[p].rule \in Rules
  BY <1>1 DEF PathOK, RuleOK
<1>3. path[p].principal # NoTick =>
         IsTick(path[p].principal) /\ RestsOn(path[p].principal, p, path[p].committed)
  BY <1>1 DEF PathOK, PrincipalOK
<1> QED
  BY <1>1, <1>2, <1>3, SettleKeeps

\* The answer of bindDecision: the decision is appended, or the run fails.
LEMMA BoundKeeps ==
  ASSUME GateInv, NEW p \in Paths, Bound(p)
  PROVE  GateInv'
<1> DEFINE w == path[p]
           settled == [w EXCEPT !.at = "decided"]
           r == DecidedRow(p, w)
<1>0. PICK n \in Nat : n = Len(ledger)
  BY GateInvParts
<1>1. /\ w \in WorkType /\ PathOK(p) /\ SlotOK(p) /\ w.at = "binding" /\ ~Running(p)
      /\ GateTypes /\ Tick = n /\ UNCHANGED <<chain, setup, storeVars>> /\ ChainStep(p)
  BY <1>0, GateInvParts DEF Bound, ChainStep
<1>2. CASE Crashed(p) /\ UNCHANGED ledger
  <2>1. PICK u \in WorkType : Put(p, u) /\ u.at \in FreePlaces /\ u.principal = NoTick
    BY <1>2, CrashedIsPut
  <2> QED
    BY <1>1, <1>2, <2>1, QuietMove
<1>3. CASE answer[p] = "ok" /\ AppendRow(r) /\ Move(p, "decided")
  <2>1. w.at \in Settled /\ w.rule \in Rules
    BY <1>1 DEF PathOK, RuleOK, Settled
  <2>2. PICK d \in Ids : d = w.id
    BY <1>1, <2>1 DEF PathOK, DecisionOK
  <2>3. d <= n /\ p \in Evident /\ d \in Nat
    BY <1>1, <2>1, <2>2 DEF PathOK, DecisionOK, Ids
  <2>4. PICK m \in Int : m = w.principal
    BY <1>1, WorkParts
  <2>5. m # NoTick => IsTick(m) /\ RestsOn(m, p, w.committed) /\ m < d
    BY <1>1, <2>1, <2>2, <2>4 DEF PathOK, PrincipalOK
  <2>6. RowOK(n)' /\ At(n)' = r /\ RowsKept /\ IsTick(n)'
    <3>1. w.id \in Ids /\ w.id <= Tick
      BY <1>1, <2>2, <2>3
    <3>2. w.principal # NoTick =>
             /\ IsTick(w.principal) /\ RestsOn(w.principal, p, w.committed)
             /\ w.principal < w.id
      BY <2>2, <2>4, <2>5
    <3> QED
      BY <1>0, <1>1, <1>3, <2>1, <3>1, <3>2, DecidedRowIsOK
  <2>7. /\ r \in RowType /\ r.type = "Decided" /\ r.path = p /\ r.id = d
        /\ r.variant = w.committed /\ r.ref = Ref(p)
        /\ r.margin = MarginOf(w.scores) /\ r.floor = w.rule.floor
    BY <1>1, <2>1, <2>2, DecidedRowIs
  <2>8. r.ref # 0 => binding[r.ref] = r.id \/ r.ref \in deleted
    BY <1>1, <1>3, <2>2, <2>3, <2>7, RefIsNat DEF SlotOK
  <2>9. "decided" \in Places
    BY DEF Places
  <2>10. /\ path' = [path EXCEPT ![p] = settled] /\ settled \in WorkType
         /\ path'[p] = settled
    BY <1>3, <2>9, MovePuts
  <2>11. /\ path'[p].at = "decided" /\ path'[p].id = d /\ path'[p].principal = m
         /\ path'[p].committed = w.committed /\ path'[p].scores = w.scores
         /\ path'[p].rule = w.rule
    <3>1. /\ settled.at = "decided" /\ settled.id = w.id /\ settled.principal = w.principal
          /\ settled.committed = w.committed /\ settled.scores = w.scores
          /\ settled.rule = w.rule
      BY <1>1 DEF WorkType
    <3> QED
      BY <2>2, <2>4, <2>10, <3>1
  <2>12. Tick' = n + 1 /\ NewTicks = {n}
    BY <1>0, <1>1, <1>3, <2>7, AppendKeeps DEF AppendRow, GateTypes, Tick
  <2>13. DecisionOK(p)'
    <3>1. ASSUME NEW t \in 0..(Tick' - 1), OwnRow(t, p)'
          PROVE  /\ At(t)'.variant = w.committed /\ At(t)'.floor = w.rule.floor
                 /\ At(t)'.margin = MarginOf(w.scores)
      <4>1. CASE t \in 0..(Tick - 1) /\ At(t)' = At(t)
        <5>1. OwnRow(t, p)
          BY <2>2, <2>11, <3>1, <4>1 DEF OwnRow
        <5> QED
          BY <1>1, <2>1, <4>1, <5>1 DEF PathOK, DecisionOK
      <4>2. CASE t = n
        BY <2>6, <2>7, <4>2
      <4> QED
        BY <1>1, <2>6, <2>12, <4>1, <4>2, TickSplits DEF Tick
    <3> QED
      BY <2>3, <2>11, <2>12, <3>1 DEF DecisionOK
  <2>14. PrincipalOK(p)'
    <3>1. IsTick(m) => IsTick(m)' /\ At(m)' = At(m)
      BY <1>1, <2>6, RowsAreKept
    <3> QED
      BY <2>5, <2>11, <3>1 DEF PrincipalOK, RestsOn
  <2>15. PathOK(p)' /\ SlotOK(p)'
    BY <2>1, <2>11, <2>13, <2>14
       DEF PathOK, RuleOK, RequestOK, EndorsementOK, RetainsFirst, RulingIsVariant,
           SlotOK, Ruling, Settled
  <2>16. r.type \notin {"PrincipalDecision", "FailedPrincipalDecision"}
    BY <2>7
  <2> QED
    BY <1>0, <1>1, <1>3, <2>6, <2>7, <2>8, <2>10, <2>15, <2>16, OneRowPath
<1> QED
  BY <1>2, <1>3 DEF Bound

-----------------------------------------------------------------------------
(* An endorsement, and the result of a call.                                 *)

LEMMA EndorseKeeps ==
  ASSUME GateInv, NEW p \in Paths, NEW subject, Endorse(p, subject)
  PROVE  GateInv'
<1> DEFINE w == path[p]
           endorsed == [w EXCEPT !.at = "endorsed", !.by = Tick]
           r == EndorsedRow(p)
<1>0. PICK n \in Nat : n = Len(ledger)
  BY GateInvParts
<1>1. /\ w \in WorkType /\ PathOK(p) /\ w.at = "decided" /\ GateTypes /\ Tick = n
      /\ UNCHANGED <<chain, setup, storeVars>> /\ ChainStep(p)
  BY <1>0, GateInvParts DEF Endorse, ChainStep
<1>2. CASE Crashed(p) /\ UNCHANGED ledger
  <2>1. PICK u \in WorkType : Put(p, u) /\ u.at \in FreePlaces /\ u.principal = NoTick
    BY <1>2, CrashedIsPut
  <2> QED
    BY <1>1, <1>2, <2>1, QuietMove
<1>3. CASE w.committed # Abstained /\ AppendRow(r) /\ Put(p, endorsed)
  <2>1. w.at \in Settled /\ w.rule \in Rules
    BY <1>1 DEF PathOK, RuleOK, Settled
  <2>2. PICK d \in Ids : d = w.id
    BY <1>1, <2>1 DEF PathOK, DecisionOK
  <2>3. d <= n /\ (p \notin Evident => IsTick(d) /\ OwnRow(d, p)) /\ d \in Nat
    BY <1>1, <2>1, <2>2 DEF PathOK, DecisionOK, Ids
  <2>4. /\ Row("Endorsed", p) \in RowType /\ Row("Endorsed", p).type = "Endorsed"
        /\ Row("Endorsed", p).path = p
    <3>1. "Endorsed" \in RowKinds
      BY DEF RowKinds
    <3> QED
      BY <3>1, RowIsRow
  <2>5. /\ w.committed \in Commits \cup {""} /\ w.principal \in Int /\ Ref(p) \in Nat
        /\ w.rule.kind \in RuleKinds /\ w.id \in Int
    <3>1. w.committed \in Commits /\ w.principal \in Int /\ w.id \in Int
      BY <1>1, WorkParts
    <3>2. w.rule.kind \in RuleKinds /\ Ref(p) \in Nat
      BY <2>1, RuleTyped, RefIsNat
    <3> QED
      BY <3>1, <3>2
  <2>6. r \in RowType
    BY <2>4, <2>5 DEF EndorsedRow, RowType
  <2>7. /\ r.type = "Endorsed" /\ r.path = p /\ r.id = w.id /\ r.variant = w.committed
        /\ r.rule = w.rule.kind /\ r.ref = Ref(p)
    BY <2>4 DEF EndorsedRow, RowType
  <2>8. RowsKept /\ NewTicks = {n} /\ ledger'[n + 1] = r
    BY <1>0, <1>1, <2>6, <1>3, AppendKeeps
  <2>9. At(n)' = r /\ IsTick(n)' /\ Tick' = n + 1
    BY <1>0, <1>1, <1>3, <2>6, <2>8 DEF At, IsTick, NewTicks, RowsKept, AppendRow, GateTypes, Tick
  <2>10. /\ endorsed \in WorkType /\ endorsed.at = "endorsed" /\ endorsed.by = n
         /\ endorsed.id = w.id /\ endorsed.committed = w.committed
         /\ endorsed.scores = w.scores /\ endorsed.rule = w.rule
         /\ endorsed.principal = w.principal
    <3>1. "endorsed" \in Places /\ Tick \in Int
      BY <1>1 DEF Places
    <3>2. endorsed \in WorkType
      BY <1>1, <3>1 DEF WorkType
    <3>3. /\ endorsed.at = "endorsed" /\ endorsed.by = Tick
          /\ endorsed.id = w.id /\ endorsed.committed = w.committed
          /\ endorsed.scores = w.scores /\ endorsed.rule = w.rule
          /\ endorsed.principal = w.principal
      BY <1>1 DEF WorkType
    <3> QED
      BY <1>1, <3>2, <3>3
  <2>11. path' = [path EXCEPT ![p] = endorsed] /\ path'[p] = endorsed
    BY <1>3, PutPuts
  <2>12. /\ path'[p].at = "endorsed" /\ path'[p].by = n /\ path'[p].id = d
         /\ path'[p].committed = w.committed /\ path'[p].scores = w.scores
         /\ path'[p].rule = w.rule /\ path'[p].principal = w.principal
    BY <2>2, <2>10, <2>11
  <2>13. DecisionOK(p)'
    <3>1. ASSUME NEW t \in 0..(Tick' - 1), OwnRow(t, p)'
          PROVE  /\ At(t)'.variant = w.committed /\ At(t)'.floor = w.rule.floor
                 /\ At(t)'.margin = MarginOf(w.scores)
      <4>1. CASE t \in 0..(Tick - 1) /\ At(t)' = At(t)
        <5>1. OwnRow(t, p)
          BY <2>2, <2>12, <3>1, <4>1 DEF OwnRow
        <5> QED
          BY <1>1, <2>1, <4>1, <5>1 DEF PathOK, DecisionOK
      <4>2. CASE t = n
        BY <2>7, <2>9, <3>1, <4>2 DEF OwnRow
      <4> QED
        BY <1>1, <2>8, <4>1, <4>2, TickSplits DEF Tick
    <3>2. p \notin Evident => IsTick(d)' /\ OwnRow(d, p)'
      <4>1. IsTick(d) => IsTick(d)' /\ At(d)' = At(d)
        BY <1>1, <2>3, <2>8, RowsAreKept
      <4> QED
        BY <2>2, <2>3, <2>12, <4>1 DEF OwnRow
    <3> QED
      BY <1>1, <2>3, <2>9, <2>12, <3>1, <3>2 DEF DecisionOK
  <2>14. PrincipalOK(p)'
    BY <2>1, <2>2, <2>8, <2>12, CarriesPrincipal
  <2>15. EndorsementOK(p)'
    BY <1>3, <2>2, <2>7, <2>9, <2>12 DEF EndorsementOK
  <2>16. PathOK(p)' /\ SlotOK(p)'
    BY <2>1, <2>12, <2>13, <2>14, <2>15
       DEF PathOK, RuleOK, RequestOK, RetainsFirst, RulingIsVariant, SlotOK, Ruling, Settled
  <2>17. \A m \in Nat : m = Len(ledger) => RowOK(m)'
    BY <1>0, <2>7, <2>9 DEF RowOK, IsRuling
  <2>18. r.type \notin {"PrincipalDecision", "FailedPrincipalDecision", "Decided"}
    BY <2>7
  <2> QED
    BY <1>1, <1>3, <2>6, <2>7, <2>10, <2>11, <2>16, <2>17, <2>18, OneRowPath
<1> QED
  BY <1>2, <1>3 DEF Endorse

LEMMA ResolvedRowIs ==
  ASSUME NEW p \in Paths
  PROVE  /\ ResolvedRow(p) \in RowType /\ ResolvedRow(p).type \in PlainTypes
         /\ ResolvedRow(p).path = p
<1>1. "Resolved" \in RowKinds /\ "Resolved" \in PlainTypes
  BY DEF RowKinds, PlainTypes
<1>2. /\ Row("Resolved", p) \in RowType /\ Row("Resolved", p).type = "Resolved"
      /\ Row("Resolved", p).path = p
  BY <1>1, RowIsRow
<1> QED
  BY <1>1, <1>2, RefIsNat DEF ResolvedRow, RowType

LEMMA StartOnly ==
  ASSUME StoreTypes, NEW c \in Calls, NEW op, NEW r, NEW d, NEW again,
         Start(c, op, r, d, again)
  PROVE  OnlyCall(c)
  BY DEF StoreTypes, Start, OnlyCall

LEMMA ApplyReplyKeeps ==
  ASSUME GateInv, NEW p \in Paths, ApplyReply(p)
  PROVE  GateInv'
<1>1. path[p].at = "replied" /\ First(p) /\ PathOK(p) /\ GateTypes /\ StoreInv /\ StoreTypes
  BY GateInvParts DEF ApplyReply
<1>2. CASE p \in Evident
  <2>1. /\ Start(p, "retain", p, NoId, FALSE) /\ Move(p, "retaining")
        /\ UNCHANGED <<ledger, chain, setup>>
    BY <1>2 DEF ApplyReply
  <2>2. /\ p \in Calls /\ p \in Refs /\ "retain" \in Operations /\ NoId \in Ids \cup {NoId}
        /\ "retaining" \in Places
    BY <1>2, SlotAssumption DEF Operations, Places
  <2>3. StoreInv' /\ FilesKept /\ OnlyCall(p)
    BY <1>1, <2>1, <2>2, StartKeeps, StartOnly
  <2> DEFINE w == [path[p] EXCEPT !.at = "retaining"]
  <2>4. /\ path' = [path EXCEPT ![p] = w] /\ w \in WorkType
        /\ path'[p].at = "retaining" /\ path'[p].principal = path[p].principal
        /\ path'[p].committed = path[p].committed
    BY <2>1, <2>2, MovePuts
  <2>5. RowsKept /\ NewTicks = {}
    BY <1>1, <2>1, SameLedger
  <2>6. NewRowsOK(p)
    BY <2>5 DEF NewRowsOK
  <2>7. chain' \in Seq(Paths) /\ \A q \in Paths \ {p} : RetainsFirst(q)'
    <3>1. ChainStep(p) /\ \A q \in Paths \ {p} : path'[q] = path[q]
      BY <1>1, <2>1, <2>4 DEF ChainStep, GateTypes
    <3> QED
      BY <3>1, ChainKeeps
  <2>8. PrincipalOK(p)'
    BY <2>4, <2>5, CarriesPrincipal DEF Settled
  <2>9. First(p)'
    BY <1>1, <2>1 DEF First
  <2>10. PathOK(p)' /\ SlotOK(p)'
    BY <2>4, <2>8, <2>9
       DEF PathOK, RuleOK, RequestOK, DecisionOK, EndorsementOK, RetainsFirst,
           RulingIsVariant, SlotOK, Ruling, Settled
  <2> QED
    BY <2>1, <2>3, <2>4, <2>5, <2>6, <2>7, <2>10, PathStepKeeps
<1>3. CASE p \notin Evident
  <2>1. /\ AppendRow(ResolvedRow(p)) /\ Move(p, "resolved")
        /\ UNCHANGED <<setup, storeVars>> /\ ChainStep(p)
    BY <1>1, <1>3 DEF ApplyReply, ChainStep
  <2>2. "resolved" \in Places /\ "resolved" \in FreePlaces
    BY DEF Places, FreePlaces, Ruling, Settled
  <2>3. PICK w \in WorkType : /\ Put(p, w) /\ w.at = "resolved"
                              /\ w.principal = path[p].principal
                              /\ w.committed = path[p].committed
    BY <2>1, <2>2, MoveIsPut
  <2> QED
    BY <2>1, <2>2, <2>3, ResolvedRowIs, PlainMove
<1> QED
  BY <1>2, <1>3

LEMMA RetainedKeeps ==
  ASSUME GateInv, NEW p \in Paths, Retained(p)
  PROVE  GateInv'
<1>1. First(p)
  BY GateInvParts DEF Retained, PathOK, RetainsFirst
<1>2. ChainStep(p) /\ UNCHANGED <<setup, storeVars>>
  BY <1>1 DEF Retained, ChainStep
<1>3. CASE AppendRow(ResolvedRow(p)) /\ Move(p, "resolved")
  <2>1. "resolved" \in Places /\ "resolved" \in FreePlaces
    BY DEF Places, FreePlaces, Ruling, Settled
  <2>2. PICK w \in WorkType : /\ Put(p, w) /\ w.at = "resolved"
                              /\ w.principal = path[p].principal
                              /\ w.committed = path[p].committed
    BY <1>3, <2>1, MoveIsPut
  <2> QED
    BY <1>2, <1>3, <2>1, <2>2, ResolvedRowIs, PlainMove
<1>4. CASE Crashed(p) /\ UNCHANGED ledger
  <2>1. PICK u \in WorkType : Put(p, u) /\ u.at \in FreePlaces /\ u.principal = NoTick
    BY <1>4, CrashedIsPut
  <2> QED
    BY <1>2, <1>4, <2>1, QuietMove
<1> QED
  BY <1>3, <1>4 DEF Retained

-----------------------------------------------------------------------------
(* The action.                                                               *)

\* The lineage of a path that carries its own endorsement leads to its own
\* decision, and the floor was checked against the scores it was made from.
LEMMA LineageIsOwn ==
  ASSUME GateInv, NEW p \in Paths, path[p].at = "endorsed",
         LineageHolds(path[p], Ref(p)), ~UnderFloor(path[p]),
         NEW d \in Int, d = path[p].id, NEW e \in Int, e = path[p].by
  PROVE  /\ d \in 0..(Tick - 1) /\ e \in 0..(Tick - 1) /\ d < e
         /\ At(d).type = "Decided" /\ At(e).type = "Endorsed"
         /\ At(d).id = d /\ At(e).id = d /\ At(d).path = p /\ At(e).path = p
         /\ At(e).variant = At(d).variant /\ At(d).variant # Abstained
         /\ At(e).rule = path[p].rule.kind /\ At(d).rule = path[p].rule.kind
         /\ At(e).ref = Ref(p) /\ At(d).ref = Ref(p)
         /\ At(e).principal = At(d).principal
         /\ At(d).floor = Undefined \/ At(d).margin >= At(d).floor
<1> DEFINE w == path[p]
<1>1. /\ w \in WorkType /\ PathOK(p) /\ w.at \in Settled /\ w.rule \in Rules
  BY GateInvParts DEF PathOK, RuleOK, Settled
<1>2. /\ IsTick(e) /\ At(e).type = "Endorsed" /\ IsTick(d) /\ At(d).type = "Decided"
      /\ d < e /\ At(e).id = d /\ At(d).id = d /\ At(e).ref = Ref(p)
      /\ At(e).variant = At(d).variant /\ At(e).rule = At(d).rule
      /\ At(e).ref = At(d).ref /\ At(e).principal = At(d).principal
  BY DEF LineageHolds, SameReceipt
<1>3. d \in 0..(Tick - 1) /\ e \in 0..(Tick - 1)
  BY <1>2, GateInvParts DEF IsTick
<1>4. /\ At(e).path = p /\ At(e).variant = w.committed /\ w.committed # Abstained
      /\ At(e).rule = w.rule.kind
  BY <1>1 DEF PathOK, EndorsementOK
<1>5. At(d).path = p
  <2>1. CASE p \in Evident
    <3>1. DecidedOK(d)
      BY <1>2, <1>3, GateInvParts DEF RowOK
    <3>2. Ref(At(d).path) = p /\ p # 0
      BY <1>2, <2>1, <3>1, RefIsNat DEF DecidedOK
    <3> QED
      BY <3>2 DEF Ref
  <2>2. CASE p \notin Evident
    BY <1>1, <2>2 DEF PathOK, DecisionOK, OwnRow
  <2> QED
    BY <2>1, <2>2
<1>6. At(d).floor = w.rule.floor /\ At(d).margin = MarginOf(w.scores)
  <2>1. OwnRow(d, p)
    BY <1>2, <1>5 DEF OwnRow
  <2> QED
    BY <1>1, <1>3, <2>1 DEF PathOK, DecisionOK
<1>7. w.rule.floor = Undefined \/ MarginOf(w.scores) >= w.rule.floor
  <2>1. w.scores \in Scores
    BY <1>1, WorkParts
  <2>2. MarginOf(w.scores) \in Int /\ w.rule.floor \in Int
    BY <1>1, <2>1, MarginIsInt, RuleTyped
  <2> QED
    BY <2>2 DEF UnderFloor
<1> QED
  BY <1>2, <1>3, <1>4, <1>5, <1>6, <1>7

\* The batch of an authorized action: the action, its receipt and, for a wired
\* one, the start of its tool.
AuthorizedRow(p) ==
    [Row("ActionAuthorized", p) EXCEPT !.id = path[p].id, !.by = path[p].by,
        !.ref = Ref(p), !.rule = path[p].rule.kind]

LEMMA AuthorizedRowIs ==
  ASSUME GateInv, NEW p \in Paths, path[p].rule \in Rules
  PROVE  /\ AuthorizedRow(p) \in RowType /\ AuthorizedRow(p).type = "ActionAuthorized"
         /\ AuthorizedRow(p).path = p /\ AuthorizedRow(p).id = path[p].id
         /\ AuthorizedRow(p).by = path[p].by /\ AuthorizedRow(p).ref = Ref(p)
         /\ AuthorizedRow(p).rule = path[p].rule.kind
<1>1. "ActionAuthorized" \in RowKinds
  BY DEF RowKinds
<1>2. /\ Row("ActionAuthorized", p) \in RowType /\ Row("ActionAuthorized", p).path = p
      /\ Row("ActionAuthorized", p).type = "ActionAuthorized"
  BY <1>1, RowIsRow
<1>3. path[p] \in WorkType
  BY GateInvParts
<1>4. path[p].id \in Int /\ path[p].by \in Int
  BY <1>3, WorkParts
<1>5. path[p].rule.kind \in RuleKinds /\ Ref(p) \in Nat
  BY RuleTyped, RefIsNat
<1>6. AuthorizedRow(p) \in RowType
  BY <1>2, <1>4, <1>5 DEF AuthorizedRow, RowType
<1> QED
  BY <1>2, <1>6 DEF AuthorizedRow, RowType

LEMMA BatchKeeps ==
  ASSUME GateTypes, NEW a \in RowType, NEW b \in RowType, NEW c \in RowType,
         \/ ledger' = ledger \o <<a, b>>
         \/ ledger' = ledger \o <<a, b, c>>
  PROVE  /\ RowsKept /\ ledger'[Len(ledger) + 1] = a /\ ledger'[Len(ledger) + 2] = b
         /\ \/ Len(ledger') = Len(ledger) + 2
            \/ Len(ledger') = Len(ledger) + 3 /\ ledger'[Len(ledger) + 3] = c
<1>1. ledger \in Seq(RowType) /\ Len(ledger) \in Nat
  BY DEF GateTypes
<1>2. CASE ledger' = ledger \o <<a, b>>
  <2>1. <<a, b>> \in Seq(RowType) /\ Len(<<a, b>>) = 2
    OBVIOUS
  <2>2. ledger' \in Seq(RowType) /\ Len(ledger') = Len(ledger) + 2
    BY <1>1, <1>2, <2>1
  <2>3. /\ \A t \in 1..Len(ledger) : ledger'[t] = ledger[t]
        /\ ledger'[Len(ledger) + 1] = a /\ ledger'[Len(ledger) + 2] = b
    BY <1>1, <1>2, <2>1
  <2> QED
    BY <1>1, <2>2, <2>3 DEF RowsKept
<1>3. CASE ledger' = ledger \o <<a, b, c>>
  <2>1. <<a, b, c>> \in Seq(RowType) /\ Len(<<a, b, c>>) = 3
    OBVIOUS
  <2>2. ledger' \in Seq(RowType) /\ Len(ledger') = Len(ledger) + 3
    BY <1>1, <1>3, <2>1
  <2>3. /\ \A t \in 1..Len(ledger) : ledger'[t] = ledger[t]
        /\ ledger'[Len(ledger) + 1] = a /\ ledger'[Len(ledger) + 2] = b
        /\ ledger'[Len(ledger) + 3] = c
    BY <1>1, <1>3, <2>1
  <2> QED
    BY <1>1, <2>2, <2>3 DEF RowsKept
<1> QED
  BY <1>2, <1>3

LEMMA AuthorizeKeeps ==
  ASSUME GateInv, NEW p \in Paths, NEW wired \in BOOLEAN, path[p].at = "endorsed",
         LineageHolds(path[p], Ref(p)), ~UnderFloor(path[p]), Authorize(p, wired),
         UNCHANGED <<setup, storeVars>>
  PROVE  GateInv'
<1> DEFINE action == Row("Action", p)
           receipt == AuthorizedRow(p)
           started == Row("ToolStarted", p)
<1>0. PICK n \in Nat : n = Len(ledger)
  BY GateInvParts
<1>1. /\ path[p] \in WorkType /\ GateTypes /\ StoreInv /\ Tick = n
      /\ path[p].rule \in Rules
  BY <1>0, GateInvParts DEF PathOK, RuleOK, Settled
<1>2. PICK d \in Int : d = path[p].id
  BY <1>1, WorkParts
<1>3. PICK e \in Int : e = path[p].by
  BY <1>1, WorkParts
<1>4. /\ d \in 0..(n - 1) /\ e \in 0..(n - 1) /\ d < e
      /\ At(d).type = "Decided" /\ At(e).type = "Endorsed"
      /\ At(d).id = d /\ At(e).id = d /\ At(d).path = p /\ At(e).path = p
      /\ At(e).variant = At(d).variant /\ At(d).variant # Abstained
      /\ At(e).rule = path[p].rule.kind /\ At(d).rule = path[p].rule.kind
      /\ At(e).ref = Ref(p) /\ At(d).ref = Ref(p)
      /\ At(e).principal = At(d).principal
      /\ At(d).floor = Undefined \/ At(d).margin >= At(d).floor
  BY <1>1, <1>2, <1>3, LineageIsOwn
<1>5. /\ action \in RowType /\ action.type = "Action" /\ action.path = p
      /\ started \in RowType /\ started.type = "ToolStarted" /\ started.path = p
  <2>1. "Action" \in RowKinds /\ "ToolStarted" \in RowKinds
    BY DEF RowKinds
  <2> QED
    BY <2>1, RowIsRow
<1>6. /\ receipt \in RowType /\ receipt.type = "ActionAuthorized" /\ receipt.path = p
      /\ receipt.id = d /\ receipt.by = e /\ receipt.ref = Ref(p)
      /\ receipt.rule = path[p].rule.kind
  BY <1>1, <1>2, <1>3, AuthorizedRowIs
<1>7. \/ /\ ledger' = ledger \o <<action, receipt>> /\ chain' = chain /\ Done(p)
      \/ /\ ledger' = ledger \o <<action, receipt, started>>
         /\ chain' = Append(chain, p) /\ Move(p, "acting")
  BY DEF Authorize, AuthorizedRow
<1>8. /\ RowsKept /\ ledger'[n + 1] = action /\ ledger'[n + 2] = receipt
      /\ \/ Len(ledger') = n + 2
         \/ Len(ledger') = n + 3 /\ ledger'[n + 3] = started
  BY <1>0, <1>1, <1>5, <1>6, <1>7, BatchKeeps
<1>9. /\ At(n)' = action /\ IsTick(n)' /\ At(n + 1)' = receipt
      /\ \A t \in NewTicks : t = n \/ t = n + 1 \/ (t = n + 2 /\ At(t)' = started)
  <2>1. At(n)' = action /\ IsTick(n)'
    BY <1>8 DEF At, IsTick
  <2>2. n + 1 + 1 = n + 2 /\ n + 2 + 1 = n + 3
    OBVIOUS
  <2>3. At(n + 1)' = receipt
    BY <1>8, <2>2 DEF At
  <2>4. ASSUME NEW t \in NewTicks, t # n, t # n + 1 PROVE t = n + 2 /\ At(t)' = started
    <3>1. t = n + 2 /\ ledger'[n + 3] = started
      BY <1>0, <1>8, <2>4 DEF NewTicks
    <3> QED
      BY <2>2, <3>1 DEF At
  <2> QED
    BY <2>1, <2>3, <2>4
<1>10. /\ At(d)' = At(d) /\ At(e)' = At(e) /\ IsTick(d)' /\ IsTick(e)'
  <2>1. d \in 0..(Tick - 1) /\ e \in 0..(Tick - 1)
    BY <1>1, <1>4
  <2> QED
    BY <1>1, <1>8, <2>1, RowTyped, RowsAreKept
<1>11. ASSUME NEW t \in Nat, t = n + 1 PROVE AuthorizedOK(t)'
  <2>1. At(t)' = receipt
    BY <1>9, <1>11
  <2>2. ReceiptOf(t, n)'
    BY <1>5, <1>6, <1>9, <1>11, <2>1 DEF ReceiptOf
  <2>3. t - 1 = n
    BY <1>11
  <2>4. ReceiptOf(t, t - 1)'
    BY <2>2, <2>3
  <2>5. VerdictHolds(t)'
    BY <1>4, <1>6, <1>10, <2>1, <2>3 DEF VerdictHolds
  <2> QED
    BY <1>4, <1>6, <1>10, <2>1, <2>4, <2>5 DEF AuthorizedOK
<1>12. ASSUME NEW t \in NewTicks
       PROVE  RowOK(t)' /\ At(t)'.path = p /\ ~IsRuling(t)' /\ At(t)'.type # "Decided"
  <2>1. CASE t = n
    BY <1>5, <1>9, <2>1 DEF RowOK, IsRuling
  <2>2. CASE t = n + 1
    <3>1. At(t)' = receipt /\ t \in Nat
      BY <1>9, <2>2
    <3>2. AuthorizedOK(t)'
      BY <1>11, <2>2, <3>1
    <3> QED
      BY <1>6, <3>1, <3>2 DEF RowOK, IsRuling
  <2>3. CASE t = n + 2 /\ At(t)' = started
    BY <1>5, <2>3 DEF RowOK, IsRuling
  <2> QED
    BY <1>9, <2>1, <2>2, <2>3
<1>13. NewRowsOK(p)
  BY <1>12 DEF NewRowsOK
<1>14. PICK u \in WorkType : /\ Put(p, u) /\ u.at \in FreePlaces
                             /\ \/ u.principal = NoTick
                                \/ /\ u.principal = path[p].principal
                                   /\ u.committed = path[p].committed
  <2>1. "acting" \in Places /\ "acting" \in FreePlaces
    BY DEF Places, FreePlaces, Ruling, Settled
  <2>2. CASE Move(p, "acting")
    BY <2>1, <2>2, MoveIsPut
  <2>3. CASE Done(p)
    BY <2>3, DoneIsPut
  <2> QED
    BY <1>7, <2>2, <2>3
<1>15. path' = [path EXCEPT ![p] = u] /\ path'[p] = u
  BY <1>14, PutPuts
<1>16. PathOK(p)' /\ SlotOK(p)'
  BY <1>8, <1>14, <1>15, FreeIsOK
<1>17. StoreInv' /\ FilesKept /\ OnlyCall(p)
  BY <1>1, UnchangedKeeps DEF OnlyCall, storeVars
<1>18. chain' \in Seq(Paths) /\ \A q \in Paths \ {p} : RetainsFirst(q)'
  <2>1. ChainStep(p)
    BY <1>7 DEF ChainStep
  <2>2. \A q \in Paths \ {p} : path'[q] = path[q]
    BY <1>1, <1>15 DEF GateTypes
  <2> QED
    BY <2>1, <2>2, ChainKeeps
<1> QED
  BY <1>8, <1>12, <1>13, <1>15, <1>16, <1>17, <1>18, PathStepKeeps

LEMMA PerformKeeps ==
  ASSUME GateInv, NEW p \in Paths, NEW permit \in {"granted", "ungranted", "out of scope"},
         NEW wired \in BOOLEAN, Perform(p, permit, wired)
  PROVE  GateInv'
<1>1. path[p].at = "endorsed" /\ UNCHANGED <<setup, storeVars>>
  BY DEF Perform
<1>2. CASE Crashed(p) /\ UNCHANGED <<ledger, chain>>
  <2>1. PICK u \in WorkType : Put(p, u) /\ u.at \in FreePlaces /\ u.principal = NoTick
    BY <1>2, CrashedIsPut
  <2> QED
    BY <1>1, <1>2, <2>1, QuietMove DEF ChainStep
<1>3. ASSUME NEW type \in {"TaskScopeViolation", "MarginFloorViolation"}, Refuse(p, type)
      PROVE  GateInv'
  <2>1. AppendRow(Row(type, p)) /\ Crashed(p) /\ ChainStep(p)
    BY <1>3 DEF Refuse, ChainStep
  <2>2. type \in RowKinds /\ type \in PlainTypes
    BY DEF RowKinds, PlainTypes
  <2>3. Row(type, p) \in RowType /\ Row(type, p).type \in PlainTypes /\ Row(type, p).path = p
    BY <2>2, RowIsRow
  <2>4. PICK u \in WorkType : Put(p, u) /\ u.at \in FreePlaces /\ u.principal = NoTick
    BY <2>1, CrashedIsPut
  <2> QED
    BY <1>1, <2>1, <2>3, <2>4, PlainMove
<1>4. CASE ~UnderFloor(path[p]) /\ LineageHolds(path[p], Ref(p)) /\ Authorize(p, wired)
  BY <1>1, <1>4, AuthorizeKeeps
<1> QED
  BY <1>2, <1>3, <1>4 DEF Perform

-----------------------------------------------------------------------------
(* The host, the store and the crash.                                        *)

\* What is decided in the ledger fits the ids the store can hold.
LEMMA DecisionsAreIds ==
  ASSUME GateInv
  PROVE  Decisions \subseteq Ids
<1> SUFFICES ASSUME NEW t \in 0..(Tick - 1), At(t).type = "Decided" PROVE At(t).id \in Ids
  BY DEF Decisions
<1> QED
  BY GateInvParts DEF RowOK, DecidedOK

\* A step that leaves the gate alone.
LEMMA OutsideKeeps ==
  ASSUME GateInv, UNCHANGED gateVars, StoreInv', FilesKept, \A q \in Paths : SlotOK(q)'
  PROVE  GateInv'
<1>1. GateTypes /\ StoreTypes /\ RowsInv /\ EvidenceExplainsDecision
      /\ \A q \in Paths : PathOK(q)
  BY GateInvParts
<1>2. UNCHANGED <<ledger, path, chain, setup>>
  BY DEF gateVars
<1>3. GateTypes'
  BY <1>1, <1>2 DEF GateTypes
<1>4. RowsKept /\ NewTicks = {}
  BY <1>1, <1>2, SameLedger
<1>5. RowsInv'
  <2>1. NewRowsOK(0)
    BY <1>4 DEF NewRowsOK
  <2> QED
    BY <1>1, <1>4, <2>1, RowsGrow
<1>6. EvidenceExplainsDecision'
  BY <1>1, <1>4, EvidenceStays
<1>7. ASSUME NEW q \in Paths PROVE PathOK(q)'
  BY <1>1, <1>2
     DEF PathOK, RuleOK, RequestOK, PrincipalOK, DecisionOK, EndorsementOK, RetainsFirst,
         RulingIsVariant, OwnRow, RestsOn, IsRuling, IsTick, At, Tick, First
<1> QED
  BY <1>3, <1>5, <1>6, <1>7 DEF GateInv

LEMMA HostCallsKeeps ==
  ASSUME GateInv, NEW h \in Hosts, HostCalls(h)
  PROVE  GateInv' /\ StoreAct
<1>0. StoreInv /\ StoreTypes /\ h \in Calls /\ h \notin Paths /\ setup.host \subseteq Operations
  <2>1. setup.host \subseteq HostOps
    BY SlotAssumption DEF GateInv, GateTypes, Setup
  <2> QED
    BY <2>1, GateInvParts, SlotAssumption
<1>1. PICK op \in Operations, r \in Refs :
         IF op = "retain" THEN \E again \in BOOLEAN : Start(h, op, r, NoId, again)
         ELSE \E d \in Decisions : Start(h, op, r, d, op = "bind")
  BY <1>0 DEF HostCalls
<1>2. PICK d \in Ids \cup {NoId}, again \in BOOLEAN :
         (op # "retain" => d \in Ids) /\ Start(h, op, r, d, again)
  <2>1. CASE op = "retain"
    BY <1>1, <2>1
  <2>2. CASE op # "retain"
    <3>1. PICK d \in Decisions : Start(h, op, r, d, op = "bind")
      BY <1>1, <2>2
    <3> QED
      BY <2>2, <3>1, DecisionsAreIds
  <2> QED
    BY <2>1, <2>2
<1>3. StoreInv' /\ FilesKept /\ OnlyCall(h)
  BY <1>0, <1>2, StartKeeps, StartOnly
<1>4. UNCHANGED gateVars /\ path' = path
  BY DEF HostCalls, gateVars
<1>5. ASSUME NEW q \in Paths PROVE SlotOK(q)'
  <2>1. q \in Calls \ {h}
    BY <1>0, SlotAssumption
  <2>2. call'[q] = call[q] /\ answer'[q] = answer[q] /\ PathOK(q) /\ SlotOK(q)
    BY <1>3, <2>1, GateInvParts DEF OnlyCall
  <2> QED
    BY <1>0, <1>3, <1>4, <2>2, SlotStays
<1>6. StoreAct
  BY <1>0, <1>2 DEF StoreAct
<1> QED
  BY <1>3, <1>4, <1>5, <1>6, OutsideKeeps

LEMMA HostIssuesKeeps ==
  ASSUME GateInv, HostIssues
  PROVE  GateInv' /\ StoreAct
<1>0. StoreInv /\ StoreTypes /\ UNCHANGED gateVars /\ path' = path
  BY GateInvParts DEF HostIssues, gateVars
<1>1. PICK op \in {"inspect", "export", "delete"}, r \in Refs, d \in Ids :
         IssueAuthorization(op, r, d)
  BY DecisionsAreIds DEF HostIssues
<1>2. StoreAct
  BY <1>1 DEF StoreAct
<1>3. StoreInv' /\ FilesKept
  BY <1>0, <1>2, StoreKeeps
<1>4. ASSUME NEW q \in Paths PROVE SlotOK(q)'
  <2>1. call' = call /\ answer' = answer /\ PathOK(q) /\ SlotOK(q)
    BY <1>1, GateInvParts DEF IssueAuthorization
  <2> QED
    BY <1>0, <1>3, <2>1, SlotStays
<1> QED
  BY <1>0, <1>2, <1>3, <1>4, OutsideKeeps

LEMMA StoreMovesKeeps ==
  ASSUME GateInv, StoreMoves
  PROVE  GateInv' /\ StoreAct
<1>0. StoreInv /\ StoreStep /\ UNCHANGED gateVars /\ path' = path
  BY GateInvParts DEF StoreMoves, gateVars
<1>1. StoreAct
  BY <1>0 DEF StoreAct
<1>2. StoreInv' /\ FilesKept /\ AnswerStep
  BY <1>0, <1>1, StoreKeeps
<1>3. ASSUME NEW q \in Paths PROVE SlotOK(q)'
  <2>1. PathOK(q) /\ SlotOK(q)
    BY GateInvParts
  <2> QED
    BY <1>0, <1>2, <2>1, SlotSteps
<1> QED
  BY <1>0, <1>1, <1>2, <1>3, OutsideKeeps

LEMMA ProcessCrashKeeps ==
  ASSUME GateInv, ProcessCrash
  PROVE  GateInv' /\ StoreAct
<1> DEFINE w == [Fresh EXCEPT !.at = "crashed"]
<1>0. /\ GateTypes /\ StoreInv /\ StoreTypes /\ RowsInv /\ EvidenceExplainsDecision
      /\ UNCHANGED <<ledger, setup>> /\ chain' = << >>
      /\ path' = [p \in Paths |-> w] /\ Crash
  BY GateInvParts DEF ProcessCrash
<1>1. StoreAct
  BY <1>0 DEF StoreAct
<1>2. StoreInv' /\ FilesKept
  BY <1>0, <1>1, StoreKeeps
<1>3. w \in WorkType /\ w.at \in FreePlaces /\ w.principal = NoTick
  BY FreshIsWork
<1>4. GateTypes'
  BY <1>0, <1>3 DEF GateTypes
<1>5. RowsKept /\ NewTicks = {}
  BY <1>0, SameLedger
<1>6. RowsInv'
  <2>1. NewRowsOK(0)
    BY <1>5 DEF NewRowsOK
  <2> QED
    BY <1>0, <1>5, <2>1, RowsGrow
<1>7. EvidenceExplainsDecision'
  BY <1>0, <1>2, <1>5, EvidenceStays
<1>8. ASSUME NEW q \in Paths PROVE PathOK(q)' /\ SlotOK(q)'
  <2>1. path'[q] = w
    BY <1>0
  <2>2. path'[q].at \in FreePlaces /\ path'[q].principal = NoTick
    BY <1>3, <2>1
  <2> QED
    BY <1>5, <2>2, FreeIsOK
<1> QED
  BY <1>1, <1>2, <1>4, <1>6, <1>7, <1>8 DEF GateInv

-----------------------------------------------------------------------------
(* The invariant of the specification.                                       *)

LEMMA StoreStarts ==
  ASSUME StoreInit
  PROVE  StoreInv
<1>1. Idle \in CallType /\ "none" \in Answers /\ Idle.step = "idle"
  BY DEF Idle, CallType, Steps, Answers
<1>2. StoreTypes
  BY <1>1, StoreConstants DEF StoreInit, StoreTypes
<1>3. \A c \in Calls : CallOK(c)
  BY <1>1 DEF StoreInit, CallOK, Running
<1>4. \A r \in Refs : ResidueOK(r)
  BY DEF StoreInit, ResidueOK
<1> QED
  BY <1>2, <1>3, <1>4 DEF StoreInv

LEMMA GateStarts ==
  ASSUME GateInit
  PROVE  GateInv
<1>0. /\ StoreInit /\ ledger = << >> /\ path = [p \in Paths |-> Fresh] /\ chain = << >>
      /\ setup \in Setups
  BY DEF GateInit
<1>1. Fresh \in WorkType
  BY FreshIsWork
<1>2. GateTypes
  BY <1>0, <1>1 DEF GateTypes
<1>3. Tick = 0
  BY <1>0 DEF Tick
<1>4. RowsInv /\ EvidenceExplainsDecision
  BY <1>3 DEF RowsInv, AnsweredOnce, EvidenceExplainsDecision, Rows
<1>5. ASSUME NEW p \in Paths PROVE PathOK(p) /\ SlotOK(p)
  <2>1. path[p].at = "start" /\ path[p].principal = NoTick
    BY <1>0 DEF Fresh
  <2> QED
    BY <2>1
       DEF PathOK, RuleOK, RequestOK, PrincipalOK, DecisionOK, EndorsementOK,
           RetainsFirst, RulingIsVariant, SlotOK, Ruling, Settled
<1> QED
  BY <1>0, <1>2, <1>4, <1>5, StoreStarts DEF GateInv

LEMMA PathStepsKeep ==
  ASSUME GateInv, NEW p \in Paths, PathStep(p)
  PROVE  GateInv'
  BY SendKeeps, ReplyKeeps, ApplyReplyKeeps, RetainedKeeps, RejectedKeeps, DecideKeeps,
     AskPrincipalKeeps, ConsultedKeeps, VerifiedKeeps, SettleRulingKeeps, BoundKeeps,
     EndorseKeeps, PerformKeeps, ToolReplyKeeps, ToolResolvedKeeps
     DEF PathStep

LEMMA BindIsStoreAct ==
  ASSUME GateInv, NEW p \in Paths, p \in Evident, Room,
         Start(p, "bind", p, DecisionId, FALSE)
  PROVE  StoreAct
<1>1. p \in Calls /\ p \in Refs /\ "bind" \in Operations
  BY SlotAssumption DEF Operations
<1>2. DecisionId \in Ids
  BY GateInvParts, GateConstants DEF DecisionId, Room, Ids
<1> QED
  BY <1>1, <1>2 DEF StoreAct

\* A path touches the store only to start a call, in its own slot.
LEMMA PathStepsActOnStore ==
  ASSUME GateInv, NEW p \in Paths, PathStep(p)
  PROVE  StoreAct
<1>0. UNCHANGED storeVars => StoreAct
  BY DEF StoreAct
<1>1. ASSUME NEW r \in Rules, NEW form, Decide(p, r, form) PROVE StoreAct
  <2>1. \/ UNCHANGED storeVars
        \/ p \in Evident /\ Room /\ Start(p, "bind", p, DecisionId, FALSE)
    BY <1>1 DEF Decide, Settle
  <2> QED
    BY <1>0, <2>1, BindIsStoreAct
<1>2. ASSUME SettleRuling(p) PROVE StoreAct
  <2>1. \/ UNCHANGED storeVars
        \/ p \in Evident /\ Room /\ Start(p, "bind", p, DecisionId, FALSE)
    BY <1>2 DEF SettleRuling, Settle
  <2> QED
    BY <1>0, <2>1, BindIsStoreAct
<1>3. ASSUME ApplyReply(p) PROVE StoreAct
  <2>1. \/ UNCHANGED storeVars
        \/ p \in Evident /\ Start(p, "retain", p, NoId, FALSE)
    BY <1>3 DEF ApplyReply
  <2>2. p \in Calls /\ "retain" \in Operations /\ NoId \in Ids \cup {NoId}
    BY SlotAssumption DEF Operations
  <2> QED
    BY <2>1, <2>2, SlotAssumption DEF StoreAct
<1>4. ASSUME NEW permit, NEW wired, Perform(p, permit, wired) PROVE UNCHANGED storeVars
  BY <1>4 DEF Perform
<1>5. ASSUME NEW subject, Endorse(p, subject) PROVE UNCHANGED storeVars
  BY <1>5 DEF Endorse
<1>6. ASSUME \/ Send(p) \/ Reply(p) \/ Retained(p) \/ Rejected(p)
             \/ AskPrincipal(p) \/ Consulted(p) \/ Verified(p) \/ Bound(p)
             \/ ToolReply(p) \/ ToolResolved(p)
      PROVE  UNCHANGED storeVars
  BY <1>6 DEF Send, Reply, Retained, Rejected, AskPrincipal, Consulted, Verified, Bound,
              ToolReply, ToolResolved
<1> QED
  BY <1>0, <1>1, <1>2, <1>3, <1>4, <1>5, <1>6 DEF PathStep

\* The steps of the specification, for the store and for the gate.
LEMMA StepKeeps ==
  ASSUME GateInv, [GateNext]_vars
  PROVE  GateInv' /\ StoreAct
<1>1. CASE UNCHANGED vars
  <2>1. StoreInv /\ StoreTypes /\ UNCHANGED gateVars /\ UNCHANGED storeVars
    BY <1>1, GateInvParts DEF vars, gateVars
  <2>2. StoreInv' /\ FilesKept
    BY <2>1, UnchangedKeeps
  <2>3. ASSUME NEW q \in Paths PROVE SlotOK(q)'
    <3>1. PathOK(q) /\ SlotOK(q) /\ path' = path /\ call' = call /\ answer' = answer
      BY <2>1, GateInvParts DEF gateVars, storeVars
    <3> QED
      BY <2>1, <2>2, <3>1, SlotStays
  <2>4. GateInv'
    BY <2>1, <2>2, <2>3, OutsideKeeps
  <2> QED
    BY <2>1, <2>4 DEF StoreAct
<1>2. CASE GateNext
  BY <1>2, PathStepsKeep, PathStepsActOnStore, HostCallsKeeps, HostIssuesKeeps,
     StoreMovesKeeps, ProcessCrashKeeps
     DEF GateNext
<1> QED
  BY <1>1, <1>2

\* The inductive invariant: the ledger is a chain of rows that justify each
\* other, every path carries what its rows say, and the store keeps the
\* evidence of what was decided.
THEOREM Invariance == GateSpec => []GateInv
<1>1. GateInit => GateInv
  BY GateStarts
<1>2. GateInv /\ [GateNext]_vars => GateInv'
  BY StepKeeps
<1> QED
  BY <1>1, <1>2, PTL DEF GateSpec

-----------------------------------------------------------------------------
(* What follows.                                                             *)

\* Every authorized action rests on a decision and an endorsement of its own
\* path, on the same variant, with the margin its rule asks for, however the
\* paths interleave (interp.ts validateAuthorizationLineage).
THEOREM ActionsAreJustified == GateSpec => []AuthorizedActionsAreJustified
<1>1. GateInv => AuthorizedActionsAreJustified
  <2> SUFFICES ASSUME GateInv, NEW t \in 0..(Tick - 1), At(t).type = "ActionAuthorized"
               PROVE  LET a == At(t) IN
                      /\ IsTick(a.id) /\ IsTick(a.by) /\ a.id < a.by /\ a.by < t
                      /\ At(a.id).type = "Decided" /\ At(a.by).type = "Endorsed"
                      /\ At(a.id).path = a.path /\ At(a.by).path = a.path
                      /\ At(a.id).variant = At(a.by).variant /\ At(a.id).variant # Abstained
                      /\ At(a.id).floor = Undefined \/ At(a.id).margin >= At(a.id).floor
    BY DEF AuthorizedActionsAreJustified, Rows
  <2>1. AuthorizedOK(t) /\ At(t) \in RowType /\ Tick \in Nat
    BY GateInvParts, RowTyped DEF RowOK
  <2>2. At(t).by < t
    <3>1. At(t).by \in Int /\ At(t).by < t - 1
      BY <2>1 DEF AuthorizedOK, VerdictHolds, RowType
    <3> QED
      BY <2>1, <3>1
  <2> QED
    BY <2>1, <2>2 DEF AuthorizedOK, VerdictHolds
<1> QED
  BY <1>1, Invariance, PTL

\* A decision by a principal rests on an attested ruling of the same path,
\* and a request is answered once (interp.ts principalRule, applyRuling).
THEOREM PrincipalsAreAttested == GateSpec => []RulingsAreAttested
<1>1. GateInv => RulingsAreAttested
  <2> SUFFICES ASSUME GateInv PROVE RulingsAreAttested
    OBVIOUS
  <2>1. ASSUME NEW t \in Rows("Decided"), At(t).principal # NoTick, At(t).variant # Abstained
        PROVE  LET r == At(At(t).principal) IN
               /\ r.type = "PrincipalDecision" /\ r.path = At(t).path
               /\ r.variant = At(t).variant /\ r.label \in {"verified", "unverified"}
    <3>1. t \in 0..(Tick - 1) /\ At(t).type = "Decided"
      BY DEF Rows
    <3>2. DecidedOK(t) /\ At(t) \in RowType /\ Tick \in Nat
      BY <3>1, GateInvParts, RowTyped DEF RowOK
    <3>3. PICK m \in Int : m = At(t).principal
      BY <3>2 DEF RowType
    <3>4. m \in 0..(At(t).id - 1) /\ RestsOn(m, At(t).path, At(t).variant) /\ At(t).id \in 0..t
      BY <2>1, <3>2, <3>3 DEF DecidedOK
    <3>5. At(m).type = "PrincipalDecision" /\ m \in 0..(Tick - 1)
      BY <2>1, <3>1, <3>2, <3>4 DEF RestsOn
    <3>6. RulingOK(m)
      BY <3>5, GateInvParts DEF RowOK, IsRuling
    <3> QED
      BY <2>1, <3>3, <3>4, <3>5, <3>6 DEF RestsOn, RulingOK
  <2>2. ASSUME NEW t \in Rows("PrincipalDecision") \cup Rows("FailedPrincipalDecision")
        PROVE  t \in 0..(Tick - 1) /\ IsRuling(t)
    BY DEF Rows, IsRuling
  <2>3. ASSUME NEW t \in Rows("PrincipalDecision") \cup Rows("FailedPrincipalDecision")
        PROVE  /\ At(At(t).id).type = "PendingPrincipalDecision"
               /\ At(At(t).id).path = At(t).path
    BY <2>2, GateInvParts DEF RowOK, RulingOK
  <2>4. AnsweredOnce
    BY GateInvParts DEF RowsInv
  <2> QED
    BY <2>1, <2>2, <2>3, <2>4 DEF RulingsAreAttested, AnsweredOnce
<1> QED
  BY <1>1, Invariance, PTL

\* The ledger is well formed, and a decision that names evidence is the one
\* its reference is bound to, until the evidence is deleted (interp.ts evalGate
\* binds before it appends).
THEOREM DecisionsAreExplained == GateSpec => []LedgerIsExplained
<1>1. GateInv => LedgerIsExplained
  <2> SUFFICES ASSUME GateInv PROVE TypeOK
    BY GateInvParts DEF LedgerIsExplained
  <2>1. GateTypes /\ StoreTypes
    BY GateInvParts
  <2>2. StoreTypeOK(0..MaxRows)
    BY <2>1 DEF StoreTypes, StoreTypeOK, Ids, CallType
  <2>3. DOMAIN Blank = {"type", "path", "id", "by", "variant", "rule", "ref", "principal",
                        "margin", "floor", "label"}
    BY DEF Blank
  <2>4. ASSUME NEW i \in DOMAIN ledger PROVE DOMAIN ledger[i] = DOMAIN Blank
    <3>1. ledger[i] \in RowType
      BY <2>1 DEF GateTypes
    <3> QED
      BY <2>3, <3>1 DEF RowType
  <2>5. DOMAIN Fresh = {"at", "scores", "rule", "id", "committed", "principal", "pending",
                        "ruling", "by", "decides"}
    BY DEF Fresh
  <2>6. ASSUME NEW p \in Paths PROVE DOMAIN path[p] = DOMAIN Fresh
    <3>1. path[p] \in WorkType
      BY <2>1 DEF GateTypes
    <3> QED
      BY <2>5, <3>1 DEF WorkType
  <2>7. chain \in Seq(Paths) /\ setup \in Setup
    BY <2>1, SlotAssumption DEF GateTypes
  <2> QED
    BY <2>2, <2>4, <2>6, <2>7 DEF TypeOK
<1> QED
  BY <1>1, Invariance, PTL

\* What the runtime authorizes Studio certifies from the rows alone, unless it
\* rests on a ruling that nobody verified, which Studio refuses
\* (runtime-session.ts validatedEndorsementCertificates).
THEOREM CertificatesAgree == GateSpec => []CertifiesWhatWasAttested
<1>1. GateInv => CertifiesWhatWasAttested
  <2> SUFFICES ASSUME GateInv, NEW t \in 0..(Tick - 1), At(t).type = "ActionAuthorized"
               PROVE  Certified(t) <=>
                        \/ At(At(t).id).principal = NoTick
                        \/ At(At(At(t).id).principal).label = "verified"
    BY DEF CertifiesWhatWasAttested, Rows
  <2>1. AuthorizedOK(t) /\ At(t) \in RowType /\ Tick \in Nat
    BY GateInvParts, RowTyped DEF RowOK
  <2>2. PICK d \in Int : d = At(t).id
    BY <2>1 DEF RowType
  <2>3. /\ IsTick(d) /\ At(d).type = "Decided" /\ At(d).id = d /\ At(d).variant # Abstained
        /\ ReceiptOf(t, t - 1) /\ VerdictHolds(t)
    BY <2>1, <2>2 DEF AuthorizedOK, VerdictHolds
  <2>4. d \in 0..(Tick - 1)
    BY <2>1, <2>3 DEF IsTick, Tick
  <2>5. DecidedOK(d) /\ At(d) \in RowType
    BY <2>3, <2>4, GateInvParts, RowTyped DEF RowOK
  <2>6. Certified(t) <=> RulingHolds(At(d))
    BY <2>2, <2>3 DEF Certified
  <2>7. CASE At(d).principal = NoTick
    BY <2>2, <2>6, <2>7 DEF RulingHolds
  <2>8. CASE At(d).principal # NoTick
    <3>1. PICK m \in Int : m = At(d).principal
      BY <2>5 DEF RowType
    <3>2. m \in 0..(d - 1) /\ RestsOn(m, At(d).path, At(d).variant)
      BY <2>3, <2>5, <2>8, <3>1 DEF DecidedOK
    <3>3. m \in 0..(Tick - 1) /\ At(m).type = "PrincipalDecision"
          /\ At(m).variant = At(d).variant /\ m < d /\ IsTick(m)
      BY <2>1, <2>3, <2>4, <3>2 DEF RestsOn, IsTick, Tick
    <3>4. RulingOK(m) /\ At(m) \in RowType
      BY <3>3, GateInvParts, RowTyped DEF RowOK, IsRuling
    <3>5. PICK q \in Int : q = At(m).id
      BY <3>4 DEF RowType
    <3>6. q \in 0..(m - 1) /\ At(q).type = "PendingPrincipalDecision"
      BY <3>4, <3>5 DEF RulingOK
    <3>7. q \in 0..(Tick - 1) /\ IsTick(q) /\ q < m
      BY <2>1, <3>3, <3>6 DEF IsTick, Tick
    <3>8. At(q).id = q
      BY <3>6, <3>7, GateInvParts DEF RowOK
    <3>9. RulingHolds(At(d)) <=> At(m).label = "verified"
      BY <2>3, <2>8, <3>1, <3>3, <3>5, <3>6, <3>7, <3>8 DEF RulingHolds, AttestedRuling
    <3> QED
      BY <2>2, <2>6, <2>8, <3>1, <3>9
  <2> QED
    BY <2>7, <2>8
<1> QED
  BY <1>1, Invariance, PTL

\* The store keeps its word under overlapping calls, deletions, failures and
\* crashes: an answer is true when it is given, nothing deleted stays behind
\* for good, and what evidence is bound to does not change
\* (protected_evidence.ts retain, bindDecision, delete, reconcileDeletions).
THEOREM StoreIsTrue == GateSpec => StoreKeepsItsWord
<1>1. GateInv /\ [GateNext]_vars =>
         [\A c \in Calls :
            (Running(c) /\ answer'[c] = "ok" /\ call[c].op # "delete") =>
               /\ call[c].ref \in evidence
               /\ call[c].op # "retain" => binding[call[c].ref] = call[c].id]_storeVars
  <2> SUFFICES ASSUME GateInv, [GateNext]_vars PROVE AnswerStep
    BY DEF AnswerStep
  <2> QED
    BY StepKeeps, StoreKeeps, GateInvParts
<1>2. GateInv /\ [GateNext]_vars =>
         [\A r \in Refs : binding[r] # NoId =>
            binding'[r] = binding[r] \/ (binding'[r] = NoId /\ r \in deleted)]_storeVars
  <2> SUFFICES ASSUME GateInv, [GateNext]_vars PROVE FilesKept
    BY DEF FilesKept
  <2> QED
    BY StepKeeps, StoreKeeps, GateInvParts
<1>3. GateInv => ResidueIsTransient
  <2> SUFFICES ASSUME GateInv, NEW r \in deleted, Residue(r), r \notin lost
               PROVE  \E c \in Calls : WillRemove(c, r)
    BY DEF ResidueIsTransient
  <2>1. r \in Refs /\ ResidueOK(r)
    BY GateInvParts DEF StoreInv, StoreTypes
  <2> QED
    BY <2>1 DEF ResidueOK, Residue, RemovesEvidence
<1>4. GateSpec => AnswersAreCurrent
  BY <1>1, Invariance, PTL DEF GateSpec, AnswersAreCurrent
<1>5. GateSpec => BoundOnce
  BY <1>2, Invariance, PTL DEF GateSpec, BoundOnce
<1>6. GateSpec => []ResidueIsTransient
  BY <1>3, Invariance, PTL
<1> QED
  BY <1>4, <1>5, <1>6, PTL DEF StoreKeepsItsWord

=============================================================================
