----------------------------- MODULE Evaluation -----------------------------
(***************************************************************************)
(* The evaluator of src/agape-ts/src/interp.ts: expressions, statements,   *)
(* agents, subscriptions, sends, gates and performs, run in program order. *)
(* A machine `m` has the heap of scopes, the instances, the armed          *)
(* subscriptions, the ledger and the fault that unwinds, "none" when it    *)
(* runs.  What the world answers, a model, a principal or a tool, is the   *)
(* head of m.oracle.  `why`, `at` and `skipped` only observe.              *)
(* Deliveries of tasks and the concurrency of a pipe have modules of their *)
(* own (TaskRuntime, FanOut).                                              *)
(***************************************************************************)
EXTENDS Values, CheckerScans

CONSTANT MaxDepth \* nested firings of subscriptions; 64 in the code

Machine == [heap |-> <<Frame(0, "")>>, inst |-> <<>>, subs |-> <<>>, ledger |-> <<>>, oracle |-> <<>>, fault |-> "none",
            why |-> "", at |-> <<>>, skipped |-> FALSE, next |-> 1, depth |-> 0, expired |-> {}]
Row(e, of, by) == [e |-> e, of |-> of, by |-> by, outcome |-> "", origins |-> {}]
Add(row, m) == [m EXCEPT !.ledger = Append(@, row)]
Fault(class, why, m) == [m EXCEPT !.fault = class, !.why = why]
Crashed(m) == m.fault \in {"Crash", "TypeMismatch"}
Recovered(m) == [m EXCEPT !.fault = "none", !.why = ""]
Answer(m) == IF m.oracle = <<>> THEN "no" ELSE Head(m.oracle)
Asked(m) == [m EXCEPT !.oracle = IF @ = <<>> THEN <<>> ELSE Tail(@)]

Res(m, v) == [m |-> m, v |-> v]
Throws(class, why, m) == Res(Fault(class, why, m), Null)
Fresh(v, m) == Res([m EXCEPT !.next = @ + 1], [v EXCEPT !.id = m.next])
Then(r, Op(_)) == IF r.m.fault # "none" THEN r ELSE Op(r)
NewScope0(parent, agent, m) == [m EXCEPT !.heap = Append(@, Frame(parent, agent))]
Newest(m) == Len(m.heap)
SubjectOf(s, m) == LET a == currentAgent(s, m.heap) IN IF a = "" THEN "<top>" ELSE a

RECURSIVE evalExpr(_, _, _, _, _), execStmt(_, _, _, _), fireSubscriptions(_, _, _, _, _, _)

EvalAll(es, s, m, cx) ==
  FoldLeft(LAMBDA acc, e : IF acc.m.fault # "none" THEN acc
                           ELSE LET r == evalExpr(e, s, NoType, acc.m, cx) IN [m |-> r.m, vs |-> Append(acc.vs, r.v)],
           [m |-> m, vs |-> <<>>], es)
WithParts(e, s, m, cx, Op(_, _)) ==
  LET all == EvalAll(e.subs, s, m, cx) IN IF all.m.fault # "none" THEN Res(all.m, Null) ELSE Op(all.vs, all.m)

-----------------------------------------------------------------------------
(***************************************************************************)
(* Blocks.  Their handlers are armed for as long as the block runs.        *)
(***************************************************************************)
registerScopeWhens(stmts, s, agent, owner, m) ==
  LET whens == SelectSeq(stmts, LAMBDA st : st.k = "when")
  IN  [m EXCEPT !.subs = @ \o [i \in DOMAIN whens |-> [when |-> whens[i], scope |-> s, agent |-> agent, owner |-> owner]]]
DropsOwned(owner, subs) == SelectSeq(subs, LAMBDA sub : sub.owner # owner)
KeepsAll(owner, subs) == subs \* mutant
unregisterScopeWhens(owner, subs) == DropsOwned(owner, subs)
Run(stmts, s, m, cx) == FoldLeft(LAMBDA acc, st : IF acc.fault # "none" THEN acc ELSE execStmt(st, s, acc, cx), m, stmts)
Block(stmts, s, agent, m, Body(_)) ==
  IF ~\E st \in Range1(stmts) : st.k = "when" THEN Body(m)
  ELSE LET owner == m.next
           after == Body(registerScopeWhens(stmts, s, agent, owner, [m EXCEPT !.next = @ + 1]))
       IN  [after EXCEPT !.subs = unregisterScopeWhens(owner, @)]
execBody(stmts, s, m, cx) == Block(stmts, s, currentAgent(s, m.heap), m, LAMBDA n : Run(stmts, s, n, cx))
InChild(stmts, s, name, v, m, cx) ==
  LET inner == NewScope0(s, "", m)
  IN  execBody(stmts, Newest(inner), IF name = "" THEN inner ELSE setVar(name, v, Newest(inner), inner), cx)

\* Only a return that is a statement of the body itself ends a call.
callFn(name, args, s, m, cx) ==
  LET fn == cx.d[<<"fn", name>>]
      start == NewScope0(0, currentAgent(s, m.heap), m)
      local == Newest(start)
      bound == FoldLeft(LAMBDA acc, i : setVar(fn.params[i].name, args[i], local, acc), start,
                        [i \in 1..Min({Len(fn.params), Len(args)}) |-> i])
      returns == {i \in DOMAIN fn.body : fn.body[i].k = "return"}
      stop == IF returns = {} THEN Len(fn.body) + 1 ELSE Min(returns)
      ran == Block(fn.body, local, currentAgent(local, bound.heap), bound, LAMBDA n :
               LET before == Run(SubSeq(fn.body, 1, stop - 1), local, n, cx)
               IN  IF before.fault # "none" \/ returns = {} \/ fn.body[stop].exprs = <<>>
                   THEN setVar("<ret>", Null, local, before)
                   ELSE LET r == evalExpr(fn.body[stop].exprs[1], local, NoType, before, cx) IN setVar("<ret>", r.v, local, r.m))
  IN  Res(ran, privateDerived(ran.heap[local].vars["<ret>"], args))
evalPipe(e, s, m, cx) ==
  Then(evalExpr(e.subs[1], s, NoType, m, cx), LAMBDA src :
    IF src.v.k # "array" \/ e.subs[2].k # "ident" THEN Throws("Runtime", "", src.m)
    ELSE LET all == FoldLeft(LAMBDA acc, x : IF acc.m.fault # "none" THEN acc
                               ELSE LET r == callFn(e.subs[2].name, <<x>>, s, acc.m, cx) IN [m |-> r.m, vs |-> Append(acc.vs, r.v)],
                             [m |-> src.m, vs |-> <<>>], src.v.items)
         IN  Fresh([privateDerived(Derived("array", all.vs, trustJoin(all.vs)), <<src.v>>) EXCEPT !.items = all.vs], all.m))

-----------------------------------------------------------------------------
(* Members, operators and fusions. *)
CertifiedField(f, o) == IF containsPrivateMemory(o) \/ o.auth THEN settledEndorsedValue(f, o.auth /\ ~containsPrivateMemory(o)) ELSE f
FieldOf(v, name) == v.items[CHOOSE i \in DOMAIN v.labels : v.labels[i] = name]
Metadata == {"basis", "margin", "decision_id", "principal_event", "principal_request"}
evalMember(e, s, m, cx) ==
  Then(evalExpr(e.subs[1], s, NoType, m, cx), LAMBDA r :
    LET o == r.v
    IN  IF o.k = "struct" /\ e.name \in Range1(o.labels) THEN Res(r.m, CertifiedField(FieldOf(o, e.name), o))
        ELSE IF o.k \in {"decision", "endorsement"} /\ e.name = "committed" THEN Fresh(EnumVal(o.outcome), r.m)
        ELSE IF o.k \in {"decision", "endorsement"} /\ e.name \in Metadata THEN Fresh(Value("float", "settled"), r.m)
        ELSE IF o.k = "endorsement" /\ e.name = "subject"
        THEN Res(r.m, IF o.narrowed THEN settledEndorsedValue(o.items[1], TRUE) ELSE o.items[1])
        ELSE IF o.k = "endorsement" /\ o.items[1].k = "struct" /\ e.name \in Range1(o.items[1].labels)
        THEN LET f == FieldOf(o.items[1], e.name)
             IN  Res(r.m, IF containsPrivateMemory(o.items[1]) THEN settledEndorsedValue(f, FALSE)
                          ELSE IF o.narrowed THEN settledEndorsedValue(f, TRUE) ELSE f)
        ELSE Throws("Runtime", "", r.m))

\* The outcome of an ordering is a choice: numbers have no magnitude here.
evalBinary(e, s, m, cx) ==
  WithParts(e, s, m, cx, LAMBDA vs, n :
    CASE e.name = "==" -> Fresh([Measured("bool", vs) EXCEPT !.name = BoolVal(eq(vs[1], vs[2])).name], n)
      [] e.name = "!=" -> Fresh([Measured("bool", vs) EXCEPT !.name = BoolVal(~eq(vs[1], vs[2])).name], n)
      [] e.name \in {"<", ">", "<=", ">="} -> Fresh([Measured("bool", vs) EXCEPT !.name = BoolVal(Answer(n) = "yes").name], Asked(n))
      [] e.name = "&&" -> Fresh([Measured("bool", vs) EXCEPT !.name = BoolVal(vs[1].name = "true" /\ vs[2].name = "true").name], n)
      [] e.name = "||" -> Fresh([Measured("bool", vs) EXCEPT !.name = BoolVal("true" \in {vs[1].name, vs[2].name}).name], n)
      [] e.name = "+" /\ vs[1].k = "array" /\ vs[2].k = "array" ->
           Fresh([Derived("array", vs, trustJoin(vs)) EXCEPT !.items = vs[1].items \o vs[2].items], n)
      [] OTHER -> Fresh(Derived(IF e.name = "+" /\ "text" \in {vs[1].k, vs[2].k} THEN "text" ELSE "float", vs, trustJoin(vs)), n))

FlatOperands(e, vs) ==
  FlattenSeq([i \in DOMAIN vs |->
    IF vs[i].k = "array" THEN [j \in DOMAIN vs[i].items |-> [v |-> vs[i].items[j], name |-> CoverName(e.subs[i], j)]]
    ELSE <<[v |-> vs[i], name |-> CoverName(e.subs[i], 1)]>>])
credenceOfP(creds, outcome) ==
  [Derived("credence", creds, "graded") EXCEPT !.name = IF creds = <<>> THEN "bool" ELSE creds[1].name, !.outcome = outcome,
     !.from = {c.id : c \in Range1(creds)}, !.about = UNION {c.about : c \in Range1(creds)}]
\* The fused score is a choice among those the units can give.
evalAgg(e, s, m, cx) ==
  WithParts(e, s, m, cx, LAMBDA vs, n :
    LET flat == FlatOperands(e, vs)
        vals == [i \in DOMAIN flat |-> flat[i].v]
        fused == SelectSeq(flat, LAMBDA f : f.v.k = "credence")
        creds == [i \in DOMAIN fused |-> fused[i].v]
        names == [i \in DOMAIN fused |-> fused[i].name]
        groups == allDepGroups(s, n.heap)
        holds == IF e.name = "all" THEN \A v \in Range1(vals) : v.name = "true" ELSE \E v \in Range1(vals) : v.name = "true"
        outcome == IF Len(creds) = 1 THEN creds[1].outcome ELSE IF Answer(n) \in {"yes", "no"} THEN Answer(n) ELSE "abstained"
    IN  IF e.k = "agg" /\ vals # <<>> /\ \A v \in Range1(vals) : v.k = "bool"
        THEN Fresh([Derived("bool", vals, trustJoin(vals)) EXCEPT !.name = BoolVal(holds).name], n)
        ELSE IF ~checkFusionCoverageRuntime(names, groups) THEN [Throws("TypeError", "uncovered", n) EXCEPT !.m.at = e.subs]
        ELSE Fresh(privateDerived(credenceOfP(creds, outcome), vals),
                   IF Len(creds) = 1 THEN n ELSE Asked(n)))

-----------------------------------------------------------------------------
(***************************************************************************)
(* Gates.  A decide commits what its credence was resolved to; when that   *)
(* abstains, or when the principal is the rule, the principal is asked.    *)
(***************************************************************************)
ByForm(e, d) == e.rule.r = "policy" /\ Has(d, "principal", e.rule.name) /\ e.name = ""
Consults(e, cred, d) == ByForm(e, d) \/ (cred.outcome = "abstained" /\ e.name # "")
Ruling(cred, m, d) == IF Answer(m) \in Range1(Variants(d, cred.name)) THEN Answer(m) ELSE "abstained"
evalDecide(e, s, m, cx) ==
  Then(evalExpr(e.subs[1], s, NoType, m, cx), LAMBDA r :
    LET asks == Consults(e, r.v, cx.d)
        outcome == IF asks THEN Ruling(r.v, r.m, cx.d) ELSE r.v.outcome
        of == IF e.subs[1].k = "ident" THEN e.subs[1].name ELSE SubjectOf(s, r.m)
        decided == Add([Row("Decided", of, currentAgent(s, r.m.heap)) EXCEPT !.outcome = outcome], IF asks THEN Asked(r.m) ELSE r.m)
        told == IF r.v.name = "Entailment" /\ outcome = "Contradicts"
                THEN fireSubscriptions("Contradiction", of, <<>>, <<>>,
                       Add(Row("Contradiction", of, currentAgent(s, r.m.heap)), decided), cx)
                ELSE decided
    IN  IF r.v.k # "credence" THEN Throws("Runtime", "", r.m)
        ELSE IF told.fault # "none" THEN Res(told, Null)
        ELSE Fresh([Measured("decision", <<r.v>>) EXCEPT !.name = r.v.name, !.outcome = outcome, !.source = r.v.id,
                      !.from = r.v.from, !.about = r.v.about], told))

\* What a decision is about: the credence it collapsed, or what fed its prompt.
IsExactSubject(dec, subject) == dec.source = subject.id \/ subject.id \in dec.from
AnySubject(dec, subject) == TRUE \* mutant
decisionIsAbout(dec, subject) == IsExactSubject(dec, subject)
RECURSIVE Released(_, _)
Released(v, about) == [v EXCEPT !.origins = @ \ about, !.items = [i \in DOMAIN v.items |-> Released(v.items[i], about)]]
evalEndorse(e, s, m, cx) ==
  WithParts(e, s, m, cx, LAMBDA vs, n :
    LET subject == vs[1]
        dec == vs[2]
        endorsed == Released(subject, dec.about)
    IN  CASE dec.k # "decision" -> Throws("Runtime", "", n)
          [] dec.k = "decision" /\ subject.trust # "settled" /\ ~decisionIsAbout(dec, subject) -> Throws("TaintViolation", "unrelated", n)
          [] dec.k = "decision" /\ (subject.trust = "settled" \/ decisionIsAbout(dec, subject)) /\ dec.outcome = "abstained" ->
               Throws("TaintViolation", "abstained", n)
          [] OTHER -> Fresh([Derived("endorsement", <<subject, dec>>, "settled") EXCEPT !.name = dec.name, !.outcome = dec.outcome,
                               !.narrowed = TRUE, !.auth = TRUE, !.items = <<endorsed>>, !.origins = endorsed.origins],
                            Add([Row("Endorsed", IF e.subs[1].k = "ident" THEN e.subs[1].name ELSE "", currentAgent(s, n.heap))
                                   EXCEPT !.origins = endorsed.origins], n)))

narrow(v, committed) == IF v.k = "endorsement" THEN [v EXCEPT !.narrowed = committed] ELSE v
CommittedName(e) == IF e.k = "member" /\ e.name = "committed" /\ e.subs[1].k = "ident" THEN e.subs[1].name ELSE ""
committedNarrowingOf(cond, s, m) ==
  LET left == CommittedName(cond.subs[1])
      name == IF left # "" THEN left ELSE CommittedName(cond.subs[2])
      other == IF left # "" THEN cond.subs[2] ELSE cond.subs[1]
  IN  IF cond.k # "binary" \/ cond.name # "==" THEN ""
      ELSE IF name = "" \/ other.k \notin {"ident", "bool"} \/ other.name = "abstained" THEN ""
      ELSE IF get(name, s, m.heap, m.inst).k \in {"endorsement", "decision"} THEN name ELSE ""
execIf(st, s, m, cx) ==
  LET c == evalExpr(st.exprs[1], s, NoType, m, cx)
      taken == c.v.name = "true"
      name == IF taken THEN committedNarrowingOf(st.exprs[1], s, c.m) ELSE ""
      v == IF name = "" THEN Null ELSE narrow(get(name, s, c.m.heap, c.m.inst), TRUE)
  IN  IF c.m.fault # "none" THEN c.m ELSE IF c.v.k # "bool" THEN Fault("TypeError", "", c.m)
      ELSE InChild(st.blocks[IF taken THEN 1 ELSE 2], s, name, v, c.m, cx)
execDispatch(st, s, m, cx) ==
  LET g == evalExpr(st.exprs[1], s, NoType, m, cx)
      arm == {j \in DOMAIN st.heads : st.heads[j] = g.v.outcome}
      abstain == {j \in DOMAIN st.heads : st.heads[j] = "abstain"}
      Arm(j, committed) == InChild(st.blocks[j], s, IF st.labels = <<>> THEN "" ELSE st.labels[j], narrow(g.v, committed), g.m, cx)
  IN  IF g.m.fault # "none" THEN g.m
      ELSE IF g.v.outcome # "abstained" /\ arm # {} THEN Arm(Min(arm), TRUE)
      ELSE IF abstain # {} THEN Arm(Min(abstain), FALSE)
      ELSE IF g.v.outcome = "abstained" THEN g.m ELSE Fault("Runtime", "", g.m)

-----------------------------------------------------------------------------
(***************************************************************************)
(* Events and subscriptions.                                               *)
(***************************************************************************)
AboutMatches(when, subject) == when.about \in {"", subject}
\* The guard of a handler is evaluated with its event bound; the body runs when it holds.
Guarded(sub, etype, subject, labels, items, m, cx) ==
  LET scoped == NewScope0(sub.scope, sub.agent, m)
      event == [Derived("struct", items, "graded") EXCEPT !.name = etype, !.labels = labels, !.items = items]
      bound == IF sub.when.labels[1] = "" THEN scoped ELSE setVar(sub.when.labels[1], event, Newest(scoped), scoped)
  IN  IF sub.when.exprs = <<>> THEN Res(bound, BoolVal(TRUE)) ELSE evalExpr(sub.when.exprs[1], Newest(scoped), NoType, bound, cx)
Holds(v) == v.k = "bool" /\ v.name = "true"
runHook(agent, event, m, cx) ==
  LET decl == cx.d[<<"agent", m.inst[agent].type>>]
      hooks == {i \in DOMAIN decl.on : decl.on[i] = event}
      scoped == NewScope0(0, agent, m)
  IN  IF hooks = {} THEN m ELSE execBody(decl.hooks[Min(hooks)], Newest(scoped), scoped, cx)
\* A crash is contained to the reaction; every other error goes on.
Contained(agent, m, cx) ==
  IF ~Crashed(m) THEN m
  ELSE IF agent = "" THEN Recovered(m)
  ELSE runHook(agent, "crash", Add(Row("AgentCrashed", agent, agent), Recovered(m)), cx)
fireSubscriptions(etype, subject, labels, items, m, cx) ==
  IF m.depth > MaxDepth THEN m
  ELSE LET Fires(sub) == eventMatches(etype, sub.when.name, cx.d) /\ AboutMatches(sub.when, subject)
           Fire(acc, sub) ==
             IF acc.fault # "none" \/ ~Fires(sub) THEN acc
             ELSE LET guard == Guarded(sub, etype, subject, labels, items, acc, cx)
                  IN  IF guard.m.fault # "none" \/ ~Holds(guard.v) THEN guard.m
                      ELSE Contained(sub.agent, execBody(sub.when.blocks[1], Len(acc.heap) + 1, guard.m, cx), cx)
           fired == FoldLeft(Fire, [m EXCEPT !.depth = @ + 1], m.subs)
       IN  [fired EXCEPT !.depth = m.depth]

FieldNames(etype, d) == IF Has(d, "event", etype) THEN LET fs == d[<<"event", etype>>].fields IN [i \in DOMAIN fs |-> fs[i].name] ELSE <<>>
ingressForEvent(name, cx) == name \notin cx.manifest.screened
WiringOf(k, name, cx) == {w \in cx.manifest.wiring : w.k = k /\ w.name = name}
\* A tool without an adapter is a fault of the configuration.  Whatever fails with private
\* arguments is a crash, whose reason is protected.
effectorResult(w, m) == IF ~w.adapter THEN "ConfigError" ELSE IF Answer(m) = "fail" THEN "Runtime" ELSE "none"
invokeWired(w, args, by, m) ==
  LET started == Asked(Add(Row("ToolStarted", w.name, by), m))
      fault == effectorResult(w, m)
  IN  IF fault = "none" THEN Add(Row("ToolResolved", w.name, by), started)
      ELSE Fault(IF \E v \in Range1(args) : containsPrivateMemory(v) THEN "Crash" ELSE fault, "tool", started)
\* The reply of a tool lands as an event, with the trust of what was asked.
landResultEvent(event, args, trust, subject, by, m, cx) ==
  LET names == FieldNames(event, cx.d)
      field == withIngress(withTrust(Derived("text", args, trust), trust, FALSE), ingressForEvent(event, cx))
      items == [i \in DOMAIN names |-> [field EXCEPT !.id = m.next + i]]
      landed == fireSubscriptions(event, subject, names, items,
                  Add([Row(event, subject, by) EXCEPT !.origins = field.origins], [m EXCEPT !.next = @ + Len(names) + 1]), cx)
  IN  IF ~Has(cx.d, "event", event) THEN Throws("ConfigError", "", m)
      ELSE IF Len(names) = 1 THEN Res(landed, items[1])
      ELSE Res(landed, [Derived("struct", items, trust) EXCEPT !.labels = names, !.items = items, !.id = m.next])
Wired(k, name, args, trust, subject, by, m, cx) ==
  LET wiring == WiringOf(k, name, cx)
      w == CHOOSE x \in wiring : TRUE
      asked == IF wiring # {} /\ w.tool THEN invokeWired(w, args, by, m) ELSE m
  IN  IF wiring = {} \/ asked.fault # "none" \/ w.result = "" THEN Res(asked, Null)
      ELSE landResultEvent(w.result, args, trust, subject, by, asked, cx)

emit(st, s, m, cx) ==
  LET args == EvalAll(st.exprs, s, m, cx)
      by == currentAgent(s, m.heap)
      row == Add([Row(st.name, SubjectOf(s, m), by) EXCEPT !.origins = UNION {v.origins : v \in Range1(args.vs)}], args.m)
      rows == IF Has(cx.d, "event", st.name) /\ cx.d[<<"event", st.name>>].super = "Error" THEN Add(Row("Error", SubjectOf(s, m), by), row) ELSE row
      names == FieldNames(st.name, cx.d)
      given == Min({Len(names), Len(args.vs)})
      fired == fireSubscriptions(st.name, SubjectOf(s, m), SubSeq(names, 1, given), SubSeq(args.vs, 1, given), rows, cx)
  IN  IF ~(Has(cx.d, "event", st.name) \/ st.name \in {"Event", "Error"}) THEN Fault("TypeError", "", m)
      ELSE IF args.m.fault # "none" THEN args.m ELSE IF fired.fault # "none" THEN fired
      ELSE Wired("event", st.name, args.vs, trustJoin(args.vs), SubjectOf(s, m), by, fired, cx).m

-----------------------------------------------------------------------------
(***************************************************************************)
(* Performs: granted, every argument admitted by the sink, then the row.   *)
(***************************************************************************)
RuntimeGrant(cap, names, s, m, cx) ==
  LET agent == currentAgent(s, m.heap)
      grants == cx.d[<<"agent", m.inst[agent].type>>].grants
  IN  agent # "" /\ (grants = AllGrants \/ \E n \in names : <<cap, n>> \in grants)
preparePerformArguments(es, s, m, cx) ==
  FoldLeft(LAMBDA acc, e :
             IF acc.m.fault # "none" THEN acc
             ELSE LET r == evalExpr(e, s, NoType, acc.m, cx)
                  IN  IF r.m.fault # "none" THEN [m |-> r.m, vs |-> <<>>]
                      ELSE IF r.v.private /\ ~r.v.auth THEN [m |-> Fault("Crash", "private", r.m), vs |-> <<>>]
                      ELSE IF ~sinkValue(r.v) THEN [m |-> Fault("TaintViolation", "sink", [r.m EXCEPT !.at = es]), vs |-> <<>>]
                      ELSE [m |-> r.m, vs |-> Append(acc.vs, Sunk(r.v))],
           [m |-> m, vs |-> <<>>], es)
appendAuthorizedAction(name, args, s, m) ==
  Add([Row(name, SubjectOf(s, m), currentAgent(s, m.heap)) EXCEPT !.origins = UNION {v.origins : v \in Range1(args)}], m)
Performed(name, es, s, m, cx) ==
  LET prepared == preparePerformArguments(es, s, m, cx)
  IN  IF ~Has(cx.d, "action", name) THEN Throws("TypeError", "", m)
      ELSE IF ~RuntimeGrant("perform", {name}, s, m, cx) THEN Throws("AuthorityViolation", "perform", m)
      ELSE IF prepared.m.fault # "none" THEN Res(prepared.m, Null)
      ELSE Wired("action", name, prepared.vs, "settled", SubjectOf(s, m), currentAgent(s, m.heap),
                 appendAuthorizedAction(name, prepared.vs, s, prepared.m), cx)
evalPerformExpr(e, s, m, cx) ==
  IF e.opt = <<>> THEN Throws("TypeError", "", m)
  ELSE Then(evalExpr(e.opt[1], s, NoType, m, cx), LAMBDA life :
         IF life.v.k \notin {"int", "float"} THEN Throws("TypeError", "", life.m)
         ELSE IF life.v.trust # "settled" THEN Throws("TaintViolation", "expires", life.m)
         ELSE IF ~\E w \in WiringOf("action", e.name, cx) : w.result # "" THEN Throws("ConfigError", "", life.m)
         ELSE Performed(e.name, e.subs, s, life.m, cx))

-----------------------------------------------------------------------------
(***************************************************************************)
(* Sends, recalls and queries.                                             *)
(***************************************************************************)
RECURSIVE promptSources(_, _, _)
promptSources(e, s, m) ==
  IF e.k = "ident" THEN (LET v == get(e.name, s, m.heap, m.inst) IN IF v.k = "undefined" THEN <<>> ELSE <<v>>)
  ELSE IF e.k \in {"member", "binary", "unary", "fstring"} THEN FlattenSeq([i \in DOMAIN e.subs |-> promptSources(e.subs[i], s, m)])
  ELSE IF e.k = "call" THEN FlattenSeq([i \in 1..(Len(e.subs) - 1) |-> promptSources(e.subs[i + 1], s, m)]) ELSE <<>>
assertReach(dest, s, m, cx) ==
  LET type == m.inst[dest].type
  IN  dest = currentAgent(s, m.heap) \/ RuntimeGrant("reach", {type} \cup Range1(cx.d[<<"agent", type>>].ifaces), s, m, cx)
variantsOf(enum, d) == Range1(Variants(d, enum))
\* The enum a bare variant belongs to: the expected one first, "" for none.
enumOfVariant(name, expected, d) ==
  LET enums == {key[2] : key \in {k \in DOMAIN d : k[1] = "enum"}} \cup {"Basis", "Entailment"}
      owners == {enum \in enums : name \in variantsOf(enum, d)}
  IN  IF expected.k \in {"named", "credence"} /\ name \in variantsOf(expected.name, d) THEN expected.name
      ELSE IF owners = {} THEN "" ELSE CHOOSE enum \in owners : TRUE
RECURSIVE HasSchema(_, _)
HasSchema(t, d) ==
  \/ t.k = "scalar"
  \/ t.k = "array" /\ HasSchema(t.args[1], d)
  \/ t.k = "named" /\ (IsEnum(d, t.name) \/ (Has(d, "struct", t.name) /\ \A f \in Range1(d[<<"struct", t.name>>].fields) : HasSchema(f.type, d)))
RECURSIVE valueFromStructured(_, _, _, _)
valueFromStructured(t, answer, like, d) ==
  CASE t.k = "scalar" -> [like EXCEPT !.k = t.name, !.name = answer]
    [] t.k = "array" -> [like EXCEPT !.k = "array", !.items = <<valueFromStructured(t.args[1], answer, like, d)>>]
    [] t.k = "named" /\ IsEnum(d, t.name) -> [like EXCEPT !.k = "enumval", !.name = answer]
    [] OTHER -> LET fs == d[<<"struct", t.name>>].fields
                IN  [like EXCEPT !.k = "struct", !.name = t.name, !.labels = [i \in DOMAIN fs |-> fs[i].name],
                                 !.items = [i \in DOMAIN fs |-> [valueFromStructured(fs[i].type, answer, like, d) EXCEPT !.id = like.id + i]]]

\* Under the policy `deny` no unscreened input reaches the provider; `warn` lets it pass.
checkProviderIngress(prompt, cx) == prompt.ingress /\ cx.manifest.ingress = "deny"
\* What the provider answers: a fault, a credence, a typed or a plain reply.
Resolve(expected, subject, message, sources, s, m, cx) ==
  LET by == currentAgent(s, m.heap)
      asked == Asked(m)
      answer == Answer(m)
      own == m.next
      like == [privateDerived(Value("text", "raw"), <<message>> \o sources) EXCEPT !.origins = {own} \cup message.origins, !.id = own]
      resolved == Add(Row("Resolved", subject, by), [asked EXCEPT !.next = @ + 4])
      variants == variantsOf(expected.name, cx.d)
  IN  IF answer = "fail" THEN Throws("Crash", "provider", asked)
      ELSE IF expected.k = "credence"
      THEN Res(resolved, [like EXCEPT !.k = "credence", !.trust = "graded", !.name = expected.name,
                            !.outcome = IF answer \in variants THEN answer ELSE "abstained",
                            !.ingress = \E v \in Range1(sources) : v.ingress,
                            !.from = {v.id : v \in Range1(sources)}, !.about = {own} \cup message.origins])
      ELSE IF expected # NoType /\ HasSchema(expected, cx.d)
      THEN IF answer = "mismatch" THEN Throws("TypeMismatch", "reply", Add(Row("TypeMismatch", subject, by), asked))
           ELSE Res(resolved, valueFromStructured(expected, answer, like, cx.d))
      ELSE Res(resolved, [like EXCEPT !.name = answer])
toAgent(e, dest, bind, s, expected, m, cx) ==
  LET by == currentAgent(s, m.heap)
      message == evalExpr(e.subs[2], s, NoType, m, cx)
      subject == IF bind = "" THEN dest ELSE bind
      sent == Add(Row("Sent", subject, by), message.m)
      delivered == Add(Row("Delivered", subject, by), sent)
  IN  IF ~assertReach(dest, s, m, cx) THEN Throws("AuthorityViolation", "reach", m)
      ELSE IF message.m.fault # "none" THEN message
      ELSE IF ~sent.inst[dest].awake /\ dest # by
      THEN Fresh(Value("text", "raw"), IF e.opt = <<>> THEN sent
                                       ELSE [Add(Row("Expired", subject, by), sent) EXCEPT !.expired = @ \cup {[dest |-> dest, of |-> subject]}])
      ELSE IF checkProviderIngress(message.v, cx) THEN Throws("TaintViolation", "ingress", delivered)
      ELSE Resolve(expected, subject, message.v, promptSources(e.subs[2], s, m), s, delivered, cx)
toMemory(e, region, s, m, cx) ==
  Then(evalExpr(e.subs[2], s, NoType, m, cx), LAMBDA r :
    LET by == currentAgent(s, m.heap)
    IN  Fresh([Value("struct", "settled") EXCEPT !.labels = <<"input">>, !.items = <<r.v>>],
              Add(Row("Internalized", region, by), [r.m EXCEPT !.inst[by].mems[region] = Append(@, r.v)])))
evalSend(e, s, expected, bind, m, cx) ==
  Then(evalExpr(e.subs[1], s, NoType, m, cx), LAMBDA dest :
    IF dest.v.k = "memref" THEN toMemory(e, dest.v.name, s, dest.m, cx)
    ELSE IF dest.v.k # "agentref" THEN Throws("TypeError", "address", dest.m)
    ELSE toAgent(e, dest.v.name, bind, s, expected, dest.m, cx))

\* Every element comes back raw and private, with fresh identities.
evalRecall(e, s, m, cx) ==
  LET by == currentAgent(s, m.heap)
      region == e.subs[1].name
      query == evalExpr(e.subs[2], s, NoType, m, cx)
      cells == query.m.inst[by].mems[region]
      Hit(i) == [withTrust(cells[i], "raw", TRUE) EXCEPT !.id = query.m.next + i]
      hits == [i \in DOMAIN cells |-> Hit(i)]
  IN  IF e.subs[1].k # "ident" \/ by = "" THEN Throws("TypeError", "", m)
      ELSE IF region \notin DOMAIN m.inst[by].mems THEN Throws("TypeError", "", m)
      ELSE IF query.m.fault # "none" THEN query
      ELSE Res([Add(Row("MemoryConsulted", region, by), query.m) EXCEPT !.next = @ + Len(cells) + 1],
               [Derived("array", hits, "raw") EXCEPT !.items = hits, !.private = TRUE, !.id = query.m.next])

\* A query has no rows to give; its trust is that of the events it asks for.
ledgerReadTrust(wanted, m) ==
  LET rows == {r \in Range1(m.ledger) : wanted \in {"", r.e}}
  IN  IF rows # {} /\ \A r \in rows : r.e = "Endorsed" THEN "settled" ELSE "graded"
evalQuery(e, m) == Fresh(Value("array", ledgerReadTrust(e.name, m)), m)

-----------------------------------------------------------------------------
(***************************************************************************)
(* Agents.                                                                 *)
(***************************************************************************)
memoryDeclsOf(a, d) == (IF Has(d, "agent", a.extends) THEN d[<<"agent", a.extends>>].mems ELSE <<>>) \o a.mems
ctorOf(a, d) == (IF Has(d, "agent", a.extends) THEN d[<<"agent", a.extends>>].ctor ELSE <<>>) \o a.ctor
\* A memory keeps scalars, enums, arrays and structs, and no struct inside itself.
RECURSIVE resolvePersistedSchema(_, _, _)
resolvePersistedSchema(t, active, d) ==
  \/ t.k = "scalar"
  \/ t.k = "array" /\ resolvePersistedSchema(t.args[1], active, d)
  \/ /\ t.k = "named" /\ t.name \notin active
     /\ \/ IsEnum(d, t.name)
        \/ /\ Has(d, "struct", t.name)
           /\ \A f \in Range1(d[<<"struct", t.name>>].fields) : resolvePersistedSchema(f.type, active \cup {t.name}, d)
resolveMemoryDescriptor(descriptor, d) == resolvePersistedSchema(descriptor.type, {}, d)
zeroOf(t) == Null
spawnInstance(type, name, es, s, m, cx) ==
  LET a == cx.d[<<"agent", type>>]
      args == EvalAll(SubSeq(es, 1, Min({Len(es), Len(a.params)})), s, m, cx)
      Param(i) == IF i <= Len(args.vs) THEN args.vs[i] ELSE zeroOf(a.params[i].type)
      fields == [n \in {p.name : p \in Range1(a.params)} |-> Param(CHOOSE i \in DOMAIN a.params : a.params[i].name = n)]
                @@ [n \in {f.name : f \in Range1(a.fields)} |-> zeroOf(NoType)]
      instance == [type |-> type, awake |-> FALSE, fields |-> fields,
                   mems |-> [n \in {x.name : x \in Range1(memoryDeclsOf(a, cx.d))} |-> <<>>]]
      spawned == Add(Row("Spawned", name, name), [args.m EXCEPT !.inst = (name :> instance) @@ @])
      scoped == NewScope0(0, name, spawned)
      built == execBody(ctorOf(a, cx.d), Newest(scoped), scoped, cx)
  IN  IF ~Has(cx.d, "agent", type) THEN Fault("Runtime", "", m)
      ELSE IF args.m.fault # "none" THEN args.m
      ELSE IF built.fault = "none" THEN built
      ELSE [Add(Row("AgentCrashed", name, name), built) EXCEPT !.inst = [n \in DOMAIN built.inst \ {name} |-> built.inst[n]]]
evalSpawnExpr(e, s, m, cx) ==
  LET name == e.name \o "@" \o ToString(m.next)
      after == spawnInstance(e.name, name, e.subs, s, [m EXCEPT !.next = @ + 1], cx)
  IN  Fresh(AgentRef(name), after)
\* A lifecycle statement names an instance, or a variable that holds one.
instanceNameOf(name, s, m) == LET v == get(name, s, m.heap, m.inst) IN IF v.k = "agentref" THEN v.name ELSE name
requireInstance(name, m, then) == IF name \in DOMAIN m.inst THEN then ELSE Fault("Runtime", "", m)
execAwake(name, m, cx) ==
  LET a == cx.d[<<"agent", m.inst[name].type>>]
      armed == IF \E sub \in Range1(m.subs) : sub.agent = name THEN m.subs
               ELSE m.subs \o [i \in DOMAIN a.whens |-> [when |-> a.whens[i], scope |-> 0, agent |-> name, owner |-> 0]]
      late == SetToSeq({x \in m.expired : x.dest = name})
      refused == FoldLeft(LAMBDA acc, x : Add(Row("DeliveryRefused", x.of, name), acc),
                          Add(Row("AgentAwake", name, name), [m EXCEPT !.inst[name].awake = TRUE, !.subs = armed]), late)
  IN  requireInstance(name, m, Contained(name, runHook(name, "awake", [refused EXCEPT !.expired = {x \in @ : x.dest # name}], cx), cx))
execSleep(name, m, cx) ==
  requireInstance(name, m, runHook(name, "sleep", Add(Row("AgentAsleep", name, name), [m EXCEPT !.inst[name].awake = FALSE]), cx))

-----------------------------------------------------------------------------
(* Expressions. *)
Builtin0(e, s, m, cx) ==
  LET name == e.subs[1].name
      args == EvalAll(Tail(e.subs), s, m, cx)
  IN  CASE name = "now" /\ Len(e.subs) = 1 -> Fresh(settledText(""), m)
        [] name = "len" /\ Len(e.subs) = 2 ->
             IF args.m.fault # "none" THEN Res(args.m, Null)
             ELSE IF args.vs[1].k # "array" THEN Throws("TypeError", "", args.m) ELSE Fresh(Measured("int", args.vs), args.m)
        [] name \in {"take", "skip"} /\ Len(e.subs) = 3 ->
             IF args.m.fault # "none" THEN Res(args.m, Null)
             ELSE IF args.vs[1].k # "array" THEN Throws("TypeError", "", args.m)
             ELSE LET kept == IF name = "take" THEN SubSeq(args.vs[1].items, 1, Min({1, Len(args.vs[1].items)})) ELSE SubSeq(args.vs[1].items, 2, Len(args.vs[1].items))
                  IN  Fresh([privateDerived(Derived("array", kept, trustJoin(kept)), <<args.vs[1]>>) EXCEPT !.items = kept], args.m)
        [] OTHER -> Throws("Runtime", "", m)
Identifier(e, s, expected, m, cx) ==
  LET v == get(e.name, s, m.heap, m.inst)
  IN  CASE e.name = "abstained" -> Fresh(EnumVal("abstained"), m)
        [] e.name # "abstained" /\ v.k # "undefined" -> Res(m, v)
        [] e.name # "abstained" /\ v.k = "undefined" ->
             IF enumOfVariant(e.name, expected, cx.d) # "" THEN Fresh(EnumVal(e.name), m)
             ELSE IF e.name \in DOMAIN m.inst THEN Fresh(AgentRef(e.name), m) ELSE Throws("Runtime", "identifier", m)
Element(arr, m) ==
  IF arr.k = "array" /\ arr.items # <<>>
  THEN Fresh([privateDerived(arr.items[1], <<arr>>) EXCEPT !.auth = FALSE], m)
  ELSE Fresh(Derived("null", <<arr>>, arr.trust), m)
\* A task is described in two texts; its scope is cut from what its delegator may perform.
evalTaskLit(e, s, m, cx) ==
  LET TextOf(i, n, Op(_)) == Then(evalExpr(e.subs[i], s, NoType, n, cx),
                                  LAMBDA r : IF r.v.k # "text" THEN Throws("TypeError", "", r.m) ELSE Op(r))
      Spec(vs, n) == Fresh([Derived("struct", vs, trustJoin(vs)) EXCEPT !.name = "TaskSpec", !.labels = <<"objective", "acceptance">>, !.items = vs], n)
      Held(n) == \A action \in Range1(e.labels) : RuntimeGrant("perform", {action}, s, n, cx)
  IN  IF Len(e.subs) # 2 THEN Throws("TypeError", "", m)
      ELSE TextOf(1, m, LAMBDA objective : TextOf(2, objective.m, LAMBDA acceptance :
             IF Held(acceptance.m) THEN Spec(<<objective.v, acceptance.v>>, acceptance.m)
             ELSE Throws("AuthorityViolation", "scope", acceptance.m)))
evalExpr(e, s, expected, m, cx) ==
  CASE e.k \in {"int", "float", "null"} -> Fresh(Value(e.k, "settled"), m)
    [] e.k = "bool" -> Fresh([Value("bool", "settled") EXCEPT !.name = e.name], m)
    [] e.k = "string" -> Fresh(settledText(e.name), m)
    [] e.k = "mdimport" -> Fresh([Value("text", "raw") EXCEPT !.ingress = TRUE, !.origins = {m.next}], m)
    [] e.k = "fstring" -> WithParts(e, s, m, cx, LAMBDA vs, n : Fresh(Derived("text", vs, trustJoin(vs)), n))
    [] e.k = "self" -> IF currentAgent(s, m.heap) = "" THEN Throws("Runtime", "", m) ELSE Fresh(AgentRef(currentAgent(s, m.heap)), m)
    [] e.k = "ident" -> Identifier(e, s, expected, m, cx)
    [] e.k = "send" -> evalSend(e, s, expected, "", m, cx)
    [] e.k = "recall" -> evalRecall(e, s, m, cx)
    [] e.k = "select" -> evalQuery(e, m)
    [] e.k = "structlit" -> WithParts(e, s, m, cx, LAMBDA vs, n :
         Fresh([Derived("struct", vs, trustJoin(vs)) EXCEPT !.name = e.name, !.labels = e.labels, !.items = vs], n))
    [] e.k = "arraylit" -> WithParts(e, s, m, cx, LAMBDA vs, n : Fresh([Derived("array", vs, trustJoin(vs)) EXCEPT !.items = vs], n))
    [] e.k = "decide" -> evalDecide(e, s, m, cx)
    [] e.k = "endorse" -> evalEndorse(e, s, m, cx)
    [] e.k = "member" -> evalMember(e, s, m, cx)
    [] e.k = "index" -> WithParts(e, s, m, cx, LAMBDA vs, n : Element(vs[1], n))
    [] e.k = "binary" -> evalBinary(e, s, m, cx)
    [] e.k = "unary" -> WithParts(e, s, m, cx, LAMBDA vs, n :
         IF e.name = "!" /\ vs[1].k = "bool" THEN Fresh([Derived("bool", vs, vs[1].trust) EXCEPT !.name = BoolVal(vs[1].name # "true").name], n)
         ELSE IF e.name = "-" /\ vs[1].k \in {"int", "float"} THEN Fresh(Derived(vs[1].k, vs, vs[1].trust), n) ELSE Throws("Runtime", "", n))
    [] e.k = "call" -> IF e.subs[1].k = "ident" /\ Has(cx.d, "fn", e.subs[1].name)
                       THEN LET args == EvalAll(Tail(e.subs), s, m, cx)
                            IN  IF args.m.fault # "none" THEN Res(args.m, Null) ELSE callFn(e.subs[1].name, args.vs, s, args.m, cx)
                       ELSE IF e.subs[1].k = "ident" THEN Builtin0(e, s, m, cx) ELSE Throws("Runtime", "", m)
    [] e.k = "pipe" -> evalPipe(e, s, m, cx)
    [] e.k = "spawnexpr" -> evalSpawnExpr(e, s, m, cx)
    [] e.k \in {"agg", "quorum"} -> evalAgg(e, s, m, cx)
    [] e.k = "performexpr" -> evalPerformExpr(e, s, m, cx)
    [] e.k = "tasklit" -> evalTaskLit(e, s, m, cx)
    [] OTHER -> Throws("Runtime", "", m)

-----------------------------------------------------------------------------
(* Statements. *)
Bound(e, s, type, name, m, cx) ==
  IF e.k = "send" THEN evalSend(e, s, type, name, m, cx) ELSE evalExpr(e, s, type, m, cx)
execVar(st, s, m, cx) ==
  LET r == IF st.exprs = <<>> THEN Fresh(Null, m) ELSE Bound(st.exprs[1], s, st.type, st.name, m, cx)
  IN  IF r.m.fault # "none" THEN r.m ELSE [setVar(st.name, r.v, s, r.m) EXCEPT !.heap[s].types = (st.name :> st.type) @@ @]
execAssign(st, s, m, cx) ==
  LET name == st.exprs[1].name
      r == Bound(st.exprs[2], s, declaredType(name, s, m.heap), name, m, cx)
  IN  IF st.exprs[1].k # "ident" THEN Fault("Runtime", "", m) ELSE IF r.m.fault # "none" THEN r.m ELSE assign(name, r.v, s, r.m)
\* Only a reply that does not match its type is asked for again.
Retryable(m) == m.fault = "TypeMismatch"
IsRetried(m) == Retryable(m)
RECURSIVE execRetry(_, _, _, _, _)
execRetry(st, attempt, s, m, cx) ==
  IF attempt = 0 THEN Fault("Crash", "exhausted", Add(Row("RetryExhausted", SubjectOf(s, m), currentAgent(s, m.heap)), m))
  ELSE LET ran == execBody(st.blocks[1], s, m, cx)
       IN  IF IsRetried(ran) THEN execRetry(st, attempt - 1, s, Recovered(ran), cx) ELSE ran
execForget(st, s, m) ==
  LET by == currentAgent(s, m.heap)
  IN  IF by = "" THEN Fault("TypeError", "", m)
      ELSE IF st.name \notin DOMAIN m.inst[by].mems THEN Fault("TypeError", "", m)
      ELSE Add(Row("Forgotten", st.name, by), [m EXCEPT !.inst[by].mems[st.name] = <<>>])
execStmt(st, s, m, cx) ==
  CASE st.k = "var" -> execVar(st, s, m, cx)
    [] st.k = "assign" -> execAssign(st, s, m, cx)
    [] st.k = "spawn" -> spawnInstance(st.type.name, st.name, st.exprs, s, m, cx)
    [] st.k = "awake" -> execAwake(instanceNameOf(st.name, s, m), m, cx)
    [] st.k = "sleep" -> execSleep(instanceNameOf(st.name, s, m), m, cx)
    [] st.k = "retry" -> execRetry(st, st.times, s, m, cx)
    [] st.k = "emit" -> emit(st, s, m, cx)
    [] st.k = "perform" -> Performed(st.name, st.exprs, s, m, cx).m
    [] st.k = "say" -> evalExpr(st.exprs[1], s, NoType, m, cx).m
    [] st.k = "return" -> [m EXCEPT !.skipped = TRUE]
    [] st.k = "if" -> execIf(st, s, m, cx)
    [] st.k = "dispatch" -> execDispatch(st, s, m, cx)
    [] st.k = "memdecl" -> Fault("TypeError", "", m)
    [] st.k = "forget" -> execForget(st, s, m)
    [] st.k = "depdecl" -> Add(Row("DependenceAsserted", SubjectOf(s, m), currentAgent(s, m.heap)),
                               [m EXCEPT !.heap[s].deps = @ \cup {[relation |-> st.name, names |-> Range1(st.labels)]}])
    [] st.k = "exprstmt" -> LET queried == IF st.exprs[1].k = "select" THEN Add(Row("QueryResult", st.exprs[1].name, currentAgent(s, m.heap)), m) ELSE m
                            IN  evalExpr(st.exprs[1], s, NoType, queried, cx).m
    [] OTHER -> m

-----------------------------------------------------------------------------
(***************************************************************************)
(* A session: the handlers of the top level are armed and the sensors      *)
(* opened before its statements run; a prompt is an event from outside.    *)
(***************************************************************************)
Begin(program, m) ==
  LET whens == SelectSeq(program.stmts, LAMBDA st : st.k = "when")
      prompts == SelectSeq(program.decls, LAMBDA x : x.k = "prompt")
      agents == {x \in Range1(program.decls) : x.k = "agent"}
      d == DeclTable(program, <<>>)
      opened == FoldLeft(LAMBDA acc, x : Add(Row("PromptOpened", x.name, ""), acc), m, prompts)
  IN  IF \E a \in agents : \E descriptor \in Range1(memoryDeclsOf(a, d)) : ~resolveMemoryDescriptor(descriptor, d)
      THEN Fault("ConfigError", "descriptor", m)
      ELSE [opened EXCEPT !.subs = [i \in DOMAIN whens |-> [when |-> whens[i], scope |-> 0, agent |-> "", owner |-> 0]]]
\* Text takes any input; another type only what has its shape.  A variant is looked up once
\* the input is a name.
coercePromptInput(input, t, d) ==
  IF input # "mismatch" \/ (t.k = "scalar" /\ t.name \in {"text", "null"}) THEN "none"
  ELSE IF t.k = "named" /\ ~Has(d, "struct", t.name) THEN "Runtime" ELSE "TypeError"
valueFromPromptInput(input, t, ingress, like, d) == withIngress(withTrust(valueFromStructured(t, input, like, d), "settled", FALSE), ingress)
deliverPrompt(name, input, m, cx) ==
  LET t == cx.d[<<"prompt", name>>].ret
      fault == coercePromptInput(input, t, cx.d)
      value == valueFromPromptInput(input, t, name \notin cx.manifest.screened, [Value("text", "raw") EXCEPT !.id = m.next], cx.d)
      text == [settledText(input) EXCEPT !.ingress = value.ingress, !.id = m.next + 1]
  IN  IF fault # "none" THEN Fault(fault, "input", m)
      ELSE fireSubscriptions("Prompt", name, <<"value", "text">>, <<value, text>>,
                             Add(Row("Prompt", name, ""), [m EXCEPT !.next = @ + 2]), cx)
=============================================================================
