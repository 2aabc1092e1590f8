---------------------------- MODULE CheckerScans ----------------------------
(***************************************************************************)
(* The passes of the checker (src/agape-ts/src/check.ts) that need no      *)
(* scope: where a return may stand, prompt ingress under the deny policy,  *)
(* type surfaces, memory descriptors, interfaces, visibility, grants,      *)
(* purity and deference.  `d` is the declaration table: a function from    *)
(* <<kind, name>> to the declaration.  A pass gives the class of the error *)
(* it throws, or "none".                                                   *)
(***************************************************************************)
EXTENDS Syntax, SequencesExt, FiniteSetsExt, TLC

Has(d, k, name) == <<k, name>> \in DOMAIN d
Throw(bad, class) == IF bad THEN class ELSE "none"
\* The first error of a sequence of checks, in the order they run.
FirstError(errors) ==
  LET thrown == SelectSeq(errors, LAMBDA e : e # "none") IN IF thrown = <<>> THEN "none" ELSE thrown[1]

Builtin == [bool |-> <<"true", "false">>, Basis |-> <<"Threshold", "Conformal", "Principal">>,
            Entailment |-> <<"Entails", "Contradicts", "Neutral">>]
Variants(d, enum) == IF Has(d, "enum", enum) THEN d[<<"enum", enum>>].variants
                     ELSE IF enum \in DOMAIN Builtin THEN Builtin[enum] ELSE <<>>
IsEnum(d, name) == Has(d, "enum", name) \/ name \in DOMAIN Builtin

\* The declarations of the program and those it imports, all of them exported.
DeclTable(program, imported) ==
  FoldLeft(LAMBDA f, x : (<<x.k, x.name>> :> x) @@ f, <<>>,
           program.decls \o [i \in DOMAIN imported |-> [imported[i] EXCEPT !.pub = TRUE]])

-----------------------------------------------------------------------------
(* A return is the last statement of a function, or it is rejected. *)
Deeper(s, kinds) == IF s.k \in kinds THEN UNION {Statements(s.blocks[j], kinds) : j \in DOMAIN s.blocks} ELSE {}
Honoured(body, i, tail) == tail /\ i = Len(body)
Misplaced(body, tail) ==
  \E i \in DOMAIN body : \/ body[i].k = "return" /\ ~Honoured(body, i, tail)
                         \/ \E s \in Deeper(body[i], BlockKinds) : s.k = "return"
checkReturnPlacement(program) ==
  Throw(\/ \E x \in Range1(program.decls) :
             \/ x.k = "fn" /\ Misplaced(x.body, TRUE)
             \/ x.k = "agent" /\ \E b \in AgentBodies(x) : Misplaced(b, FALSE)
        \/ Misplaced(program.stmts, FALSE), "TypeError")

-----------------------------------------------------------------------------
(***************************************************************************)
(* Prompt ingress: under the deny policy the binder of a handler of an     *)
(* unscreened prompt, and what is computed from it, reaches no send.       *)
(***************************************************************************)
IngressKinds == {"member", "binary", "unary", "call", "fstring", "structlit", "arraylit"}
RECURSIVE RefersTo(_, _)
RefersTo(e, tainted) ==
  \/ e.k = "ident" /\ e.name \in tainted
  \/ e.k = "send" /\ RefersTo(e.subs[2], tainted)
  \/ e.k \in IngressKinds /\ \E i \in DOMAIN e.subs : RefersTo(e.subs[i], tainted)
Leaks(e, tainted) ==
  \E x \in Visited(e, IngressKinds \cup {"send"}) : x.k = "send" /\ RefersTo(x.subs[2], tainted)

InspectedKinds == {"var", "assign", "say", "return", "exprstmt", "emit", "perform", "if"}
Inspected(s) == IF s.k \notin InspectedKinds THEN {}
                ELSE IF s.k = "assign" THEN {s.exprs[2]} ELSE Range1(s.exprs)
Tainting(s) == IF s.k = "assign" THEN (IF s.exprs[1].k = "ident" THEN {s.exprs[1].name} ELSE {})
               ELSE IF s.k = "var" THEN {s.name} ELSE {}
RECURSIVE inspectBody(_, _)
inspectBody(body, binders) ==
  FoldLeft(LAMBDA acc, s :
             [bad |-> \/ acc.bad
                      \/ \E e \in Inspected(s) : Leaks(e, acc.tainted)
                      \/ s.k \in BlockKinds /\ \E j \in DOMAIN s.blocks : inspectBody(s.blocks[j], acc.tainted).bad,
              tainted |-> IF \E e \in Inspected(s) : RefersTo(e, acc.tainted)
                          THEN acc.tainted \cup Tainting(s) ELSE acc.tainted],
           [bad |-> FALSE, tainted |-> binders], body)

\* Every handler of the program, wherever it is nested.
Handlers(program) ==
  {s \in UNION {Statements(b, BlockKinds) : b \in {program.stmts} \cup
                  UNION {AgentBodies(x) : x \in {y \in Range1(program.decls) : y.k = "agent"}}} : s.k = "when"}
  \cup UNION {Range1(x.whens) : x \in Range1(program.decls)}
UnscreenedPrompt(w, d, screened) == w.name = "Prompt" /\ w.labels[1] # "" /\ Has(d, "prompt", w.about) /\ w.about \notin screened
checkDenyModePromptIngress(program, d, manifest) ==
  Throw(manifest.ingress = "deny" /\ \E w \in Handlers(program) :
          UnscreenedPrompt(w, d, manifest.screened) /\ inspectBody(w.blocks[1], {w.labels[1]}).bad, "TaintViolation")

-----------------------------------------------------------------------------
(* Types: an argument only on a generic struct, no Rule to store, no foreign supertype. *)
ScanKinds == {"structlit", "member", "binary", "unary", "call", "send", "recall", "decide", "endorse", "fstring",
              "agg", "quorum", "pipe", "arraylit", "tasklit", "performexpr"}
ScanStmtKinds == {"var", "assign", "say", "return", "exprstmt", "emit", "perform", "spawn", "if", "dispatch", "memdecl"}
checkInstantiation(name, d) ==
  IF Has(d, "struct", name) THEN d[<<"struct", name>>].generic
  ELSE ~(IsEnum(d, name) \/ \E k \in {"agent", "interface", "action", "event"} : Has(d, k, name))
RECURSIVE TypeIsSound(_, _)
TypeIsSound(t, d) ==
  /\ \A i \in DOMAIN t.args : TypeIsSound(t.args[i], d)
  /\ t.k = "named" => /\ t.name # "Rule"
                      /\ t.args # <<>> => IF t.name = "LedgerEntry" THEN Len(t.args) = 1
                                          ELSE checkInstantiation(t.name, d)
checkDecidePrincipal(e, d) == e.k = "decide" /\ e.name # "" => Has(d, "principal", e.name)
SurfaceTypes(x) == {f.type : f \in Range1(x.fields) \cup Range1(x.params)} \cup {x.ret} \cup {m.type : m \in Range1(x.mems)}
                   \cup UNION {{m.event, m.outcome} : m \in {n \in Range1(x.members) : n.k = "handler"}}
checkTypeSurfaces(program, d) ==
  LET stmts == UNION {Statements(b, BlockKinds) : b \in Bodies(program)}
      reached == Expressions(stmts, ScanStmtKinds, ScanKinds)
      exprs == reached \cup UNION {Visited(e.opt[1], ScanKinds) : e \in {x \in reached : x.k = "performexpr" /\ x.opt # <<>>}}
  IN  Throw(\/ \E x \in Range1(program.decls) : \/ x.k = "event" /\ x.super \notin {"", "Error"}
                                                \/ \E t \in SurfaceTypes(x) : ~TypeIsSound(t, d)
            \/ \E s \in stmts : s.k = "var" /\ ~TypeIsSound(s.type, d)
            \/ \E e \in exprs : \/ ~checkDecidePrincipal(e, d)
                                \/ e.k = "structlit" /\ e.opt # <<>> /\ ~TypeIsSound(TypeRef("named", e.name, e.opt), d),
            "TypeError")

-----------------------------------------------------------------------------
(***************************************************************************)
(* Memory descriptors: those of an agent and of the agents it extends,     *)
(* under fresh names, with known clauses and a persistable payload.  The   *)
(* result is their types, or the error.                                    *)
(***************************************************************************)
RECURSIVE isPersistable(_, _, _)
isPersistable(t, d, visiting) ==
  \/ t.k = "scalar"
  \/ t.k = "array" /\ isPersistable(t.args[1], d, visiting)
  \/ t.k = "named" /\ \/ IsEnum(d, t.name)
                      \/ /\ Has(d, "struct", t.name)
                         /\ ~\E k \in {"agent", "action", "event"} : Has(d, k, t.name)
                         /\ \/ t.name \in visiting
                            \/ \A f \in Range1(d[<<"struct", t.name>>].fields) :
                                 isPersistable(f.type, d, visiting \cup {t.name})
WellFormed(m, d) ==
  /\ m.type # NoType /\ isPersistable(m.type, d, {})
  /\ m.modality \in {"opaque", "episodic", "semantic"}
  /\ m.retention \in {"session", "durable"}
  /\ m.scope # <<>> /\ IsInjective(m.scope) /\ Range1(m.scope) \subseteq {"project", "user"}
RECURSIVE checkMemoryDescriptors(_, _, _)
checkMemoryDescriptors(a, d, stack) ==
  LET inherited == IF Has(d, "agent", a.extends)
                   THEN checkMemoryDescriptors(d[<<"agent", a.extends>>], d, stack \cup {a.name})
                   ELSE [types |-> <<>>, error |-> "none"]
      members == {f.name : f \in Range1(a.params) \cup Range1(a.fields)}
      names == [i \in DOMAIN a.mems |-> a.mems[i].name]
      bad == \/ Range1(names) \cap DOMAIN inherited.types # {} \/ DOMAIN inherited.types \cap members # {}
             \/ Range1(names) \cap members # {} \/ ~IsInjective(names)
             \/ \E m \in Range1(a.mems) : ~WellFormed(m, d)
  IN  IF a.name \in stack THEN [types |-> <<>>, error |-> "TypeError"]
      ELSE IF inherited.error # "none" THEN inherited
      ELSE [types |-> FoldLeft(LAMBDA f, m : (m.name :> m.type) @@ f, inherited.types, a.mems),
            error |-> Throw(bad, "TypeError")]

-----------------------------------------------------------------------------
(***************************************************************************)
(* Interfaces: a handler for each member, over the right enum when it      *)
(* demonstrably decides, and the grants it requires.                       *)
(***************************************************************************)
Bindings(s) == IF s.k = "var" /\ s.type.k \in {"credence", "decision"} THEN s.name :> s.type.name ELSE <<>>
Gated(s) == {e \in (IF s.k \in {"var", "exprstmt", "dispatch"} THEN Range1(s.exprs)
                    ELSE IF s.k = "assign" THEN {s.exprs[2]} ELSE {}) : e.k = "decide" /\ e.subs[1].k = "ident"}
Produced(s, env) ==
  (IF s.k = "var" /\ s.type.k = "decision" THEN {s.type.name} ELSE {}) \cup
  {env[e.subs[1].name] : e \in {x \in Gated(s) : x.subs[1].name \in DOMAIN env}}
RECURSIVE scanDecisionEnums(_, _)
scanDecisionEnums(body, start) ==
  FoldLeft(LAMBDA acc, s :
             LET env == Bindings(s) @@ acc.env
                 here == [env |-> env, out |-> acc.out \cup Produced(s, env)]
             IN  IF s.k \notin BlockKinds THEN here
                 ELSE FoldLeft(LAMBDA a, b : scanDecisionEnums(b, a), here, s.blocks),
           start, body)
decisionEnumsOf(w) == scanDecisionEnums(w.blocks[1], [env |-> <<>>, out |-> {}]).out

Granted(grants, g) == grants = AllGrants \/ g \in grants
MemberHonoured(a, m, d) ==
  IF m.k = "requires" THEN Granted(a.grants, <<m.cap, m.name>>)
  ELSE m.event.k = "named" =>
    /\ \E i \in DOMAIN a.whens : a.whens[i].name = m.event.name
    /\ LET w == a.whens[CHOOSE i \in DOMAIN a.whens : a.whens[i].name = m.event.name
                          /\ \A j \in 1..(i - 1) : a.whens[j].name # m.event.name]
           produced == decisionEnumsOf(w)
       IN  IsEnum(d, m.outcome.name) /\ (\E e \in produced : IsEnum(d, e)) => m.outcome.name \in produced
checkNominalConformance(a, d) ==
  Throw(\E i \in Range1(a.ifaces) : Has(d, "interface", i) /\
          \E m \in Range1(d[<<"interface", i>>].members) : ~MemberHonoured(a, m, d), "InterfaceError")

-----------------------------------------------------------------------------
(* Visibility is shallow: what is pub names only what is pub. *)
RECURSIVE namesPrivate(_, _)
namesPrivate(t, d) ==
  \/ t.k = "named" /\ \E key \in DOMAIN d : key[2] = t.name /\ ~d[key].pub
  \/ \E i \in DOMAIN t.args : namesPrivate(t.args[i], d)
Exposed(x) == {f.type : f \in Range1(x.fields)} \cup IF x.k = "fn" THEN {x.ret} \cup {f.type : f \in Range1(x.params)} ELSE {}
checkExport(x, d) ==
  Throw(x.pub /\ x.k \in {"struct", "fn", "agent"} /\ \E t \in Exposed(x) : namesPrivate(t, d), "VisibilityError")
checkInterface(x, d) ==
  LET backed == \E key \in DOMAIN d : key[1] = "agent" /\ x.name \in Range1(d[key].ifaces)
  IN  Throw(x.pub /\ \E m \in Range1(x.members) :
              IF m.k = "handler" THEN ~backed /\ (namesPrivate(m.event, d) \/ namesPrivate(m.outcome, d))
              ELSE namesPrivate(Named(m.name), d), "VisibilityError")

\* Grants shrink under extend.
GrantForGrant(a, parent) == a.grants \subseteq parent.grants
Shrinks(a, parent) == GrantForGrant(a, parent)
checkSubtractiveGrants(a, d) ==
  Throw(/\ Has(d, "agent", a.extends)
        /\ d[<<"agent", a.extends>>].grants # AllGrants
        /\ ~Shrinks(a, d[<<"agent", a.extends>>]), "AuthorityViolation")

-----------------------------------------------------------------------------
(***************************************************************************)
(* A pure function reaches no dependency.                                  *)
(***************************************************************************)
PureKinds == {"call", "member", "binary", "unary", "fstring", "agg", "quorum", "pipe", "arraylit", "decide", "endorse"}
PrincipalDriven(e, d) ==
  e.k = "decide" /\ (Has(d, "principal", e.name) \/ (e.rule.r = "policy" /\ Has(d, "principal", e.rule.name)))
ReachesDependency(e, d) ==
  \/ e.k \in {"send", "recall", "select", "performexpr"}
  \/ e.k = "decide" /\ (e.name # "" \/ PrincipalDriven(e, d))
  \/ e.k = "call" /\ e.subs[1].k = "ident" /\ LET f == e.subs[1].name IN
       IF Has(d, "fn", f) THEN ~d[<<"fn", f>>].pure ELSE f = "now"
PureStmtKinds == {"var", "say", "return", "exprstmt", "emit", "if", "dispatch"}
assertPureBody(body, d) ==
  LET stmts == Statements(body, {"if", "retry", "dispatch"})
      exprs == Expressions(stmts, PureStmtKinds, PureKinds) \cup
               UNION {Visited(s.exprs[2], PureKinds) : s \in {t \in stmts : t.k = "assign"}}
  IN  Throw(\/ \E s \in stmts : s.k \in {"perform", "memdecl"}
            \/ \E e \in exprs : ReachesDependency(e, d), "ColorViolation")

-----------------------------------------------------------------------------
(***************************************************************************)
(* Deference: an endorsement by a cold conformal gate that reaches a       *)
(* non-reversible action has a way to a principal.  `decideOf` is the      *)
(* decide behind a name.                                                   *)
(***************************************************************************)
SinkKinds == {"call", "member", "binary", "unary", "fstring", "structlit", "arraylit"}
Irreversible(name, d) == ~(Has(d, "action", name) /\ d[<<"action", name>>].reversible)
SinkStmtKinds == {"perform", "var", "assign", "say", "exprstmt", "return", "emit", "if"}
reachesNonReversibleSink(body, d) ==
  LET stmts == Statements(body, BlockKinds)
  IN  \/ \E s \in stmts : s.k = "perform" /\ Irreversible(s.name, d)
      \/ \E e \in Expressions(stmts, SinkStmtKinds, SinkKinds) : e.k = "performexpr" /\ Irreversible(e.name, d)

NoDecide == Expr("none", "", <<>>)
decideOfEndorse(g, decideOf) ==
  IF g.subs[2].k = "decide" THEN g.subs[2]
  ELSE IF g.subs[2].k = "ident" /\ g.subs[2].name \in DOMAIN decideOf THEN decideOf[g.subs[2].name] ELSE NoDecide
endorseIsPrincipalDriven(g, decideOf, d) == PrincipalDriven(decideOfEndorse(g, decideOf), d)
Cold(g, decideOf, d) == decideOfEndorse(g, decideOf).rule.r = "conformal" /\ ~endorseIsPrincipalDriven(g, decideOf, d)
Decided(s) == IF s.k = "var" /\ s.exprs # <<>> /\ s.exprs[1].k = "decide" THEN s.name :> s.exprs[1] ELSE <<>>
EscalatingExprs(s) ==
  IF s.k \in {"var", "exprstmt", "say", "dispatch"} THEN Range1(s.exprs) ELSE IF s.k = "assign" THEN {s.exprs[2]} ELSE {}
\* The decides of a body, in the order of the text, on top of those known before.
RECURSIVE DecidesIn(_, _, _)
DecidesIn(body, kinds, known) ==
  FoldLeft(LAMBDA f, s : LET g == Decided(s) @@ f
                         IN  IF s.k \in kinds THEN FoldLeft(LAMBDA h, b : DecidesIn(b, kinds, h), g, s.blocks) ELSE g,
           known, body)
hasReachablePrincipalEscalation(body, d, known) ==
  LET stmts == Statements(body, BlockKinds)
      decideOf == DecidesIn(body, BlockKinds, known)
  IN  \/ \E s \in stmts : \E e \in EscalatingExprs(s) : PrincipalDriven(e, d)
      \/ \E s \in stmts : /\ s.k = "dispatch" /\ s.exprs[1].k = "endorse"
                          /\ endorseIsPrincipalDriven(s.exprs[1], decideOf, d)
ArmsOf(s) == {s.blocks[j] : j \in {i \in DOMAIN s.blocks : s.heads[i] # "abstain"}}
AbstainsOf(s) == {s.blocks[j] : j \in {i \in DOMAIN s.blocks : s.heads[i] = "abstain"}}
checkDeference(s, d, decideOf) ==
  Throw(/\ s.exprs[1].k = "endorse" /\ Cold(s.exprs[1], decideOf, d)
        /\ \E b \in ArmsOf(s) : reachesNonReversibleSink(b, d)
        /\ ~\E b \in AbstainsOf(s) : hasReachablePrincipalEscalation(b, d, decideOf), "GateError")

FlowKinds == {"if", "when", "dispatch"}
checkDeferenceFlow(body, d) ==
  LET stmts == Statements(body, FlowKinds)
      decideOf == DecidesIn(body, FlowKinds, <<>>)
      endorses == {e \in UNION {Range1(s.exprs) : s \in {t \in stmts : t.k \in {"var", "exprstmt"}}} : e.k = "endorse"}
  IN  Throw(/\ \E g \in endorses : Cold(g, decideOf, d)
            /\ ~hasReachablePrincipalEscalation(body, d, decideOf)
            /\ reachesNonReversibleSink(body, d), "GateError")
=============================================================================
