-------------------------------- MODULE Graph --------------------------------
(***************************************************************************)
(* The orchestration graph of src/agape-ts/src/graph.ts: what a program    *)
(* will do, read off its syntax.  A context is a body that is walked: the  *)
(* top level, a hook, a handler, a constructor, a function as one owner    *)
(* calls it.  The walk leaves behind, as nodes, the asks, gates, actions   *)
(* and events it meets, numbered in their context, and the edges between   *)
(* them.  Ids are tuples and edges a set: how often one is drawn and in    *)
(* which order, labels, source lines and the layout are left out.          *)
(***************************************************************************)
EXTENDS CheckerScans

Node(k, name, owner) == [k |-> k, name |-> name, owner |-> owner, type |-> NoType, about |-> "", variant |-> "",
                         principal |-> "", endorsements |-> {}]
TopId == <<"top">>
AgentId(name) == <<"agent", name>>
MemId(owner, name) == <<"mem", owner, name>>
TopOr(owner) == IF owner = "" THEN "top" ELSE owner
FnId(owner, name) == <<"fn", TopOr(owner), name>>
UnresolvedId(label) == <<"agent", "?", label>>
addNode(id, node, w) == IF id \in DOMAIN w.nodes THEN w ELSE [w EXCEPT !.nodes = (id :> node) @@ @]
addEdge(from, to, k, variant, w) == [w EXCEPT !.edges = @ \cup {[from |-> from, to |-> to, k |-> k, variant |-> variant]}]
addEdges(froms, to, k, variant, w) == FoldLeft(LAMBDA acc, f : addEdge(f, to, k, variant, acc), w, SetToSeq(froms))
addFlow(froms, to, variant, w) == addEdges(froms \ {to}, to, "flow", variant, w)

-----------------------------------------------------------------------------
(***************************************************************************)
(* Instances: what the top level spawns, also in its blocks, and what the  *)
(* constructors of those instances spawn.                                  *)
(***************************************************************************)
AgentDecl(type, d) == IF Has(d, "agent", type) THEN d[<<"agent", type>>] ELSE Decl("agent", type)
\* `order` has the names in the order in which a Map keeps them; a later spawn of a name replaces the earlier.
SpawnOf(s, found) ==
  [order |-> IF s.name \in DOMAIN found.of THEN found.order ELSE Append(found.order, s.name),
   of |-> (s.name :> [type |-> s.type.name, args |-> s.exprs]) @@ found.of]
RECURSIVE collectSpawns(_, _)
collectSpawns(stmts, found) ==
  FoldLeft(LAMBDA acc, s : IF s.k = "spawn" THEN SpawnOf(s, acc)
                           ELSE IF s.k \in {"if", "when", "retry"} THEN FoldLeft(LAMBDA inner, b : collectSpawns(b, inner), acc, s.blocks)
                           ELSE acc, found, stmts)
RECURSIVE fromConstructors(_, _, _)
fromConstructors(i, found, d) ==
  IF i > Len(found.order) THEN found
  ELSE LET spawns == SelectSeq(AgentDecl(found.of[found.order[i]].type, d).ctor, LAMBDA s : s.k = "spawn")
       IN  fromConstructors(i + 1, collectSpawns(spawns, found), d)
Instances(program, d) == fromConstructors(1, collectSpawns(program.stmts, [order |-> <<>>, of |-> <<>>]), d)
RECURSIVE effectiveMems(_, _, _)
effectiveMems(a, seen, d) ==
  IF a.name \in seen THEN {}
  ELSE {x.name : x \in Range1(a.mems)} \cup
       IF Has(d, "agent", a.extends) THEN effectiveMems(d[<<"agent", a.extends>>], seen \cup {a.name}, d) ELSE {}
DeclaredIn(body) == {s.name : s \in {t \in Statements(body, {"if", "retry", "dispatch"}) : t.k = "memdecl"}}
MemsOf(a, d) == effectiveMems(a, {}, d) \cup UNION {DeclaredIn(body) : body \in AgentBodies(a)}

-----------------------------------------------------------------------------
(***************************************************************************)
(* Contexts.  The top level has a node of its own only when it does more   *)
(* than wire agents; a handler hears the events of the type it names.      *)
(***************************************************************************)
Context(id, owner, body) == [id |-> id, owner |-> owner, body |-> body, params |-> {}]
HookId(name, event) == <<"hook", name, event>>
HandlerId(owner, i) == <<"handler", TopOr(owner), i>>
TopWhens(program) == SelectSeq(program.stmts, LAMBDA s : s.k = "when")
TopStmts(program) == SelectSeq(program.stmts, LAMBDA s : s.k \notin {"when", "spawn", "awake", "sleep"})
NeedTop(program) == TopStmts(program) # <<>>
Handling(whens, owner) == [i \in DOMAIN whens |-> Context(HandlerId(owner, i), owner, whens[i].blocks[1])]
AgentContexts(name, a) ==
  LET ctor == SelectSeq(a.ctor, LAMBDA s : s.k # "memdecl")
  IN  [i \in DOMAIN a.hooks |-> Context(HookId(name, a.on[i]), name, a.hooks[i])] \o Handling(a.whens, name)
      \o IF ctor = <<>> THEN <<>> ELSE <<Context(AgentId(name), name, ctor)>>
Contexts(program, instances, d) ==
  FlattenSeq([i \in DOMAIN instances.order |->
     LET name == instances.order[i] IN AgentContexts(name, AgentDecl(instances.of[name].type, d))])
  \o Handling(TopWhens(program), "")
  \o IF NeedTop(program) THEN <<Context(TopId, "", TopStmts(program))>> ELSE <<>>

HandlerNodes(whens, owner) ==
  {<<HandlerId(owner, i), [Node("handler", whens[i].name, owner) EXCEPT !.about = whens[i].about]>> : i \in DOMAIN whens}
AgentNodes(name, type, a, d) ==
  {<<AgentId(name), Node("agent", type, name)>>} \cup {<<MemId(name, x), Node("mem", x, name)>> : x \in MemsOf(a, d)} \cup
  {<<HookId(name, e), Node("hook", e, name)>> : e \in Range1(a.on)} \cup HandlerNodes(a.whens, name)
Declared(program) ==
  {<<<<"prompt", x.name>>, [Node("prompt", x.name, "") EXCEPT !.type = x.ret]>> : x \in {y \in Range1(program.decls) : y.k = "prompt"}} \cup
  {<<<<"principal", x.name>>, Node("principal", x.name, "")>> : x \in {y \in Range1(program.decls) : y.k = "principal"}}
StartNodes(program, instances, d) ==
  LET pairs == Declared(program) \cup HandlerNodes(TopWhens(program), "") \cup
               (IF NeedTop(program) THEN {<<TopId, Node("top", "", "")>>} ELSE {}) \cup
               UNION {AgentNodes(n, instances.of[n].type, AgentDecl(instances.of[n].type, d), d) : n \in DOMAIN instances.of}
  IN  [id \in {p[1] : p \in pairs} |-> (CHOOSE p \in pairs : p[1] = id)[2]]
HandlersOf(etype, nodes) == {id \in DOMAIN nodes : nodes[id].k = "handler" /\ nodes[id].name = etype}
StartEdges(program, nodes) ==
  {[from |-> TopId, to |-> AgentId(s.name), k |-> "spawn", variant |-> ""] :
     s \in {t \in Range1(program.stmts) : t.k = "spawn" /\ NeedTop(program)}} \cup
  UNION {{[from |-> <<"prompt", x.name>>, to |-> id, k |-> "prompt", variant |-> ""] :
            id \in {h \in HandlersOf("Prompt", nodes) : nodes[h].about \in {"", x.name}}} : x \in {y \in Range1(program.decls) : y.k = "prompt"}}

-----------------------------------------------------------------------------
(***************************************************************************)
(* Expressions.  `at` is the node that effects are attributed to: the      *)
(* context or, in an arm, its gate with the variant of the arm.  The walk  *)
(* `w` has the graph so far and what names are bound to in the context: a  *)
(* gate, a declared type, the node a value came from.                      *)
(***************************************************************************)
RefKinds == {"member", "index", "binary", "unary", "fstring", "call", "structlit", "arraylit", "quorum", "agg", "pipe"}
identRefs(e) == {x.name : x \in {y \in Visited(e, RefKinds) : y.k = "ident"}}
Origins(e, w) == {w.from[n] : n \in identRefs(e) \cap DOMAIN w.from}
flowSources(e, at, w) == IF Origins(e, w) = {} THEN {at.id} ELSE Origins(e, w)
Bind(name, id, w) == IF name = "" THEN w ELSE [w EXCEPT !.from = (name :> id) @@ @]

RECURSIVE enumOfCredence(_, _)
enumOfCredence(e, w) ==
  IF e.k = "quorum" THEN enumOfCredence(e.subs[1], w)
  ELSE IF e.k = "ident" /\ e.name \in DOMAIN w.types /\ w.types[e.name].k = "credence" THEN w.types[e.name].name ELSE ""
\* The instance a send addresses, "" when it is not known statically.
resolveDest(e, c) ==
  LET params == IF c.owner \in DOMAIN c.inst THEN AgentDecl(c.inst[c.owner].type, c.d).params ELSE <<>>
      args == IF c.owner \in DOMAIN c.inst THEN c.inst[c.owner].args ELSE <<>>
      bound == {args[i].name : i \in {j \in DOMAIN params \cap DOMAIN args : params[j].name = e.name /\ args[j].k = "ident"}}
  IN  IF e.k = "self" THEN c.owner
      ELSE IF e.k # "ident" THEN ""
      ELSE IF e.name \in DOMAIN c.inst THEN e.name
      ELSE IF bound \cap DOMAIN c.inst # {} THEN CHOOSE n \in bound : n \in DOMAIN c.inst ELSE ""

\* A node of the context's own, numbered in the order the walk meets them.
SiteId(prefix, w, c) == <<prefix, c.ctx.id, w.site>>
addSite(prefix, node, w, c) == [addNode(SiteId(prefix, w, c), node, w) EXCEPT !.site = @ + 1]
\* A function has one context for every owner that calls it.
scheduleFn(name, owner, w, c) ==
  LET fn == c.d[<<"fn", name>>]
      id == FnId(owner, name)
      ctx == [Context(id, owner, fn.body) EXCEPT !.params = {p.name : p \in Range1(fn.params)}]
  IN  IF id \in DOMAIN w.nodes THEN w
      ELSE [addNode(id, Node("fn", name, owner), w) EXCEPT !.ctxs = Append(@, ctx)]
Calls(name, inputs, at, bind, w, c) ==
  LET id == FnId(c.owner, name)
      called == addEdge(at.id, id, "call", at.variant, scheduleFn(name, c.owner, w, c))
  IN  Bind(bind, id, FoldLeft(LAMBDA acc, x : addFlow(flowSources(x, at, acc), id, at.variant, acc), called, inputs))

DrawsDecide(e, at, type, bind, w, c) ==
  LET enum == IF type.k = "decision" THEN type.name ELSE enumOfCredence(e.subs[1], w)
      id == SiteId("gate", w, c)
      gate == addSite("gate", [Node("gate", enum, c.owner) EXCEPT !.principal = e.name], w, c)
      fed == addFlow(flowSources(e.subs[1], at, w), id, at.variant, gate)
      escalated == IF Has(c.d, "principal", e.name) THEN addEdge(id, <<"principal", e.name>>, "escalate", "", fed) ELSE fed
  IN  IF bind = "" THEN escalated ELSE [escalated EXCEPT !.gates = (bind :> id) @@ @]
DrawsEndorse(e, at, w) ==
  LET gate == w.gates[e.subs[2].name]
      noted == [w EXCEPT !.nodes[gate].endorsements = @ \cup {[subject |-> e.subs[1], variant |-> at.variant]}]
  IN  IF e.subs[2].k # "ident" \/ e.subs[2].name \notin DOMAIN w.gates THEN w
      ELSE addFlow(Origins(e.subs[1], w), gate, "", noted)
DrawsSend(e, at, type, bind, w, c) ==
  LET to == resolveDest(e.subs[1], c)
      mem == MemId(c.owner, e.subs[1].name)
      ask == SiteId("ask", w, c)
      label == IF e.subs[1].k = "ident" THEN e.subs[1].name ELSE "?"
      other == IF to = "" THEN UnresolvedId(label) ELSE AgentId(to)
      asked == Bind(bind, ask, addFlow(flowSources(e.subs[2], at, w), ask, at.variant,
                                       addSite("ask", [Node("ask", bind, c.owner) EXCEPT !.type = type], w, c)))
      sent == Bind(bind, other, addEdge(at.id, other, "send", at.variant,
                                        IF to = "" THEN addNode(other, Node("agent", label, ""), w) ELSE w))
      drawn == IF e.subs[1].k = "self" \/ to = c.owner THEN asked ELSE sent \* two unknown instances are equal
  IN  IF e.subs[1].k = "ident" /\ c.owner # "" /\ mem \in DOMAIN w.nodes THEN addEdge(at.id, mem, "store", at.variant, w)
      ELSE IF bind = "" \/ type = NoType THEN drawn ELSE [drawn EXCEPT !.types = (bind :> type) @@ @]
\* A consequence of its own: the site of an action or of an event.
DrawsEffect(k, edge, name, at, w, c) ==
  addEdge(at.id, SiteId("do", w, c), edge, at.variant, addSite("do", [Node(k, name, c.owner) EXCEPT !.variant = at.variant], w, c))
DrawsRecall(e, at, bind, w, c) ==
  LET mem == MemId(c.owner, e.subs[1].name)
  IN  IF e.subs[1].k = "ident" /\ c.owner # "" /\ mem \in DOMAIN w.nodes THEN Bind(bind, mem, addEdge(mem, at.id, "recall", "", w)) ELSE w
DrawsQuery(at, bind, w) == Bind(bind, <<"ledger">>, addEdge(<<"ledger">>, at.id, "query", "", addNode(<<"ledger">>, Node("ledger", "", ""), w)))

NamesFn(e, c) == e.k = "ident" /\ Has(c.d, "fn", e.name)
Draws(e, at, type, bind, w, c) ==
  CASE e.k = "decide" -> DrawsDecide(e, at, type, bind, w, c)
    [] e.k = "endorse" -> DrawsEndorse(e, at, w)
    [] e.k = "send" -> DrawsSend(e, at, type, bind, w, c)
    [] e.k = "performexpr" -> DrawsEffect("sink", "sink", e.name, at, w, c)
    [] e.k = "recall" -> DrawsRecall(e, at, bind, w, c)
    [] e.k = "select" -> DrawsQuery(at, bind, w)
    [] e.k = "call" /\ NamesFn(e.subs[1], c) -> Calls(e.subs[1].name, Tail(e.subs), at, bind, w, c)
    [] e.k = "pipe" /\ NamesFn(e.subs[2], c) -> Calls(e.subs[2].name, <<e.subs[1]>>, at, bind, w, c)
    [] OTHER -> w
Parts(e) ==
  CASE e.k \in {"send", "recall"} -> <<e.subs[2]>>
    [] e.k = "select" -> e.opt
    [] e.k = "performexpr" -> e.subs \o e.opt
    [] e.k \in {"tasklit", "spawnexpr", "mdimport"} -> <<>>
    [] OTHER -> e.subs
RECURSIVE visitExpr(_, _, _, _, _, _)
visitExpr(e, at, type, bind, w, c) ==
  LET inner == FoldLeft(LAMBDA acc, x : visitExpr(x, at, NoType, "", acc, c), Draws(e, at, type, bind, w, c), Parts(e))
  IN  IF e.k = "performexpr" THEN Bind(bind, SiteId("do", w, c), inner) ELSE inner
visitAll(es, at, w, c) == FoldLeft(LAMBDA acc, x : visitExpr(x, at, NoType, "", acc, c), w, es)

-----------------------------------------------------------------------------
(***************************************************************************)
(* Statements.  An `if` on what a gate committed attributes its block to   *)
(* that gate and variant, and its else to the gate's residual arm.         *)
(***************************************************************************)
OnlyEquals(op) == op = "=="
AnyComparison(op) == op \in {"==", "!="} \* mutant
Narrows(op) == OnlyEquals(op)
Committed(e, w) == IF e.k = "member" /\ e.name = "committed" /\ e.subs[1].k = "ident" /\ e.subs[1].name \in DOMAIN w.gates
                   THEN e.subs[1].name ELSE ""
narrowing(cond, w) ==
  {[gate |-> w.gates[Committed(cond.subs[i], w)], variant |-> cond.subs[3 - i].name] :
     i \in {j \in IF cond.k = "binary" /\ Narrows(cond.name) THEN 1..2 ELSE {} :
              Committed(cond.subs[j], w) # "" /\ cond.subs[3 - j].k = "ident"}}
Via(id, variant) == [id |-> id, variant |-> variant]

RECURSIVE visitStmts(_, _, _, _)
visitIf(s, at, w, c) ==
  LET arms == narrowing(s.exprs[1], w)
      arm == CHOOSE x \in arms : TRUE
      tested == visitExpr(s.exprs[1], at, NoType, "", w, c)
  IN  IF arms = {} THEN visitStmts(s.blocks[2], at, visitStmts(s.blocks[1], at, tested, c), c)
      ELSE visitStmts(s.blocks[2], Via(arm.gate, "abstain"), visitStmts(s.blocks[1], Via(arm.gate, arm.variant), tested, c), c)
visitEmit(s, at, w, c) ==
  LET site == SiteId("do", w, c)
      drawn == DrawsEffect("emit", "event", s.name, at, w, c)
      heard == FoldLeft(LAMBDA acc, h : addEdge(site, h, "event", "", acc), drawn, SetToSeq(HandlersOf(s.name, w.nodes)))
  IN  visitAll(s.exprs, at, heard, c)
visitMemDecl(s, at, w, c) ==
  LET mem == MemId(c.owner, s.name)
      added == IF c.owner = "" THEN w ELSE addNode(mem, Node("mem", s.name, c.owner), w)
  IN  visitAll(s.exprs, at, IF c.owner = "" \/ s.exprs = <<>> THEN added ELSE addEdge(at.id, mem, "store", at.variant, added), c)
visitStmt(s, at, w, c) ==
  CASE s.k = "var" -> IF s.exprs = <<>> THEN w ELSE visitExpr(s.exprs[1], at, s.type, s.name, w, c)
    [] s.k = "assign" -> visitExpr(s.exprs[2], at, NoType, IF s.exprs[1].k = "ident" THEN s.exprs[1].name ELSE "", w, c)
    [] s.k \in {"exprstmt", "say", "return"} -> visitAll(s.exprs, at, w, c)
    [] s.k = "emit" -> visitEmit(s, at, w, c)
    [] s.k = "perform" -> visitAll(s.exprs, at, DrawsEffect("sink", "sink", s.name, at, w, c), c)
    [] s.k = "if" -> visitIf(s, at, w, c)
    [] s.k = "spawn" -> IF c.ctx.id = TopId THEN w ELSE addEdge(at.id, AgentId(s.name), "spawn", at.variant, w)
    [] s.k = "retry" -> visitStmts(s.blocks[1], at, w, c)
    [] s.k = "memdecl" -> visitMemDecl(s, at, w, c)
    [] s.k = "dispatch" -> FoldLeft(LAMBDA acc, b : visitStmts(b, at, acc, c), visitAll(s.exprs, at, w, c), s.blocks)
    [] OTHER -> w \* a `when` in a block draws nothing: only those of an agent and of the top are contexts
visitStmts(stmts, at, w, c) == FoldLeft(LAMBDA acc, s : visitStmt(s, at, acc, c), w, stmts)

-----------------------------------------------------------------------------
(* The whole graph: the contexts are walked in order, those that calls add after the others. *)
Walk(ctx, w, instances, d) ==
  visitStmts(ctx.body, Via(ctx.id, ""),
             [w EXCEPT !.site = 0, !.gates = <<>>, !.types = <<>>, !.from = [p \in ctx.params |-> ctx.id]],
             [ctx |-> ctx, owner |-> ctx.owner, inst |-> instances.of, d |-> d])
RECURSIVE WalkFrom(_, _, _, _)
WalkFrom(i, w, instances, d) ==
  IF i > Len(w.ctxs) THEN w ELSE WalkFrom(i + 1, Walk(w.ctxs[i], w, instances, d), instances, d)
buildGraph(program) ==
  LET d == DeclTable(program, <<>>)
      instances == Instances(program, d)
      nodes == StartNodes(program, instances, d)
      start == [nodes |-> nodes, edges |-> StartEdges(program, nodes), ctxs |-> Contexts(program, instances, d),
                site |-> 0, gates |-> <<>>, types |-> <<>>, from |-> <<>>]
      walked == WalkFrom(1, start, instances, d)
  IN  [nodes |-> walked.nodes, edges |-> walked.edges]

\* The nodes that some way leads to from those that nothing has to lead to.
EntryKinds == {"top", "hook", "agent", "prompt", "mem", "ledger"}
RECURSIVE ReachedFrom(_, _)
ReachedFrom(S, edges) ==
  LET more == S \cup {e.to : e \in {x \in edges : x.from \in S}} IN IF more = S THEN S ELSE ReachedFrom(more, edges)
ReachedNodes(graph, more) ==
  ReachedFrom({id \in DOMAIN graph.nodes : graph.nodes[id].k \in EntryKinds \/ id \in more}, graph.edges)
=============================================================================
