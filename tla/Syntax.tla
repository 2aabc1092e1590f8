------------------------------- MODULE Syntax -------------------------------
(***************************************************************************)
(* The abstract syntax of agape-ts (src/agape-ts/src/ast.ts) as nested     *)
(* records.  Every type, expression, statement and declaration has one     *)
(* record shape of its own, with a kind `k`; the fields a kind does not    *)
(* use keep their default.  The parts of an expression the checker's       *)
(* passes may descend into are `subs`, in source order; a statement has    *)
(* its expressions in `exprs` and its blocks in `blocks`.  A pass is then  *)
(* the set of kinds it descends into: see Visited and Statements.          *)
(***************************************************************************)
EXTENDS Naturals, Sequences

CONSTANT Segments \* the segments of every dotted name the programs write
SegmentsOf(name) == IF name \in DOMAIN Segments THEN Segments[name] ELSE <<name>>

\* A type: scalar, mem, array, credence, decision, endorsement, task, event or
\* named; the enum or declared name in `name`, inner and argument types in `args`.
TypeRef(k, name, args) == [k |-> k, name |-> name, args |-> args]
NoType == TypeRef("none", "", <<>>)
Scalar(name) == TypeRef("scalar", name, <<>>)
Named(name) == TypeRef("named", name, <<>>)
ArrayOf(inner) == TypeRef("array", "", <<inner>>)
CredenceOf(enum) == TypeRef("credence", enum, <<>>)
DecisionOf(enum) == TypeRef("decision", enum, <<>>)
EndorsementOf(inner) == TypeRef("endorsement", "", <<inner>>)

\* An expression.  `opt` is the expires of a send or a perform, the condition values
\* of a select, the rule expression of a decide, or marks the type arguments of a struct
\* literal; `labels` are field, column or scope names in order.
NoRule == [r |-> "none", name |-> ""]
Expr(k, name, subs) ==
  [k |-> k, name |-> name, subs |-> subs, opt |-> <<>>, labels |-> <<>>, rule |-> NoRule]
Lit(k) == Expr(k, "", <<>>)
Ident(name) == Expr("ident", name, <<>>)
Call(name, args) == Expr("call", "", <<Ident(name)>> \o args)
Member(obj, field) == Expr("member", field, <<obj>>)
Binary(op, left, right) == Expr("binary", op, <<left, right>>)
Send(dest, message) == Expr("send", "", <<dest, message>>)
Recall(mem, query) == Expr("recall", "", <<mem, query>>)
Struct(name, labels, subs) == [Expr("structlit", name, subs) EXCEPT !.labels = labels]
Decide(principal, credence, rule) ==
  [Expr("decide", principal, <<credence>>) EXCEPT !.rule = rule]
Endorse(subject, decision) == Expr("endorse", "", <<subject, decision>>)
Rule(r, name) == [r |-> r, name |-> name]

\* A statement.  The arms of a dispatch are `heads` with their bodies in `blocks`;
\* an abstain block, when there is one, is one block more, headed "abstain".
Stmt(k, name, exprs) ==
  [k |-> k, name |-> name, type |-> NoType, exprs |-> exprs, blocks |-> <<>>,
   heads |-> <<>>, labels |-> <<>>, about |-> "", times |-> 0]
Var(type, name, init) == [Stmt("var", name, <<init>>) EXCEPT !.type = type]
Assign(target, value) == Stmt("assign", "", <<target, value>>)
Perform(name, args) == Stmt("perform", name, args)
Emit(name, args) == Stmt("emit", name, args)
Return(value) == Stmt("return", "", <<value>>)
If(cond, then, else) == [Stmt("if", "", <<cond>>) EXCEPT !.blocks = <<then, else>>]
Retry(n, body) == [Stmt("retry", "", <<>>) EXCEPT !.blocks = <<body>>, !.times = n]
Spawn(type, name, args) == [Stmt("spawn", name, args) EXCEPT !.type = Named(type)]
When(etype, binder, about, body) ==
  [Stmt("when", etype, <<>>) EXCEPT !.labels = <<binder>>, !.about = about, !.blocks = <<body>>]
Dispatch(gate, heads, bodies) ==
  [Stmt("dispatch", "", <<gate>>) EXCEPT !.heads = heads, !.blocks = bodies]
DepDecl(relation, names) == [Stmt("depdecl", relation, <<>>) EXCEPT !.labels = names]
ExprStmt(e) == Stmt("exprstmt", "", <<e>>)

\* A declaration.  `whens` are when statements, `hooks` are bodies, each for the event in `on`.
Field(type, name) == [type |-> type, name |-> name]
AllGrants == {<<"*", "*">>}
Decl(k, name) ==
  [k |-> k, name |-> name, pub |-> FALSE, fields |-> <<>>, params |-> <<>>, generic |-> FALSE,
   variants |-> <<>>, super |-> "", reversible |-> FALSE, pure |-> FALSE, ret |-> NoType,
   grants |-> {}, mems |-> <<>>, on |-> <<>>, hooks |-> <<>>, whens |-> <<>>, ctor |-> <<>>, extends |-> "",
   ifaces |-> <<>>, members |-> <<>>, body |-> <<>>]
MemoryDescriptor(name, type, modality, scope, retention) ==
  [name |-> name, type |-> type, modality |-> modality, scope |-> scope, retention |-> retention]
ImportDecl(module, pub, names, alias) ==
  [module |-> module, pub |-> pub, names |-> names, alias |-> alias]
Program(imports, decls, stmts) == [imports |-> imports, decls |-> decls, stmts |-> stmts]

-----------------------------------------------------------------------------
(***************************************************************************)
(* Passes.  `kinds` are the kinds of expression (of statement) a pass      *)
(* descends into; it looks at the nodes it reaches.                        *)
(***************************************************************************)
RECURSIVE Visited(_, _)
Visited(e, kinds) ==
  {e} \cup IF e.k \in kinds THEN UNION {Visited(e.subs[i], kinds) : i \in DOMAIN e.subs} ELSE {}

RECURSIVE Statements(_, _)
Statements(body, kinds) ==
  UNION {{body[i]} \cup IF body[i].k \in kinds
                        THEN UNION {Statements(body[i].blocks[j], kinds) : j \in DOMAIN body[i].blocks}
                        ELSE {} : i \in DOMAIN body}

Range1(s) == {s[i] : i \in DOMAIN s}
Expressions(stmts, stmtKinds, kinds) ==
  UNION {UNION {Visited(e, kinds) : e \in Range1(s.exprs)} : s \in {t \in stmts : t.k \in stmtKinds}}

RECURSIVE TypeNames(_)
TypeNames(t) == (IF t.k = "named" THEN {t.name} ELSE {}) \cup UNION {TypeNames(t.args[i]) : i \in DOMAIN t.args}

\* The bodies of a program a pass starts from.
AgentBodies(d) == Range1(d.hooks) \cup {w.blocks[1] : w \in Range1(d.whens)} \cup {d.ctor}
Bodies(program) ==
  {program.stmts} \cup UNION {IF d.k = "agent" THEN AgentBodies(d) ELSE IF d.k = "fn" THEN {d.body} ELSE {}
                              : d \in Range1(program.decls)}
BlockKinds == {"if", "when", "retry", "dispatch"}
=============================================================================
