------------------------------ MODULE MCLanguage ------------------------------
(***************************************************************************)
(* The language front end checked end to end: the text of a program of the *)
(* pool is read, linked and checked, and, when it is accepted, run         *)
(* statement by statement against every answer of the world; prompts       *)
(* arrive between two statements.  Beside the programs, the fusions: their *)
(* arithmetic is a machine of its own.                                     *)
(***************************************************************************)
EXTENDS Checker, Evaluation, Fusion, Graph, ModuleLinker, SourceText

CONSTANTS Answers,  \* what a model, a principal or a tool may answer
          Length,   \* how many answers a statement may need
          Pools,     \* the sets of units of the run
          Machinery, \* the machines of the run
          \* The parts of the front end, parameters of the machine that runs them:
          \* TLC's statistics would otherwise unfold them at every call.
          Writing(_),              \* the text of a program
          Reading(_),           \* what the parser makes of a text
          Linking(_, _, _),     \* what the linker makes of a program and its modules
          Judging(_, _, _),    \* the checker's verdict
          Drawing(_),           \* the graph of a program
          Starting(_),          \* the machine that will run a program
          Running(_, _, _),     \* a machine after a statement
          Prompting(_, _, _, _)    \* a machine after a prompt and its input

VARIABLES part, tried, program, phase, verdict, linked, graph, pc, m
vars == <<tried, program, phase, verdict, linked, graph, pc, m>>

-----------------------------------------------------------------------------
(***************************************************************************)
(* Units: a program with what it is linked and configured with.  It is     *)
(* given as its text, of which one token may be missing, or as a tree; a   *)
(* unit may be there only to be read.                                      *)
(***************************************************************************)
DottedNames == ("B.f" :> <<"B", "f">>) @@ ("B.g" :> <<"B", "g">>) @@ ("B.C.h" :> <<"B", "C", "h">>)
Configured == [ingress |-> "warn", screened |-> {}, bound |-> <<>>, strict |-> FALSE, setsPolicy |-> FALSE, textOnlyAtZero |-> FALSE,
               wiring |-> {}, results |-> <<>>]
Unit(decls, stmts) == [program |-> Program(<<>>, decls, stmts), header |-> "", modules |-> <<>>, manifest |-> Configured,
                       given |-> "text", core |-> TRUE, cut |-> 0, readOnly |-> FALSE]

V == "V"
Str(s) == [Lit("string") EXCEPT !.name = s]
Ask(message) == Send(Lit("self"), message)
Reply(name) == Var(Text, name, Ask(Str("q")))
Graded(name, message) == Var(CredenceOf(V), name, Ask(message))
DecideOn(c) == Decide("", Ident(c), Rule("confidence", ""))
Gate == Var(DecisionOf(V), "d", DecideOn("c"))
EndorseBy(x) == Var(EndorsementOf(Text), "e", Endorse(x, Ident("d")))
CommittedIs(v) == Binary("==", Member(Ident("d"), "committed"), Ident(v))
Act(x) == Perform("Act", <<x>>)
Say(x) == Emit("Said", <<x>>)
Heard == Emit("Heard", <<>>)
OnSaid(body) == When("Said", "s", "", body)
IfTrue(body) == If([Lit("bool") EXCEPT !.name = "true"], body, <<>>)
Sequences(steps, n) == UNION {[1..k -> steps] : k \in 1..n}

EventSaid == [Decl("event", "Said") EXCEPT !.fields = <<Field(Text, "f")>>]
EventHeard == Decl("event", "Heard")
ActDecl == [Decl("action", "Act") EXCEPT !.fields = <<Field(Text, "x")>>]
EnumV == [Decl("enum", V) EXCEPT !.variants = <<"yes", "no">>]
Vocabulary == <<EnumV, EventSaid, EventHeard, ActDecl>>
AgentA(body) == [Decl("agent", "A") EXCEPT !.grants = {<<"perform", "Act">>}, !.on = <<"awake">>, !.hooks = <<body>>]
Starts(agent) == <<Spawn(agent, "a", <<>>), Stmt("awake", "a", <<>>)>>
OfAgent(a) == Unit(Vocabulary \o <<a>>, Starts("A"))
OfBody(body) == OfAgent(AgentA(body))

-----------------------------------------------------------------------------
(* Gates: a reply is judged, decided and endorsed before it acts, or is not. *)
GateSteps == {EndorseBy(Ident("r")), EndorseBy(Str("s")), Act(Ident("e")), Act(Ident("r")), Act(Member(Ident("e"), "subject")),
              Assign(Ident("r"), Ask(Str("q"))), Say(Ident("r"))}
GatePool ==
  {OfBody(<<Reply("r"), Graded("c", p), Gate>> \o again \o <<If(c, b, <<>>)>>) :
     again \in {<<>>, <<Assign(Ident("r"), Ask(Str("q")))>>},
     p \in {Ident("r"), Expr("fstring", "", <<Ident("r")>>), Str("q")},
     c \in {CommittedIs("yes"), CommittedIs("abstained"), Binary("==", Ident("r"), Str("yes"))},
     b \in Sequences(GateSteps, 2)}

(* Retries: typed replies that may not match, alone, nested and after an effect. *)
Number == Var(Scalar("int"), "n", Ask(Str("q")))
RetrySteps == {Number, Heard, Graded("c", Str("q")), Retry(2, <<Number>>)}
RetryPool == {OfBody(<<Retry(2, b), Heard>>) : b \in Sequences(RetrySteps, 2)}

(* Handlers: hoisted in a block, in a retry, in a handler; with reactions that crash. *)
HandlerSteps == {OnSaid(<<Heard>>), OnSaid(<<Number, Heard>>), Say(Str("s")), IfTrue(<<OnSaid(<<Heard>>), Say(Str("s"))>>),
                 Retry(2, <<OnSaid(<<Heard>>), Number, Say(Str("s"))>>), OnSaid(<<OnSaid(<<Heard>>), Say(Str("s"))>>)}
Recovering(body, reaction) ==
  [AgentA(body) EXCEPT !.on = <<"awake", "crash">>, !.hooks = <<body, <<Heard>> >>, !.whens = <<OnSaid(reaction)>>]
HandlerPool ==
  {OfBody(b) : b \in Sequences(HandlerSteps, 3)} \cup
  {OfAgent(Recovering(b, r)) : b \in Sequences(HandlerSteps, 1), r \in {<<Number, Heard>>, <<Say(Str("s"))>>}} \cup
  {Unit(Vocabulary \o <<AgentA(<<Number, Say(Str("s"))>>)>>, <<OnSaid(<<Heard>>)>> \o Starts("A") \o <<Stmt("awake", "a", <<>>)>>)}

(* Functions: returns at the tail and elsewhere. *)
ReturnSteps == {Return(Str("s")), IfTrue(<<Return(Str("s"))>>), Retry(1, <<Return(Str("s"))>>), Say(Ident("p"))}
FnF(body) == [Decl("fn", "F") EXCEPT !.params = <<Field(Text, "p")>>, !.ret = Text, !.body = body]
ReturnPool ==
  {Unit(Vocabulary \o <<FnF(b), AgentA(<<Reply("r"), Var(Text, "t", Call("F", <<x>>)), Act(Ident("t"))>>)>>, Starts("A")) :
     b \in Sequences(ReturnSteps, 2), x \in {Ident("r"), Str("s")}}

(* Operands: three credences, two declared groups. *)
Groups == {DepDecl(relation, names) : relation \in {"dependent", "independent"},
                                      names \in {<<"c1", "c2">>, <<"c2", "c3">>, <<"c3", "c1">>, <<"c1", "c2", "c3">>}}
Listing(es) == Expr("arraylit", "", es)
Operands == {Listing(<<Ident("c1"), Ident("c2")>>), Listing(<<Ident("c1"), Ident("c2"), Ident("c3")>>), Listing(<<Ident("c3"), Ident("c1"), Ident("c2")>>),
            Listing(<<Ident("c1"), Ident("c3")>>), Listing(<<Ident("c1"), Ask(Str("q"))>>), Ident("c1")}
FusionPool ==
  {OfBody(<<Graded("c1", Str("q")), Graded("c2", Str("q")), Graded("c3", Str("q")), g, h, Var(CredenceOf(V), "c", Expr("quorum", "", <<ops>>)),
            Gate>>) : g \in Groups, h \in Groups, ops \in Operands}

(* Memory: what was stored comes back raw, and a decision may endorse it. *)
Keeping(type, body) == [AgentA(body) EXCEPT !.mems = <<MemoryDescriptor("M", type, "opaque", <<"project">>, "session")>>]
WithMemory(body) == Keeping(Text, body)
StructDoc == [Decl("struct", "Doc") EXCEPT !.fields = <<Field(Text, "body")>>]
Enclosing(type) == [Decl("struct", "Nest") EXCEPT !.fields = <<Field(Named("Doc"), "doc"), Field(type, "inner")>>]
Kept == {Text, Named(V), Named("Nest"), ArrayOf(Named("Nest")), CredenceOf(V), Named("Lost"), TypeRef("task", "", <<Text>>)}
Recalled == Recall(Ident("M"), Str("q"))
First(e) == Expr("index", "", <<e, Lit("int")>>)
MemorySteps == {ExprStmt(Send(Ident("M"), Str("s"))), ExprStmt(Send(Ident("M"), Ident("r"))), Var(ArrayOf(Text), "h", Recalled),
                Var(Text, "r", First(Ident("h"))), Act(First(Ident("h"))), Stmt("forget", "M", <<>>), Act(First(Recalled)), Act(Ident("r"))}
MemoryPool ==
  {OfAgent(WithMemory(<<Reply("r")>> \o b)) : b \in Sequences(MemorySteps, 3)} \cup
  {OfAgent(WithMemory(<<Reply("r"), ExprStmt(Send(Ident("M"), Ident("r"))), Var(ArrayOf(Text), "h", Recalled), Var(Text, "x", First(Ident("h"))),
                        Graded("c", p), Gate, If(CommittedIs("yes"), <<EndorseBy(Ident(x)), Act(Ident("e"))>>, <<>>)>>)) :
     p \in {Ident("x"), Ident("r")}, x \in {"x", "r"}} \cup
  {Unit(Vocabulary \o <<StructDoc, Enclosing(t), Keeping(u, <<Heard>>)>>, Starts("A")) :
     t \in {Named("Doc"), Named("Nest"), ArrayOf(Named("Nest")), CredenceOf(V)}, u \in Kept}

(* A crash outside the bodies of handlers. *)
SleepPool == {Unit(Vocabulary \o <<[AgentA(<<>>) EXCEPT !.on = <<"sleep">>, !.hooks = <<b>>]>>, Starts("A") \o <<Stmt("sleep", "a", <<>>)>>) :
                b \in Sequences(RetrySteps, 2)}

(* Wiring: events and actions that tools answer with an event. *)
Wire(k, name, tool) == [k |-> k, name |-> name, toolReady |-> TRUE, adapter |-> TRUE, tool |-> tool, result |-> "Came"]
EventCame == [Decl("event", "Came") EXCEPT !.fields = <<Field(Text, "f")>>]
OnCame(body) == When("Came", "s", "", body)
Payload == Member(Ident("s"), "f")
WiringSteps == {Say(Ident("r")), Say(Str("s")), Act(Str("s")), Act(Ident("r"))}
Reactions == {<<Act(Payload)>>, <<Say(Str("s"))>>, <<Var(Text, "x", Payload), Act(Ident("x"))>>,
              <<Graded("c", Payload), Gate, If(CommittedIs("yes"), <<EndorseBy(Payload), Act(Ident("e"))>>, <<>>)>>}
WiringPool ==
  {[Unit(Vocabulary \o <<EventCame, [AgentA(<<Reply("r")>> \o b) EXCEPT !.whens = <<OnCame(r)>>]>>, Starts("A"))
      EXCEPT !.manifest.wiring = {Wire("event", "Said", FALSE), [Wire("action", "Act", TRUE) EXCEPT !.adapter = ready]}] :
     b \in Sequences(WiringSteps, 2), r \in Reactions, ready \in BOOLEAN}

(* Authority: an agent that extends another, sends between agents, and a hook that crashes. *)
GrantSets == {{<<"perform", "Act">>}, {<<"perform", "Other">>}, {}, {<<"reach", "A">>, <<"perform", "Act">>}}
Extending(g, h) == <<[AgentA(<<>>) EXCEPT !.grants = g], [AgentA(<<Act(Str("s"))>>) EXCEPT !.name = "B", !.extends = "A", !.grants = h]>>
TaskOf(objective) == [Expr("tasklit", "", <<objective, Str("s")>>) EXCEPT !.labels = <<"Act">>]
Expiring(e) == [e EXCEPT !.opt = <<Lit("int")>>]
AuthorityPool ==
  {Unit(Vocabulary \o Extending(g, h), Starts("B")) : g \in GrantSets, h \in GrantSets} \cup
  {Unit(Vocabulary \o <<AgentA(<<>>), [AgentA(<<Var(Text, "r", e)>>) EXCEPT !.name = "B", !.grants = g]>>,
        <<Spawn("A", "b", <<>>)>> \o w \o Starts("B") \o <<Stmt("awake", "b", <<>>)>>) :
     g \in GrantSets, w \in {<<>>, <<Stmt("awake", "b", <<>>)>>},
     e \in {Send(Ident("b"), Str("q")), Expiring(Send(Ident("b"), Str("q")))}} \cup
  {OfAgent([AgentA(<<Reply("r"), Var(Named("TaskSpec"), "t", TaskOf(x))>> \o b) EXCEPT !.grants = g]) :
     g \in GrantSets, x \in {Str("s"), Ident("r"), Lit("int")}, b \in {<<>>, <<Act(Member(Ident("t"), "objective"))>>}}

(* Prompts: a handler of an unscreened prompt, under both policies. *)
OnPrompt(body) == When("Prompt", "s", "P", body)
PromptText == Member(Ident("s"), "text")
PromptSteps == {Say(PromptText), Var(Text, "x", Ask(PromptText)), Var(Text, "x", PromptText), Act(PromptText), Var(Text, "y", Ask(Ident("x")))}
PromptPool ==
  {[Unit(Vocabulary \o <<[Decl("prompt", "P") EXCEPT !.ret = t], [AgentA(<<>>) EXCEPT !.whens = <<OnPrompt(b)>>]>>, Starts("A"))
      EXCEPT !.manifest.ingress = i, !.manifest.screened = sc] :
     t \in {Text, Scalar("int")}, b \in Sequences(PromptSteps, 2), i \in {"warn", "deny"}, sc \in {{}, {"P"}}}

(* Modules: B and C with public and private names, imported in every way. *)
Names(public, private) == [n \in public \cup private |-> n \in public]
Companion(name, public, private, imports) == [given |-> name, header |-> "", own |-> Names(public, private), imports |-> imports]
Headers == {ImportDecl(mod, pub, names, alias) : mod \in {"B", "C"}, pub \in BOOLEAN,
                                                names \in {<<>>, <<"f">>, <<"h">>, <<"g">>}, alias \in {"", "B"}}
Private == {i \in Headers : ~i.pub}
Linked == <<Companion("B", {"f"}, {"g"}, <<>>), Companion("C", {"h", "f"}, {"g"}, <<>>)>>
Unreadable == {<<Companion("B", {"f"}, {"g"}, <<i>>), Linked[2]>> : i \in {x \in Headers : x.module = "C"}} \cup
              {<<[Linked[1] EXCEPT !.header = "B"], Linked[2]>>}
Uses == {<<>>, <<ExprStmt(Call("f", <<>>))>>, <<ExprStmt(Member(Ident("B"), "f"))>>, <<ExprStmt(Member(Ident("B"), "g"))>>,
         <<ExprStmt(Member(Member(Ident("B"), "C"), "h"))>>}
Importing(imports, uses, modules) == [Unit(<<>>, uses) EXCEPT !.program.imports = imports, !.modules = modules, !.given = "tree"]
ModulePool ==
  {Importing(is, u, Linked) : u \in Uses, is \in {<<i>> : i \in Headers} \cup {<<i, j>> : i \in Private, j \in Private}} \cup
  {Importing(<<i>>, u, c) : u \in Uses, i \in Headers, c \in Unreadable}

(* Reading: every kind of expression in every place of every other, every statement, every *)
(* declaration; and programs with each one of their tokens missing.                       *)
ReadOnly(decls, stmts) == [Unit(decls, stmts) EXCEPT !.readOnly = TRUE]
ea == Ident("a")
eb == Ident("b")
Quorum(e) == Expr("quorum", "", <<e>>)
Selecting(event, columns, conds) == [Expr("select", event, <<>>) EXCEPT !.labels = columns, !.opt = conds]
DecideBy(e) == [Decide("", ea, Rule("expr", "")) EXCEPT !.opt = <<e>>]
PerformFor(e) == [Expr("performexpr", "Act", <<ea>>) EXCEPT !.opt = <<e>>]
AllOf(e) == Expr("agg", "all", <<e>>)
Plain ==
  {ea, Ident("where"), Ident("abstained"), Lit("int"), Lit("null"), Lit("self"), Str("s"), [Lit("bool") EXCEPT !.name = "true"],
   Expr("mdimport", "s", <<>>), Binary("==", ea, eb), Binary("<", ea, eb), Binary("+", ea, eb), Binary("*", ea, eb), Expr("unary", "!", <<ea>>),
   First(ea), Member(ea, "text"), Call("f", <<ea, eb>>), Expr("call", "", <<Member(ea, "g")>>), Send(ea, eb), Expiring(Send(ea, eb)), Recall(ea, eb),
   Expr("pipe", "", <<ea, eb>>), Decide("", ea, Rule("conformal", "")), Decide("P", ea, Rule("policy", "r")), DecideBy(eb), Endorse(ea, eb),
   Struct("Doc", <<"body">>, <<ea>>), Struct("B.C.h", <<"x", "y">>, <<ea, eb>>), Struct("", <<"x">>, <<ea>>), Listing(<<ea, eb>>), Listing(<<>>), Quorum(ea),
   Expr("fstring", "", <<ea, Binary("+", ea, eb)>>), Expr("spawnexpr", "B.f", <<ea>>), Expr("performexpr", "Act", <<ea, eb>>), PerformFor(ea), TaskOf(ea),
   Selecting("", <<"*">>, <<>>), Selecting("", <<"a", "b">>, <<ea>>), Selecting("Said", <<"*">>, <<ea, eb>>)}
Around(e) ==
  {Binary("==", e, ea), Binary(">=", ea, e), Binary("-", e, ea), Binary("-", ea, e), Binary("/", e, ea), Binary("/", ea, e), Expr("unary", "-", <<e>>),
   Expr("index", "", <<e, ea>>), Expr("index", "", <<ea, e>>), Member(e, "perform"), Call("f", <<e, ea>>), Expr("call", "", <<e, ea>>), Send(e, ea), Send(ea, e),
   Recall(e, ea), Recall(ea, e), Expr("pipe", "", <<e, ea>>), Expr("pipe", "", <<ea, e>>), Decide("", e, Rule("confidence", "")), Endorse(e, ea),
   Endorse(ea, e), Struct("Doc", <<"body", "x">>, <<e, ea>>), Listing(<<e, ea>>), Quorum(e), Expr("fstring", "", <<e>>), Expr("spawnexpr", "A", <<e>>),
   Expr("performexpr", "Act", <<e>>), PerformFor(e), TaskOf(e)}
AroundAside(e) == {[Send(ea, eb) EXCEPT !.opt = <<e>>], DecideBy(e), Selecting("", <<"*">>, <<e>>)}
Nestings == Plain \cup UNION {Around(e) \cup AroundAside(e) : e \in Plain}
OutOfCore(u) == [u EXCEPT !.core = FALSE]
DottedType == Named("B.f")
Types == {Text, Scalar("int"), ArrayOf(Text), ArrayOf(ArrayOf(Named("Doc"))), CredenceOf(V), CredenceOf("bool"), DecisionOf(V), EndorsementOf(ArrayOf(Text)),
          TypeRef("task", "", <<Text>>), Named("Doc"), DottedType, TypeRef("named", "LedgerEntry", <<Named("Said")>>)}
Bodies2 == {<<>>, <<Heard>>, <<Heard, Retry(2, <<Return(ea)>>)>>}
ReadStmts ==
  {Var(t, "x", ea) : t \in Types} \cup {[Stmt("var", "x", <<>>) EXCEPT !.type = t] : t \in Types} \cup
  {[When(n, x, w, y) EXCEPT !.exprs = g] : n \in {"Said", "B.C.h"}, x \in {"s"}, w \in {"", "a"}, g \in {<<>>, <<Binary("==", ea, eb)>>}, y \in Bodies2} \cup
  {When("Said", "", "", <<>>)} \cup {If(ea, x, y) : x \in Bodies2, y \in Bodies2 \cup {<<If(eb, <<Heard>>, <<Heard>>)>>}} \cup
  {Stmt(k, "", <<e>>) : k \in {"complete", "fail", "say", "return"}, e \in {ea, Send(ea, eb)}} \cup {Stmt("return", "", <<>>), Stmt("cancel", "", <<First(ea)>>)} \cup
  {Stmt(k, "a", <<>>) : k \in {"awake", "sleep", "forget", "memdecl"}} \cup {Stmt("memdecl", "a", <<eb>>)} \cup
  {DepDecl(k, n) : k \in {"dependent", "independent"}, n \in {<<"a">>, <<"a", "b">>}} \cup
  {Spawn(t, "x", es) : t \in {"A", "B.f"}, es \in {<<>>, <<ea, eb>>}} \cup {Stmt(k, "B.f", es) : k \in {"emit", "perform"}, es \in {<<>>, <<ea, eb>>}} \cup
  {Assign(e, ea) : e \in {ea, First(ea), Member(ea, "text"), Member(First(ea), "text")}} \cup {ExprStmt(e) : e \in {Call("f", <<>>), Send(ea, eb), Recall(ea, eb)}} \cup
  {ExprStmt(e) : e \in {Decide("", ea, Rule("policy", "r")), Endorse(ea, eb), Decide("p", ea, Rule("confidence", ""))}}
DispatchStmts == {Dispatch(Decide("", ea, Rule("confidence", "")), <<"yes", "true">> \o h, <<<<Heard>>, <<>>>> \o x) :
                    h \in {<<"abstain">>}, x \in {<<<<Heard>>>>}}
Structs(generic) == [Decl("struct", "Doc") EXCEPT !.fields = <<Field(Text, "body"), Field(Named("Doc"), "x")>>, !.generic = generic]
FnOf(type, params, body) == [Decl("fn", "f") EXCEPT !.ret = type, !.params = params, !.body = body]
Params == {<<>>, <<Field(Text, "x")>>, <<Field(ArrayOf(Named("Doc")), "x"), Field(DottedType, "y")>>}
FullAgent == [WithMemory(<<Reply("r")>>) EXCEPT !.extends = "B.f", !.params = <<Field(Text, "p")>>, !.fields = <<Field(Text, "x")>>, !.ctor = <<Heard>>,
               !.on = <<"awake", "assigned", "cancelled">>, !.hooks = <<<<Reply("r")>>, <<>>, <<Heard>>>>, !.whens = <<OnSaid(<<Heard>>)>>,
               !.grants = {<<"perform", "Act">>, <<"reach", "B.f">>, <<"use", "x">>}]
ReadDecls ==
  {FnOf(t, ps, <<Heard>>) : t \in Types \ {DottedType}, ps \in Params} \cup {[FnOf(Text, ps, <<>>) EXCEPT !.pure = TRUE] : ps \in Params} \cup
  {[Decl("event", "Said") EXCEPT !.fields = ps, !.super = x] : ps \in Params, x \in {"", "Heard"}} \cup
  {[Decl("action", "Act") EXCEPT !.fields = ps] : ps \in Params} \cup {[Decl("prompt", "P") EXCEPT !.ret = t] : t \in Types \ {DottedType}} \cup
  {Decl("principal", "P"), EnumV, Structs(FALSE), AgentA(<<>>), [AgentA(<<>>) EXCEPT !.grants = AllGrants], FullAgent}
DeclsOutOfCore ==
  {Decl("policydecl", "p"), [ActDecl EXCEPT !.reversible = TRUE], [StructDoc EXCEPT !.fields[1].type = TypeRef("named", "Doc", <<Text>>)],
   AgentA(<<Dispatch(Decide("", ea, Rule("confidence", "")), <<"yes">>, <<<<Heard>>>>)>>), AgentA(<<Var(Text, "x", AllOf(ea))>>)}
Marked(d) == IF d.k \in {"prompt", "principal"} THEN {d} ELSE {d, [d EXCEPT !.pub = TRUE]}
CutPrograms ==
  {Unit(Vocabulary \o <<FullAgent>>, Starts("A")), OfBody(<<Reply("r"), Graded("c", Ident("r")), Gate, If(CommittedIs("yes"), <<EndorseBy(Ident("r"))>>, <<Heard>>)>>),
   Unit(<<FnF(<<Return(Expr("fstring", "", <<Ident("p")>>))>>), Structs(FALSE)>>, <<Var(Named("Doc"), "x", Struct("Doc", <<"body">>, <<Call("F", <<ea, eb>>)>>))>>),
   Unit(<<>>, <<Retry(2, <<[OnSaid(<<Heard>>) EXCEPT !.exprs = <<Binary("<", ea, eb)>>]>>), ExprStmt(Expiring(Send(ea, eb))), Var(ArrayOf(Text), "x", Recall(ea, eb))>>),
   Unit(<<>>, <<Var(Text, "x", Selecting("", <<"*">>, <<ea>>)), DepDecl("dependent", <<"a", "b">>), Var(Text, "x", Quorum(Listing(<<ea, eb>>))),
                Assign(First(ea), Expr("pipe", "", <<ea, eb>>)), Var(Text, "x", TaskOf(ea))>>)}
Cuts(u) == {[u EXCEPT !.cut = i, !.readOnly = TRUE] : i \in 1..(Len(ProgramText(u.program)) - 1)}
ParserPools ==
  {{ReadOnly(<<>>, <<Var(Text, "x", e)>>) : e \in Nestings}, {OutOfCore(ReadOnly(<<>>, <<Var(Text, "x", e)>>)) : e \in Around(AllOf(ea))},
   {ReadOnly(<<>>, <<s, Heard>>) : s \in ReadStmts}, {OutOfCore(ReadOnly(<<>>, <<s, Heard>>)) : s \in DispatchStmts},
   {ReadOnly(<<d>>, <<Heard>>) : d \in UNION {Marked(x) : x \in ReadDecls}}, {OutOfCore(ReadOnly(<<d>>, <<Heard>>)) : d \in DeclsOutOfCore}}
  \cup {Cuts(u) : u \in CutPrograms}

Capitals == {"LedgerEntry", "V", "Said", "Heard", "Act", "Other", "A", "B", "C", "M", "F", "P", "Doc", "Came", "Nest", "Lost", "TaskSpec", "Prompt", "Credence", "Decision",
             "Endorsement", "Task"}

(* Graphs: arms, loops of events, helpers of two agents, an agent known by a parameter, a query. *)
Chosen(b) == If(CommittedIs("yes"), <<EndorseBy(Ident("r"))>> \o b, <<Heard>>)
Refusing(op) == If(Binary(op, Member(Ident("d"), "committed"), Ident("no")), <<Heard>>, <<Act(Str("s"))>>)
GraphSteps == {Refusing("=="), Refusing("!="), Chosen(<<Act(Ident("e"))>>), Say(Str("s")), Retry(2, <<Chosen(<<Say(Str("s"))>>)>>),
               Var(ArrayOf(Text), "l", Selecting("", <<"*">>, <<>>)), ExprStmt(Call("F", <<Str("s")>>)), If(CommittedIs("yes"), <<Heard>>, <<Refusing("==")>>)}
FnActs == FnF(<<Act(Str("s")), Return(Str("s"))>>)
FnAsks == FnF(<<Reply("r"), Graded("c", Ident("p")), Gate, Refusing("!="), Return(Str("s"))>>)
Graphed(a, f, t) == Unit(Vocabulary \o <<f, a, [AgentA(<<>>) EXCEPT !.name = "B", !.params = <<Field(Named("A"), "h")>>, !.grants = AllGrants,
                                           !.hooks = <<<<Var(Text, "t", Call("F", <<Str("s")>>)), Var(Text, "r", Send(Ident("h"), Ident("t"))), Heard>>>>]>>, t)
Hearing == When("Heard", "s", "", <<Say(Str("s"))>>)
GraphPool ==
  {Graphed([AgentA(<<Reply("r"), Graded("c", Ident("r")), Gate>> \o b) EXCEPT !.whens = w], f,
           h \o Starts("A") \o <<Spawn("B", "b", <<Ident("a")>>), Stmt("awake", "b", <<>>)>>) :
     b \in Sequences(GraphSteps, 1), f \in {FnActs, FnAsks}, w \in {<<>>, <<OnSaid(<<Heard>>)>>}, h \in {<<>>, <<Hearing>>}}

AllPools == ParserPools \cup
  {GatePool, RetryPool, HandlerPool, ReturnPool, FusionPool, MemoryPool, WiringPool, AuthorityPool, PromptPool, ModulePool, GraphPool, SleepPool}

-----------------------------------------------------------------------------
(* Fusions of up to four credences, with groups that chain, overlap and repeat. *)
Together(names) == [relation |-> "dependent", names |-> names]
Apart(names) == [relation |-> "independent", names |-> names]
Everyone == {"a", "b", "c", "d"}
Chains == {<<Together({"a", "b"}), Together({"c", "d"}), Together({"b", "c"})>>, <<Apart(Everyone)>>, <<Apart(Everyone), Together({"d", "a"})>>,
           <<Together({"a", "c"}), Together({"b", "d"}), Together({"d", "c"}), Apart(Everyone)>>,
           <<Together({"c", "d"}), Together({"b", "c"}), Together({"a", "b"}), Apart(Everyone)>>, <<Together({"a", "b", "c"}), Apart(Everyone)>>}
Scores == {<<1, 0, 3, 2>>, <<2, 3, 1, 1>>, <<3, 3, 0, 2>>}
NameLists == Sequences({"a", "d", Anonymous}, 3) \cup {<<>>, <<"a", "b", "c", "d">>, <<"d", "a", "c", "b">>, <<"b", "c", "a", "d">>, <<"a", "b", "a", "c">>}
MCFusions ==
  {[op |-> c[1], k |-> c[2], names |-> n, probs |-> [i \in 1..Len(n) |-> p[i]], groups |-> g] :
     c \in ({"all", "any"} \X {0}) \cup ({"quorum"} \X (0..3)), n \in NameLists, p \in Scores, g \in Chains}

-----------------------------------------------------------------------------
(* The parts of the front end (parser.ts, check.ts, graph.ts, interp.ts).  *)
TheText(p) == LET text == ProgramText(p) IN text
TheParser(text) == LET reading == parse(text) IN reading
TheLinker(p, header, modules) == LET linking == linkModules(p, header, modules) IN linking
TheChecker(p, error, manifest) == LET judged == check(p, error, <<>>, manifest) IN judged
TheGraph(p) == LET drawn == buildGraph(p) IN drawn
TheMachine(p) == LET begun == Begin(p, Machine) IN begun
TheInterpreter(stmt, n, c) == LET after == execStmt(stmt, 1, n, c) IN after
ThePrompt(name, input, n, c) == LET after == deliverPrompt(name, input, n, c) IN after

-----------------------------------------------------------------------------
cx == [d |-> DeclTable(program, <<>>), manifest |-> tried.manifest, ret |-> NoType]
NoGraph == [nodes |-> <<>>, edges |-> {}]
NoFusion ==
  /\ fusion = [op |-> "all", k |-> 0, names |-> <<>>, probs |-> <<>>, groups |-> <<>>]
  /\ stage = "cover" /\ parent = <<>> /\ group = 1 /\ unit = 1 /\ clusters = <<>>
  /\ dp = <<>> /\ odds = [yes |-> 1, no |-> 1] /\ fused = [num |-> 0, den |-> 1]
Init ==
  /\ program = Program(<<>>, <<>>, <<>>)
  /\ phase = "loaded" /\ verdict = "none" /\ linked = <<>> /\ graph = NoGraph /\ pc = 1
  /\ m = Machine

\* What a step computes is bound by \E, once for the step.
Source == IF tried.cut = 0 THEN Writing(tried.program) ELSE RemoveAt(Writing(tried.program), tried.cut)
Readings == IF tried.given = "tree" THEN {Read([program |-> tried.program], <<>>)} ELSE UNION {{Reading(text)} : text \in {Source}}
ReadSource ==
  /\ phase = "loaded"
  /\ \E r \in Readings :
       \/ r.ok /\ phase' = "read" /\ verdict' = "none" /\ program' = r.v.program /\ m' = Starting(r.v.program)
       \/ ~r.ok /\ phase' = "rejected" /\ verdict' = "ParseError" /\ UNCHANGED <<program, m>>
  /\ UNCHANGED <<tried, linked, graph, pc>>
\* The graph is drawn from the tree that is checked; it is kept of the programs that run.
Check ==
  /\ phase = "read" /\ ~tried.readOnly
  /\ \E l \in {Linking(program, tried.header, tried.modules)} :
       \E v \in {Judging(program, l.error, tried.manifest)} :
         /\ linked' = l /\ verdict' = v
         /\ \/ v # "none" /\ phase' = "rejected" /\ graph' = graph
            \/ v = "none" /\ phase' = "accepted" /\ graph' = IF tried.modules = <<>> THEN Drawing(program) ELSE NoGraph
  /\ UNCHANGED <<tried, program, pc, m>>
Machines == {[m EXCEPT !.oracle = world] : world \in [1..Length -> Answers]}
Somewhere == CHOOSE n \in Machines : TRUE
\* A step that asks nothing of the world comes to the same in all of them.
MachinesFor(after) == IF Len(after.oracle) = Length THEN {Somewhere} ELSE Machines
Ran(after) ==
  /\ m' = [after EXCEPT !.oracle = <<>>]
  /\ phase' = IF after.fault = "none" THEN phase ELSE "failed"
  /\ pc' = pc + 1
  /\ UNCHANGED <<tried, program, verdict, linked, graph>>
Execute ==
  /\ phase = "accepted" /\ m.fault = "none" /\ tried.modules = <<>> /\ pc <= Len(program.stmts)
  /\ \E c \in {cx} : \E first \in {Running(program.stmts[pc], Somewhere, c)} :
       \E after \in {Running(program.stmts[pc], n, c) : n \in MachinesFor(first)} : Ran(after)
\* A prompt arrives when the program has run, once.
Deliver ==
  /\ phase = "accepted" /\ m.fault = "none" /\ tried.modules = <<>> /\ pc = Len(program.stmts) + 1
  /\ \E x \in {d \in Range1(program.decls) : d.k = "prompt"} :
       \E c \in {cx} : \E after \in {Prompting(x.name, input, n, c) : n \in Machines, input \in {"input", "mismatch"}} : Ran(after)
Next == ReadSource \/ Check \/ Execute \/ Deliver

MCInit ==
  /\ part \in Machinery
  /\ Init
  /\ IF part = "programs" THEN (\E pool \in Pools : tried \in pool) /\ NoFusion
     ELSE tried = Unit(<<>>, <<>>) /\ FusionInit
MCNext ==
  \/ part = "programs" /\ Next /\ UNCHANGED <<fusionVars, part>>
  \/ part = "fusions" /\ FusionNext /\ UNCHANGED <<vars, part>>
MCSpec == MCInit /\ [][MCNext]_<<vars, fusionVars, part>>

-----------------------------------------------------------------------------
Rows(e) == {i \in DOMAIN m.ledger : m.ledger[i].e = e}
ActionNames == {x.name : x \in {y \in Range1(program.decls) : y.k = "action"}}

(* A text is refused exactly when it is not of the core kernel, and reads as the program it   *)
(* was written from; what is read from a text with a token missing is a program all the same: *)
(* written out, it reads back as itself (the descent of parseExpr to parsePrimary, the        *)
(* lookaheads of parseStmt and isDeclStart, assertCore).                                      *)
ReadsAs(p) == \A text \in {Writing(p)} : \A r \in {Reading(text)} : r.ok /\ r.v.program = p
SourceReadsBack ==
  /\ (tried.given = "text" /\ tried.cut = 0) =>
       /\ (phase = "rejected" /\ verdict = "ParseError") => ~tried.core
       /\ phase = "read" => tried.core /\ program = tried.program
  /\ (tried.given = "text" /\ phase = "read") => ReadsAs(program)

(* Nothing a model said, or a memory recalled, is an argument of an action unless a committed *)
(* decision about it endorsed it (execPerform, evalEndorse and the checker's sink rule).      *)
NothingUnendorsedActs == \A row \in Range1(m.ledger) : row.e \in ActionNames => row.origins = {}

(* No agent performs what an agent it extends was not granted.                                *)
GrantsOnlyShrink ==
  \A row \in Range1(m.ledger) : row.e \in ActionNames =>
    LET a == cx.d[<<"agent", m.inst[row.by].type>>]
    IN  a.extends # "" => Granted(cx.d[<<"agent", a.extends>>].grants, <<"perform", row.e>>)

(* What check() accepts does not meet, at run time, a fault check() is there to rule out: an  *)
(* endorsement by an abstained decision, a return that does not end its function, a fusion of *)
(* enumerable credences that no declaration covers, a memory whose type cannot be kept (but   *)
(* for a struct inside itself, which only Begin refuses), an action beyond an inherited grant. *)
Enumerable(ops) == \A o \in Range1(ops) : o.k = "ident" \/ (o.k = "arraylit" /\ \A x \in Range1(o.subs) : x.k = "ident")
RECURSIVE Innermost(_)
Innermost(t) == IF t.k = "array" THEN Innermost(t.args[1]) ELSE t
StructNames == {key[2] : key \in {k \in DOMAIN cx.d : k[1] = "struct"}}
RECURSIVE InsideOf(_, _)
InsideOf(names, depth) ==
  IF depth = 0 THEN names
  ELSE InsideOf(names \cup UNION {{Innermost(f.type).name : f \in Range1(cx.d[<<"struct", s>>].fields)} : s \in names \cap StructNames}, depth - 1)
KeepsRecursively ==
  \E x \in Range1(program.decls) : \E kept \in Range1(x.mems) :
    \E s \in InsideOf({Innermost(kept.type).name}, Cardinality(StructNames)) \cap StructNames :
      s \in InsideOf({Innermost(f.type).name : f \in Range1(cx.d[<<"struct", s>>].fields)}, Cardinality(StructNames))
CheckerIsSound ==
  /\ m.why # "abstained"
  /\ ~m.skipped
  /\ m.why = "uncovered" => ~Enumerable(m.at)
  /\ (phase = "accepted" /\ m.why = "descriptor") => KeepsRecursively
  /\ GrantsOnlyShrink

(* Every name the linker binds for the main program is one the module it names exports,       *)
(* whatever the chain of republishing imports between them.                                   *)
NamesResolveToExports ==
  (phase = "accepted" /\ tried.modules # <<>>) =>
    LET table == MainTable(program, tried.header, tried.modules)
        prefixes == PrefixBindings(program.imports)
        exported == {e[3] : e \in Exports(table)}
    IN  /\ \A n \in DOMAIN linked.bare : linked.bare[n] \in exported
        /\ \A p \in collectQualifiedRefs(program) : p[1] \in DOMAIN prefixes => linked.decls[p] \in exported

(* A block is asked again only for replies that did not match their type: each exhaustion has *)
(* its own two mismatches on the ledger before it.                                            *)
RetriesAreCounted ==
  \A i \in Rows("RetryExhausted") :
    2 * Cardinality({j \in Rows("RetryExhausted") : j <= i}) <= Cardinality({j \in Rows("TypeMismatch") : j < i})

(* A handler hoisted in a block is armed for as long as the block runs, however the block     *)
(* ends: between two statements of the program only those of the top level and of agents are. *)
HandlersAreScoped == \A i \in DOMAIN m.subs : m.subs[i].owner = 0

(* A crash in a handler or in an awake hook ends that reaction alone, with an AgentCrashed    *)
(* row when it is an agent's: it does not end the session.  In a constructor or a sleep hook  *)
(* nothing contains it.                                                                       *)
CrashIsContained ==
  (phase = "failed" /\ Crashed(m)) => program.stmts[pc - 1].k \in {"spawn", "sleep"}

(* A block or a reaction ends clean, whatever ends it: no handler stays armed, no retry is    *)
(* left uncounted, and a crash goes no further.                                               *)
BlocksEndClean == HandlersAreScoped /\ RetriesAreCounted /\ CrashIsContained

(* What a run does is in the graph drawn before it (graph.ts; GRAPH.md: the overlay is the     *)
(* witnessed path through the graph): a row lights a node of its agent that some way leads to, *)
(* in the arm of a gate only after a decision that came out so.  Handlers hoisted in a block   *)
(* and the bodies an agent inherits are not in the graph; neither are the results of tools.    *)
HoistsAtTop == \A body \in (Bodies(program) \ {program.stmts}) \cup UNION {Range1(s.blocks) : s \in Range1(program.stmts)} :
                 ~\E s \in Statements(body, BlockKinds) : s.k = "when"
InheritsNoBody == \A d \in Range1(program.decls) : Has(cx.d, "agent", d.extends) => AgentBodies(cx.d[<<"agent", d.extends>>]) \subseteq {<<>>}
Results == {w.result : w \in tried.manifest.wiring}
Emitted == {x.name : x \in {y \in Range1(program.decls) : y.k = "event"}} \ Results
Lit0(row, node) ==
  /\ node.owner = row.by
  /\ \/ row.e \in ActionNames /\ node.k = "sink" /\ node.name = row.e
     \/ row.e \in Emitted /\ node.k = "emit" /\ node.name = row.e
     \/ row.e = "Decided" /\ node.k = "gate"
     \/ row.e \in {"Internalized", "MemoryConsulted"} /\ node.k = "mem" /\ node.name = row.of
Armed(i, node) == node.variant \in {"", "abstain"} \/ \E j \in Rows("Decided") : j < i /\ m.ledger[j].by = m.ledger[i].by /\ m.ledger[j].outcome = node.variant
GraphShowsWhatRuns ==
  (phase = "accepted" /\ HoistsAtTop /\ InheritsNoBody) =>
    LET reached == ReachedNodes(graph, UNION {HandlersOf(r, graph.nodes) : r \in Results})
    IN  \A i \in DOMAIN m.ledger :
          m.ledger[i].e \in ActionNames \cup Emitted \cup {"Decided", "Internalized", "MemoryConsulted"} =>
            \E id \in reached : Lit0(m.ledger[i], graph.nodes[id]) /\ Armed(i, graph.nodes[id])
=============================================================================
