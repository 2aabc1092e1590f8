------------------------------- MODULE Parser -------------------------------
(***************************************************************************)
(* The parser of agape-ts (src/agape-ts/src/parser.ts), by recursive       *)
(* descent over the tokens of the lexer.  A parser takes the tokens that   *)
(* are left and returns whether it accepts them, the node it built and the *)
(* tokens that are left then, so a lookahead is a parse whose tokens are   *)
(* not taken.  A production is written as the sequence of what it eats:    *)
(* token types and contextual words eat themselves, a capitalised piece is *)
(* another production (see Piece).  Positions, error texts and the values  *)
(* of numbers, but for the bound of a retry, are left out.                 *)
(***************************************************************************)
EXTENDS Syntax, SequencesExt, TLC

CONSTANT Capitalized \* the names of the programs that begin with a capital

\* A token: its type, what it says, the number it is, the fragments of an f-string.
Token(t, v) == [t |-> t, v |-> v, n |-> 0, parts |-> <<>>]
Eof == Token("eof", "")

KEYWORDS == {"int", "float", "bool", "text", "null", "event", "action", "array", "agent", "extend", "pure", "struct", "enum", "grants",
             "spawn", "awake", "sleep", "crash", "self", "on", "prompt", "instruction", "principal", "policy", "when", "if", "else",
             "return", "retry", "decide", "endorse", "perform", "emit", "abstain", "where", "select", "from", "mem", "forget", "task",
             "complete", "fail", "cancel", "all", "any", "quorum", "independent", "dependent", "true", "false", "abstained", "module",
             "import", "pub", "interface", "requires", "reversible", "say"}
ComparisonOps == {"==", "!=", "<", ">", "<=", ">="}
OPERATORS == ComparisonOps \cup {"~", "<-", "->", "|>", "&&", "||", "{", "}", "(", ")", "[", "]", ";", ",", ".", ":", "=", "+", "-", "*", "/", "!"}
TokenTypes == KEYWORDS \cup OPERATORS \cup {"ident", "string", "fstring", "promptmd", "eof"}
CONTEXTUAL == {"where", "select", "from", "all", "any", "quorum"}
ScalarTypes == {"int", "float", "bool", "text", "null"}
\* Words the lexer leaves as identifiers: a production asks for them by their value.
Words == {"by", "as", "about", "expires", "confidence", "conformal", "type", "modality", "scope", "retention", "margin", "floor",
          "readiness", "reach", "use", "objective", "acceptance", "assigned", "cancelled", "md", "ledger"}

Read(v, s) == [ok |-> TRUE, v |-> v, s |-> s]
Refused(s) == [ok |-> FALSE, v |-> "", s |-> s]
Build(r, F(_)) == IF r.ok THEN Read(F(r.v), r.s) ELSE r
Peek(s, k) == s[IF k < Len(s) THEN k + 1 ELSE Len(s)]
Matches(token, p) == IF p \in Words THEN token.t = "ident" /\ token.v = p ELSE token.t = p
At(s, p) == Matches(s[1], p)
AtNumber(token) == token.t \in {"int", "float"}
EatOne(accepts, s) == IF accepts THEN Read(s[1].v, Tail(s)) ELSE Refused(s)

RECURSIVE Piece(_, _)
\* A production: every piece in turn.  What other productions built is its value.
Terminal(p) == p \in TokenTypes \cup Words
RECURSIVE Eaten(_, _, _)
Eaten(pieces, values, s) ==
  LET r == Piece(pieces[1], s)
  IN  IF pieces = <<>> THEN Read(values, s)
      ELSE IF Terminal(pieces[1]) THEN IF At(s, pieces[1]) THEN Eaten(Tail(pieces), values, Tail(s)) ELSE Refused(s)
      ELSE IF r.ok THEN Eaten(Tail(pieces), Append(values, r.v), r.s) ELSE r
Parse(pieces, s) == Eaten(pieces, <<>>, s)
Maybe(start, pieces, s) == IF At(s, start) THEN Parse(pieces, s) ELSE Read(<<>>, s)
Single(r) == Build(r, LAMBDA v : v[1])
SingleOr(r, default) == Build(r, LAMBDA v : IF v = <<>> THEN default ELSE v[1])

\* Pieces up to a closing token.  A separator after a piece is skipped, and not required.
RECURSIVE Many(_, _, _, _, _)
Many(item, stop, skips, acc, s) ==
  IF At(s, stop) \/ At(s, "eof") THEN Read(acc, s)
  ELSE LET r == Piece(item, s)
       IN  IF ~r.ok THEN r
           ELSE Many(item, stop, skips, Append(acc, r.v), IF At(r.s, skips) THEN Tail(r.s) ELSE r.s)
Listed(item, stop, s) == Many(item, stop, ",", <<>>, s)
Each(item, stop, s) == Many(item, stop, "none", <<>>, s)
\* Pieces with a separator between them.
RECURSIVE Separated(_, _, _, _)
Separated(item, by, acc, s) ==
  LET r == Piece(item, s)
  IN  IF ~r.ok THEN r
      ELSE IF At(r.s, by) THEN Separated(item, by, Append(acc, r.v), Tail(r.s)) ELSE Read(Append(acc, r.v), r.s)

-----------------------------------------------------------------------------
(***************************************************************************)
(* Names and types.                                                        *)
(***************************************************************************)
Joined(segments) == FoldLeft(LAMBDA name, x : name \o "." \o x, segments[1], Tail(segments))
qname(s) == Build(Separated("Ident", ".", <<>>, s), Joined)
AtName(token) == token.t = "ident" \/ token.t \in CONTEXTUAL
NameLike(token) == token.t \in {"ident", "string"} \/ (token.t \in KEYWORDS /\ token.v = token.t)
fieldName(s) == EatOne(NameLike(s[1]), s)
colName(s) == EatOne(AtName(s[1]), s)
queryFieldName(s) == Build(Separated("ColName", ".", <<>>, s), Joined)
\* A threshold is a whole number: a fraction is refused, and not cut off.
int(s) == IF At(s, "int") THEN Read(s[1].n, Tail(s)) ELSE Refused(s)
parseTypeArgName(s) == EatOne(At(s, "ident") \/ s[1].t \in ScalarTypes, s)
parseTypeArgs(s) ==
  LET r == IF At(s, "<") THEN Separated("Type", ",", <<>>, Tail(s)) ELSE Refused(s)
  IN  IF r.ok /\ At(r.s, ">") THEN Read(r.v, Tail(r.s)) ELSE Refused(s)
parseTypeParams(s) == IF At(s, "<") THEN Single(Parse(<<"<", "Names", ">">>, s)) ELSE Read(<<>>, s)
Applied(name, v) ==
  CASE name = "Credence" -> CredenceOf(v[1])
    [] name = "Decision" -> DecisionOf(v[1])
    [] name = "Endorsement" -> EndorsementOf(v[1])
    [] name = "Task" -> TypeRef("task", "", <<v[1]>>)
parseTypePrimary(s) ==
  LET name == s[1].v
  IN  CASE s[1].t \in ScalarTypes -> Read(Scalar(s[1].t), Tail(s))
        [] At(s, "mem") -> Read(TypeRef("mem", "", <<>>), Tail(s))
        [] At(s, "array") -> Build(Parse(<<"array", "<", "Type", ">">>, s), LAMBDA v : ArrayOf(v[1]))
        [] At(s, "ident") /\ name \in {"Credence", "Decision"} ->
             Build(Parse(<<"<", "TypeArgName", ">">>, Tail(s)), LAMBDA v : Applied(name, v))
        [] At(s, "ident") /\ name \in {"Endorsement", "Task"} -> Build(Parse(<<"<", "Type", ">">>, Tail(s)), LAMBDA v : Applied(name, v))
        [] At(s, "ident") -> Build(Parse(<<"QName", "TypeArgs?">>, s), LAMBDA v : TypeRef("named", v[1], v[2]))
        [] OTHER -> Refused(s)
RECURSIVE Suffixed(_, _)
Suffixed(type, s) ==
  IF ~At(s, "[") THEN Read(type, s) ELSE IF Peek(s, 1).t = "]" THEN Suffixed(ArrayOf(type), Tail(Tail(s))) ELSE Refused(s)
parseType(s) == LET r == parseTypePrimary(s) IN IF r.ok THEN Suffixed(r.v, r.s) ELSE r

\* Does a declaration start here: a type, then a name?
TypeStart(token) == token.t \in ScalarTypes \cup {"event", "array"} \/ (token.t = "ident" /\ token.v \in Capitalized)
looksLikeFnDecl(s) ==
  LET type == parseType(s)
  IN  TypeStart(s[1]) /\ type.ok /\ AtName(type.s[1]) /\ At(Tail(type.s), "(")
looksLikeVarDecl(s) ==
  LET type == parseType(s)
  IN  \/ At(s, "event")
      \/ /\ TypeStart(s[1]) \/ (At(s, "ident") /\ Peek(s, 1).t = ".")
         /\ type.ok /\ At(type.s, "ident")

-----------------------------------------------------------------------------
(***************************************************************************)
(* Expressions, loosest first: query, send and recall, pipe, gate,         *)
(* comparison, sum, product, sign, postfix, primary.                       *)
(***************************************************************************)
Pair(op, left, right) == IF op = "|>" THEN Expr("pipe", "", <<left, right>>) ELSE Binary(op, left, right)
RECURSIVE Continue(_, _, _, _)
Continue(ops, item, left, s) ==
  LET r == Piece(item, Tail(s))
  IN  IF s[1].t \notin ops THEN Read(left, s) ELSE IF ~r.ok THEN r ELSE Continue(ops, item, Pair(s[1].t, left, r.v), r.s)
RightAssociative(ops, item, s) == \* mutant
  LET r == Piece(item, s)
      right == Piece(item, Tail(r.s))
      rest == IF right.ok THEN Continue(ops, item, right.v, right.s) ELSE right
  IN  IF ~r.ok \/ r.s[1].t \notin ops THEN r ELSE Build(rest, LAMBDA v : Pair(r.s[1].t, r.v, v))
LeftAssociative(ops, item, s) == LET r == Piece(item, s) IN IF r.ok THEN Continue(ops, item, r.v, r.s) ELSE r
parsePipe(s) == LeftAssociative({"|>"}, "Gate", s)
parseAdd(s) == LeftAssociative({"+", "-"}, "Mul", s)
parseMul(s) == LeftAssociative({"*", "/"}, "Unary", s)
parseComparison(s) ==
  LET left == Piece("Add", s)
  IN  IF ~left.ok \/ left.s[1].t \notin ComparisonOps THEN left
      ELSE Build(Piece("Add", Tail(left.s)), LAMBDA right : Binary(left.s[1].t, left.v, right))
parseUnary(s) ==
  IF s[1].t \in {"!", "-"} THEN Build(Piece("Unary", Tail(s)), LAMBDA v : Expr("unary", s[1].t, <<v>>)) ELSE Piece("Postfix", s)

parseSend(s) ==
  LET left == Piece("Pipe", s)
  IN  IF ~left.ok THEN left
      ELSE CASE At(left.s, "<-") -> Build(Parse(<<"<-", "Pipe", "Expires">>, left.s), LAMBDA v : [Send(left.v, v[1]) EXCEPT !.opt = v[2]])
             [] At(left.s, "->") -> Build(Parse(<<"->", "Pipe">>, left.s), LAMBDA v : Recall(left.v, v[1]))
             [] OTHER -> left
startsSelect(s) == At(s, "select") /\ Peek(s, 1).t \in {"*", "ident"}
Select(event, columns, conds) == [Expr("select", event, <<>>) EXCEPT !.labels = columns, !.opt = conds]
Queried == <<"from", "ledger", "where", "{", "Conds", "}">>
parseSelect(s) ==
  LET aliased == Parse(<<"select", "QName", "as", "Ident">> \o Queried, s)
  IN  IF aliased.ok THEN Build(aliased, LAMBDA v : Select(v[1], <<"*">>, v[3]))
      ELSE Build(Parse(<<"select", "Columns">> \o Queried, s), LAMBDA v : Select("", v[1], v[2]))
parseQueryCond(s) ==
  LET field == queryFieldName(s)
      value == Piece("Add", Tail(field.s))
  IN  IF ~field.ok \/ field.s[1].t \notin ComparisonOps \cup {":"} THEN Refused(s)
      ELSE Build(IF value.ok /\ value.s[1].t \in {"&&", "||"} THEN Read(value.v, Tail(value.s)) ELSE value, LAMBDA v : v)

AtGate(s) == At(s, "decide") \/ At(s, "endorse") \/ (s[1].t \in {"ident", "string"} /\ Peek(s, 1).t = "decide")
parseGate(s) ==
  IF At(s, "endorse") THEN Build(Parse(<<"endorse", "Comparison", "by", "Comparison">>, s), LAMBDA v : Endorse(v[1], v[2]))
  ELSE LET principal == IF At(s, "decide") THEN "" ELSE s[1].v
       IN  Build(Parse(<<"decide", "Comparison", "by", "Rule">>, IF At(s, "decide") THEN s ELSE Tail(s)),
                 LAMBDA v : [Decide(principal, v[1], v[2].rule) EXCEPT !.opt = v[2].expr])
parseGateOrBinary(s) == IF AtGate(s) THEN parseGate(s) ELSE Piece("Comparison", s)
By(rule, name, expr) == [rule |-> Rule(rule, name), expr |-> expr]
parseRule(s) ==
  CASE At(s, "confidence") -> Build(Parse(<<"confidence", "Number", "Margin", "Floor">>, s), LAMBDA v : By("confidence", "", <<>>))
    [] At(s, "conformal") -> Build(Parse(<<"conformal", "Number?", "Readiness", "Floor">>, s), LAMBDA v : By("conformal", "", <<>>))
    [] At(s, "(") -> Build(Parse(<<"(", "Expr", ")">>, s), LAMBDA v : By("expr", "", v))
    [] OTHER -> Build(Parse(<<"Ident">>, s), LAMBDA v : By("policy", v[1], <<>>))

\* A `<` opens type arguments only if a whole list of them is followed by an argument
\* list; before a struct literal, by its body.
callTypeArgsAhead(s) == LET r == parseTypeArgs(s) IN r.ok /\ At(r.s, "(")
looksLikeStructBody(s) == Peek(s, 1).t = "}" \/ (AtName(Peek(s, 1)) /\ Peek(s, 2).t = ":")
structLitTypeArgsAhead(s) == LET r == parseTypeArgs(s) IN r.ok /\ At(r.s, "{") /\ looksLikeStructBody(r.s)
CallOf(callee, args) == Expr("call", "", <<callee>> \o args)
\* A comma between arguments, or between items, may be missing.
parseArgs(s) == Single(Parse(<<"(", "Exprs", ")">>, s))
parseArrayLit(s) == Build(Parse(<<"[", "Items", "]">>, s), LAMBDA v : Expr("arraylit", "", v[1]))
RECURSIVE Postfixed(_, _)
Postfixed(e, s) ==
  LET step == CASE At(s, "[") -> Build(Parse(<<"[", "Expr", "]">>, s), LAMBDA v : Expr("index", "", <<e, v[1]>>))
                [] At(s, ".") -> Build(Parse(<<".", "FieldName">>, s), LAMBDA v : Member(e, v[1]))
                [] At(s, "<") /\ callTypeArgsAhead(s) -> Build(Parse(<<"TypeArgs", "Args">>, s), LAMBDA v : CallOf(e, v[2]))
                [] At(s, "(") -> Build(Parse(<<"Args">>, s), LAMBDA v : CallOf(e, v[1]))
  IN  IF ~(s[1].t \in {"[", ".", "("} \/ (At(s, "<") /\ callTypeArgsAhead(s))) THEN Read(e, s)
      ELSE IF step.ok THEN Postfixed(step.v, step.s) ELSE step
parsePostfix(s) == LET r == Piece("Primary", s) IN IF r.ok THEN Postfixed(r.v, r.s) ELSE r

parseStructLit(name, generic, s) ==
  Build(Parse(<<"{", "FieldInits", "}">>, s),
        LAMBDA v : [Struct(name, [i \in DOMAIN v[1] |-> v[1][i].name], [i \in DOMAIN v[1] |-> v[1][i].value]) EXCEPT !.opt = generic])
\* An identifier, or the dotted name and the type arguments of a struct literal.
AfterDotted(s) == LET path == Separated("Ident", ".", <<>>, s) IN IF path.ok THEN path ELSE Read(<<s[1].v>>, Tail(s))
parseIdent(s) ==
  LET path == AfterDotted(s)
      heads == (At(path.s, "{") /\ looksLikeStructBody(path.s)) \/ structLitTypeArgsAhead(path.s)
      name == IF heads THEN Joined(path.v) ELSE s[1].v
      args == parseTypeArgs(path.s)
  IN  IF ~heads THEN Read(Ident(name), Tail(s))
      ELSE IF At(path.s, "{") THEN parseStructLit(name, <<>>, path.s) ELSE parseStructLit(name, <<Ident("generic")>>, args.s)
Fragments(parts) == [i \in DOMAIN parts |-> Piece("Expr", parts[i])]
buildFString(token, s) ==
  LET fragments == Fragments(token.parts)
  IN  IF \A i \in DOMAIN fragments : fragments[i].ok
      THEN Read(Expr("fstring", "", [i \in DOMAIN fragments |-> fragments[i].v]), s) ELSE Refused(s)
Clause(c, v) == [c |-> c, v |-> v]
Clauses(cs, c) == [i \in DOMAIN SelectSeq(cs, LAMBDA x : x.c = c) |-> SelectSeq(cs, LAMBDA x : x.c = c)[i].v]
LastOf(cs, c, default) == LET vs == Clauses(cs, c) IN IF vs = <<>> THEN default ELSE vs[Len(vs)]
Given(cs, c) == IF Clauses(cs, c) = <<>> THEN <<>> ELSE <<LastOf(cs, c, "")>>
TaskLit(cs) ==
  [Expr("tasklit", "", Given(cs, "objective") \o Given(cs, "acceptance")) EXCEPT !.labels = FlattenSeq(Clauses(cs, "scope"))]
parseTaskClause(s) ==
  CASE At(s, "objective") -> Build(Parse(<<"objective", "Expr", ";">>, s), LAMBDA v : Clause("objective", v[1]))
    [] At(s, "acceptance") -> Build(Parse(<<"acceptance", "Expr", ";">>, s), LAMBDA v : Clause("acceptance", v[1]))
    [] OTHER -> LET r == Parse(<<"scope", "{", "ScopeItems", "}">>, s)
                IN  Build(IF r.ok /\ At(r.s, ";") THEN Read(r.v, Tail(r.s)) ELSE r, LAMBDA v : Clause("scope", v[1]))
Literals == {"int", "float", "null", "self"}
Reducer(s) == s[1].t \in {"all", "any", "quorum"} /\ Peek(s, 1).t = "("
parsePrimary(s) ==
  LET t == s[1].t
  IN  CASE (At(s, "confidence") \/ At(s, "conformal")) /\ AtNumber(Peek(s, 1)) ->
             Read(Ident("__rule__"), IF At(Tail(Tail(s)), "margin") /\ AtNumber(Peek(s, 3)) THEN SubSeq(s, 5, Len(s)) ELSE Tail(Tail(s)))
        [] At(s, "md") /\ Peek(s, 1).t = "string" -> Read(Expr("mdimport", Peek(s, 1).v, <<>>), Tail(Tail(s)))
        [] t \in Literals -> Read(Lit(t), Tail(s))
        [] t = "string" -> Read([Lit("string") EXCEPT !.name = s[1].v], Tail(s))
        [] t \in {"true", "false"} -> Read([Lit("bool") EXCEPT !.name = t], Tail(s))
        [] t \in {"fstring", "promptmd"} -> buildFString(s[1], Tail(s))
        [] t = "abstained" -> Read(Ident("abstained"), Tail(s))
        [] t = "spawn" -> Build(Parse(<<"spawn", "QName", "Args?">>, s), LAMBDA v : Expr("spawnexpr", v[1], v[2]))
        [] t = "ident" -> parseIdent(s)
        [] t = "{" -> parseStructLit("", <<>>, s)
        [] t = "(" -> Single(Parse(<<"(", "Expr", ")">>, s))
        [] t = "[" -> parseArrayLit(s)
        [] t = "task" -> Build(Parse(<<"task", "{", "TaskClauses", "}">>, s), LAMBDA v : TaskLit(v[1]))
        [] t = "perform" ->
             Build(Parse(<<"perform", "QName", "Args?", "Expires">>, s), LAMBDA v : [Expr("performexpr", v[1], v[2]) EXCEPT !.opt = v[3]])
        [] Reducer(s) /\ t = "quorum" -> Build(Parse(<<"quorum", "(", "Int", ",", "Expr", ")">>, s), LAMBDA v : Expr("quorum", "", <<v[2]>>))
        [] Reducer(s) -> Build(Parse(<<"Args">>, Tail(s)), LAMBDA v : Expr("agg", t, v[1]))
        [] t \in CONTEXTUAL /\ ~Reducer(s) -> Read(Ident(s[1].v), Tail(s))
        [] OTHER -> Refused(s)

-----------------------------------------------------------------------------
(***************************************************************************)
(* Statements, chosen by their first token; a bare block is a retry.       *)
(***************************************************************************)
AtGateStatement(s) == At(s, "decide") \/ At(s, "endorse") \/ (At(s, "ident") /\ Peek(s, 1).t = "decide")
parseIf(s) == Build(Parse(<<"if", "(", "Expr", ")", "Block", "Else">>, s), LAMBDA v : If(v[1], v[2], v[3]))
parseElse(s) ==
  IF ~At(s, "else") THEN Read(<<>>, s)
  ELSE IF Peek(s, 1).t = "if" THEN Build(parseIf(Tail(s)), LAMBDA v : <<v>>) ELSE Single(Parse(<<"else", "Block">>, s))
\* The binder is any identifier, the word `about` too.
parseWhen(s) ==
  Build(Parse(<<"when", "(", "QName", "Binder", "About", ")", "Guard", "Block">>, s),
        LAMBDA v : [When(v[1], v[2], v[3], v[5]) EXCEPT !.exprs = v[4]])
parseArm(s) ==
  LET head == IF At(s, "true") \/ At(s, "false") THEN Read(s[1].t, Tail(s)) ELSE Piece("Ident", s)
      body == Parse(<<"As", "Block">>, head.s)
  IN  IF ~head.ok THEN head ELSE Build(body, LAMBDA v : [head |-> head.v, body |-> v[2]])
parseDispatch(gate, s) ==
  LET r == Parse(<<"{", "Arms", "}", "Abstain">>, s)
      Arms(v) == v[1] \o v[2]
  IN  Build(IF r.ok /\ At(r.s, ";") THEN Read(r.v, Tail(r.s)) ELSE r,
            LAMBDA v : Dispatch(gate, [i \in DOMAIN Arms(v) |-> Arms(v)[i].head], [i \in DOMAIN Arms(v) |-> Arms(v)[i].body]))
parseGateStmt(s) ==
  LET gate == parseGate(s)
  IN  IF ~gate.ok THEN gate
      ELSE IF At(gate.s, "{") THEN parseDispatch(gate.v, gate.s) ELSE Build(Parse(<<";">>, gate.s), LAMBDA v : ExprStmt(gate.v))
parseVarDecl(s) ==
  Build(Parse(<<"Type", "Ident", "Init", ";">>, s), LAMBDA v : [Stmt("var", v[2], v[3]) EXCEPT !.type = v[1]])
parseExprStmt(s) ==
  LET left == Piece("Expr", s)
  IN  IF ~left.ok THEN left
      ELSE IF At(left.s, "=") THEN Build(Parse(<<"=", "Expr", ";">>, left.s), LAMBDA v : Assign(left.v, v[1]))
      ELSE Build(Parse(<<";">>, left.s), LAMBDA v : ExprStmt(left.v))
parseSpawn(s) == Build(Parse(<<"spawn", "QName", "Ident", "Args?", ";">>, s), LAMBDA v : Spawn(v[1], v[2], v[3]))
parseInvoke(kind, s) == Build(Parse(<<kind, "QName", "Args?", ";">>, s), LAMBDA v : Stmt(kind, v[1], v[2]))
parseStmt(s) ==
  LET t == s[1].t
  IN  CASE t = "spawn" -> parseSpawn(s)
        [] t \in {"awake", "sleep", "forget"} -> Build(Parse(<<t, "Ident", ";">>, s), LAMBDA v : Stmt(t, v[1], <<>>))
        [] t \in {"emit", "perform"} -> parseInvoke(t, s)
        [] t = "say" -> Build(Parse(<<"say", "(", "Expr", ")", ";">>, s), LAMBDA v : Stmt("say", "", v))
        [] t = "return" -> IF Peek(s, 1).t = ";" THEN Read(Stmt("return", "", <<>>), Tail(Tail(s)))
                           ELSE Build(Parse(<<"return", "Expr", ";">>, s), LAMBDA v : Return(v[1]))
        [] t = "if" -> parseIf(s)
        [] t = "when" -> parseWhen(s)
        [] t = "mem" -> Build(Parse(<<"mem", "Ident", "Store", ";">>, s), LAMBDA v : Stmt("memdecl", v[1], v[2]))
        [] t \in {"complete", "fail"} -> Build(Parse(<<t, "Expr", ";">>, s), LAMBDA v : Stmt(t, "", v))
        [] t = "cancel" -> Build(Parse(<<"cancel", "Postfix", ";">>, s), LAMBDA v : Stmt("cancel", "", v))
        [] t \in {"independent", "dependent"} -> Build(Parse(<<t, "Names", ";">>, s), LAMBDA v : DepDecl(t, v[1]))
        [] t = "{" -> Build(Parse(<<"Block", "retry", "(", "Int", ")">>, s), LAMBDA v : Retry(v[2], v[1]))
        [] AtGateStatement(s) -> parseGateStmt(s)
        [] looksLikeVarDecl(s) /\ ~AtGateStatement(s) -> parseVarDecl(s)
        [] OTHER -> parseExprStmt(s)

-----------------------------------------------------------------------------
(***************************************************************************)
(* Declarations.                                                           *)
(***************************************************************************)
parseParamField(s) ==
  IF At(s, "ident") /\ Peek(s, 1).t = ":" THEN Refused(s) ELSE Build(Parse(<<"Type", "Ident">>, s), LAMBDA v : Field(v[1], v[2]))
parseFieldList(s) == Single(Parse(<<"(", "ParamFields", ")">>, s))
parseStructField(s) == Build(Parse(<<"Ident", ":", "Type">>, s), LAMBDA v : Field(v[2], v[1]))
parseStruct(s) ==
  Build(Parse(<<"struct", "Ident", "TypeParams", "{", "StructFields", "}">>, s),
        LAMBDA v : [Decl("struct", v[1]) EXCEPT !.generic = v[2] # <<>>, !.fields = v[3]])
parseFn(s) ==
  LET pure == At(s, "pure")
  IN  Build(Parse(<<"Type", "Name", "TypeParams", "Fields", "Block">>, IF pure THEN Tail(s) ELSE s),
            LAMBDA v : [Decl("fn", v[2]) EXCEPT !.pure = pure, !.ret = v[1], !.generic = v[3] # <<>>, !.params = v[4], !.body = v[5]])
parseEvent(s) ==
  Build(Parse(<<"event", "Ident", "Fields", "Super", ";">>, s), LAMBDA v : [Decl("event", v[1]) EXCEPT !.fields = v[2], !.super = v[3]])
parseAction(s) ==
  LET reversible == At(s, "reversible")
  IN  Build(Parse(<<"action", "Ident", "Fields", ";">>, IF reversible THEN Tail(s) ELSE s),
            LAMBDA v : [Decl("action", v[1]) EXCEPT !.fields = v[2], !.reversible = reversible])
\* A braced block that is not interpreted.
RECURSIVE skipBraces(_, _)
skipBraces(depth, s) ==
  IF depth = 0 \/ At(s, "eof") THEN s
  ELSE skipBraces(CASE At(s, "{") -> depth + 1 [] At(s, "}") -> depth - 1 [] OTHER -> depth, Tail(s))
parsePrincipal(s) ==
  LET r == Parse(<<"principal", "Ident">>, s)
      after == IF r.ok /\ At(r.s, "{") THEN skipBraces(1, Tail(r.s)) ELSE r.s
  IN  IF ~r.ok THEN r ELSE Build(Parse(<<";">>, after), LAMBDA v : Decl("principal", r.v[1]))
IfMember(k, event, outcome, cap) == [k |-> k, event |-> event, outcome |-> outcome, cap |-> cap[1], name |-> cap[2]]
parseIfMember(s) ==
  LET r == IF At(s, "when")
           THEN Build(Parse(<<"when", "Type", "decide", "Type">>, s), LAMBDA v : IfMember("handler", v[1], v[2], <<"", "">>))
           ELSE Build(Parse(<<"requires", "Cap">>, s), LAMBDA v : IfMember("requires", NoType, NoType, v[1]))
  IN  IF r.ok /\ At(r.s, ";") THEN Read(r.v, Tail(r.s)) ELSE r
parseInterface(s) ==
  Build(Parse(<<"interface", "Ident", "{", "IfMembers", "}">>, s), LAMBDA v : [Decl("interface", v[1]) EXCEPT !.members = v[2]])

parseCap(s) ==
  IF At(s, "perform") \/ At(s, "reach") \/ At(s, "use")
  THEN Build(Piece("QName", Tail(s)), LAMBDA v : <<s[1].v, v>>) ELSE Refused(s)
parseGrants(s) ==
  IF ~At(s, "grants") THEN Read({}, s)
  ELSE IF Peek(s, 2).t = "*" THEN Build(Parse(<<"grants", "{", "*", "}">>, s), LAMBDA v : AllGrants)
  ELSE Build(Parse(<<"grants", "{", "GrantList", "}">>, s), LAMBDA v : Range1(v[1]))
parseMemoryClause(s) ==
  CASE At(s, "type") -> Build(Parse(<<"type", "Type", ";">>, s), LAMBDA v : Clause("type", v[1]))
    [] At(s, "modality") -> Build(Parse(<<"modality", "Ident", ";">>, s), LAMBDA v : Clause("modality", v[1]))
    [] At(s, "scope") -> Build(Parse(<<"scope", "Names", ";">>, s), LAMBDA v : Clause("scope", v[1]))
    [] OTHER -> Build(Parse(<<"retention", "Ident", ";">>, s), LAMBDA v : Clause("retention", v[1]))
parseMemoryDescriptor(s) ==
  Build(Parse(<<"mem", "Ident", "{", "MemoryClauses", "}">>, s),
        LAMBDA v : MemoryDescriptor(v[1], LastOf(v[2], "type", NoType), LastOf(v[2], "modality", ""), LastOf(v[2], "scope", <<>>),
                                    LastOf(v[2], "retention", "")))
HookEvents == {"awake", "sleep", "crash", "assigned", "cancelled"}
parseOnHook(s) ==
  IF \E event \in HookEvents : Matches(Peek(s, 1), event)
  THEN Build(Parse(<<"Block">>, Tail(Tail(s))), LAMBDA v : [on |-> Peek(s, 1).v, body |-> v[1]]) ELSE Refused(s)
\* A member of an agent's body; a declaration without a value is a field.
parseMember(s) ==
  CASE At(s, "on") -> Build(parseOnHook(s), LAMBDA v : Clause("hook", v))
    [] At(s, "mem") /\ Peek(s, 1).t = "ident" /\ Peek(s, 2).t = "{" -> Build(parseMemoryDescriptor(s), LAMBDA v : Clause("mem", v))
    [] At(s, "when") -> Build(parseWhen(s), LAMBDA v : Clause("when", v))
    [] At(s, "extend") -> Build(Parse(<<"extend", "QName", "Args?", ";">>, s), LAMBDA v : Clause("extend", v[1]))
    [] At(s, "instruction") -> Build(Parse(<<"instruction", "StringText", ";">>, s), LAMBDA v : Clause("instruction", v[1]))
    [] OTHER -> Build(parseStmt(s), LAMBDA v : IF v.k = "var" /\ v.exprs = <<>> THEN Clause("field", Field(v.type, v.name)) ELSE Clause("ctor", v))
AgentOf(name, params, ifaces, grants, ms) ==
  LET hooks == Clauses(ms, "hook")
  IN  [Decl("agent", name) EXCEPT
        !.params = params, !.ifaces = ifaces, !.grants = grants, !.mems = Clauses(ms, "mem"), !.whens = Clauses(ms, "when"),
        !.on = [i \in DOMAIN hooks |-> hooks[i].on], !.hooks = [i \in DOMAIN hooks |-> hooks[i].body],
        !.extends = LastOf(ms, "extend", ""), !.fields = Clauses(ms, "field"), !.ctor = Clauses(ms, "ctor")]
parseAgent(s) ==
  Build(Parse(<<"agent", "Ident", "Fields?", "Ifaces", "Grants", "{", "Members", "}">>, s),
        LAMBDA v : AgentOf(v[1], v[2], v[3], v[4], v[5]))

Conformal(s) == At(s, "conformal") /\ AtNumber(Peek(s, 1))
DeclHeads == {"pub", "interface", "enum", "struct", "action", "event", "agent", "instruction", "principal", "prompt", "policy", "pure"}
isDeclStart(s) ==
  \/ s[1].t \in DeclHeads \/ Conformal(s) \/ looksLikeFnDecl(s)
  \/ At(s, "reversible") /\ Peek(s, 1).t = "action"
parseDecl(s) ==
  CASE At(s, "enum") -> Build(Parse(<<"enum", "Ident", "{", "Variants", "}">>, s), LAMBDA v : [Decl("enum", v[1]) EXCEPT !.variants = v[2]])
    [] At(s, "struct") -> parseStruct(s)
    [] At(s, "interface") -> parseInterface(s)
    [] At(s, "action") \/ At(s, "reversible") -> parseAction(s)
    [] At(s, "pure") \/ looksLikeFnDecl(s) -> parseFn(s)
    [] At(s, "event") /\ ~looksLikeFnDecl(s) -> parseEvent(s)
    [] At(s, "instruction") -> Build(Parse(<<"instruction", "StringText", ";">>, s), LAMBDA v : Decl("instruction", ""))
    [] At(s, "agent") -> parseAgent(s)
    [] At(s, "principal") -> parsePrincipal(s)
    [] At(s, "prompt") -> Build(Parse(<<"prompt", "Type", "Ident", ";">>, s), LAMBDA v : [Decl("prompt", v[2]) EXCEPT !.ret = v[1]])
    [] At(s, "policy") -> Build(Parse(<<"policy", "Ident", "{", "Directives", "}">>, s), LAMBDA v : Decl("policydecl", v[1]))
    [] At(s, "conformal") -> Build(Parse(<<"conformal", "Number", ";">>, s), LAMBDA v : Decl("conformal", ""))
    [] OTHER -> Refused(s)
\* The kinds of declaration that keep the marker `pub`.
Visible == {"enum", "struct", "interface", "action", "fn", "event", "agent"}
withPub(s) ==
  IF ~At(s, "pub") THEN parseDecl(s)
  ELSE Build(parseDecl(Tail(s)), LAMBDA d : IF d.k \in Visible THEN [d EXCEPT !.pub = TRUE] ELSE d)

parseImport(s) ==
  LET pub == At(s, "pub")
      rest == IF pub THEN Tail(s) ELSE s
  IN  IF Peek(rest, 1).t = "{"
      THEN Build(Parse(<<"import", "{", "Names", "}", "from", "QName", ";">>, rest), LAMBDA v : ImportDecl(v[2], pub, v[1], ""))
      ELSE Build(Parse(<<"import", "QName", "As", ";">>, rest), LAMBDA v : ImportDecl(v[1], pub, <<>>, v[2]))
RECURSIVE Imports(_, _)
Imports(acc, s) ==
  LET r == parseImport(s)
  IN  IF ~(At(s, "import") \/ (At(s, "pub") /\ Peek(s, 1).t = "import")) THEN Read(acc, s)
      ELSE IF r.ok THEN Imports(Append(acc, r.v), r.s) ELSE r
parseProgram(s) ==
  LET header == SingleOr(Maybe("module", <<"module", "QName", ";">>, s), "")
      imports == Imports(<<>>, header.s)
      body == Each("TopLevel", "eof", imports.s)
  IN  IF ~header.ok THEN header ELSE IF ~imports.ok THEN imports
      ELSE Build(body, LAMBDA v : [header |-> header.v, program |-> Program(imports.v, Clauses(v, "decl"), Clauses(v, "stmt"))])

-----------------------------------------------------------------------------
(***************************************************************************)
(* The core kernel: what the full grammar has and the kernel has not is    *)
(* refused, wherever the walk comes by.                                    *)
(***************************************************************************)
CoreKinds == {"pipe", "member", "index", "call", "spawnexpr", "binary", "unary", "send", "recall", "decide", "endorse", "quorum",
              "structlit", "arraylit", "tasklit", "performexpr", "fstring"}
CoreStmtKinds == {"complete", "fail", "cancel", "var", "assign", "spawn", "emit", "perform", "say", "return", "if", "when", "memdecl", "exprstmt"}
RECURSIVE walkType(_)
walkType(t) ==
  /\ t.k = "named" => t.args = <<>> \/ t.name = "LedgerEntry"
  /\ t.k \in {"event", "array", "task", "named"} => \A i \in DOMAIN t.args : walkType(t.args[i])
RECURSIVE walkExpr(_)
walkExpr(e) ==
  /\ e.k # "agg" /\ (e.k = "structlit" => e.opt = <<>>)
  /\ e.k \in CoreKinds => \A i \in DOMAIN e.subs : walkExpr(e.subs[i])
  /\ e.k = "performexpr" => \A i \in DOMAIN e.opt : walkExpr(e.opt[i])
RECURSIVE walkStmt(_)
walkBody(body) == \A i \in DOMAIN body : walkStmt(body[i])
walkStmt(st) ==
  /\ st.k # "dispatch" /\ (st.k = "var" => walkType(st.type))
  /\ st.k \in CoreStmtKinds => \A i \in DOMAIN st.exprs : walkExpr(st.exprs[i])
  /\ \A i \in DOMAIN st.blocks : walkBody(st.blocks[i])
walkDecl(d) ==
  /\ d.k \notin {"policydecl", "interface"} /\ ~d.reversible /\ d.ifaces = <<>>
  /\ d.k \in {"struct", "fn"} => ~d.generic
  /\ \A f \in Range1(d.fields) \cup (IF d.k = "fn" THEN Range1(d.params) ELSE {}) : walkType(f.type)
  /\ d.k = "prompt" => walkType(d.ret)
  /\ \A m \in Range1(d.mems) : walkType(m.type)
  /\ walkBody(d.body) /\ walkBody(d.ctor) /\ walkBody(d.whens)
  /\ \A i \in DOMAIN d.hooks : walkBody(d.hooks[i])
assertCore(r) ==
  /\ r.header = "" /\ r.program.imports = <<>>
  /\ \A i \in DOMAIN r.program.decls : walkDecl(r.program.decls[i])
  /\ walkBody(r.program.stmts)
parse(tokens) ==
  LET r == parseProgram(tokens) IN IF r.ok /\ assertCore(r.v) THEN r ELSE Refused(r.s)

-----------------------------------------------------------------------------
(***************************************************************************)
(* Every production by its name.                                           *)
(***************************************************************************)
Piece(p, s) ==
  CASE p = "Gate" -> parseGateOrBinary(s)
    [] p = "Comparison" -> parseComparison(s)
    [] p = "Add" -> parseAdd(s)
    [] p = "Mul" -> parseMul(s)
    [] p = "Unary" -> parseUnary(s)
    [] p = "Postfix" -> parsePostfix(s)
    [] p = "Primary" -> parsePrimary(s)
    [] p = "Expr" -> IF startsSelect(s) THEN parseSelect(s) ELSE parseSend(s)
    [] p = "Pipe" -> parsePipe(s)
    [] p = "Ident" -> EatOne(At(s, "ident"), s)
    [] p = "Stmt" -> parseStmt(s)
    [] p = "Type" -> parseType(s)
    [] p = "QName" -> qname(s)
    [] p = "Exprs" -> Listed("Expr", ")", s)
    [] p = "Args" -> parseArgs(s)
    [] p = "Name" -> EatOne(AtName(s[1]), s)
    [] p = "ColName" -> colName(s)
    [] p = "Stmts" -> Each("Stmt", "}", s)
    [] p = "Block" -> Single(Parse(<<"{", "Stmts", "}">>, s))
    [] p = "FieldName" -> fieldName(s)
    [] p = "StringText" -> EatOne(At(s, "string"), s)
    [] p = "Number" -> EatOne(AtNumber(s[1]), s)
    [] p = "Number?" -> IF AtNumber(s[1]) THEN Read("", Tail(s)) ELSE Read("", s)
    [] p = "Int" -> int(s)
    [] p \in {"Margin", "Floor", "Readiness"} -> LET word == [Margin |-> "margin", Floor |-> "floor", Readiness |-> "readiness"][p]
                                                IN  Maybe(word, <<word, "Number">>, s)
    [] p = "Names" -> Separated("Ident", ",", <<>>, s)
    [] p = "Columns" -> IF At(s, "*") THEN Read(<<"*">>, Tail(s)) ELSE Separated("ColName", ",", <<>>, s)
    [] p = "TypeArgs" -> parseTypeArgs(s)
    [] p = "TypeArgs?" -> IF At(s, "<") THEN parseTypeArgs(s) ELSE Read(<<>>, s)
    [] p = "TypeParams" -> parseTypeParams(s)
    [] p = "TypeArgName" -> parseTypeArgName(s)
    [] p = "Rule" -> parseRule(s)
    [] p = "Args?" -> SingleOr(Maybe("(", <<"Args">>, s), <<>>)
    [] p = "Items" -> Listed("Expr", "]", s)
    [] p = "FieldInits" -> Listed("FieldInit", "}", s)
    [] p = "FieldInit" -> Build(Parse(<<"Name", ":", "Expr">>, s), LAMBDA v : [name |-> v[1], value |-> v[2]])
    [] p = "Conds" -> Each("Cond", "}", s)
    [] p = "Cond" -> parseQueryCond(s)
    [] p = "Expires" -> Maybe("expires", <<"expires", "Gate">>, s)
    [] p = "TaskClauses" -> Each("TaskClause", "}", s)
    [] p = "TaskClause" -> parseTaskClause(s)
    [] p = "ScopeItems" -> Listed("ScopeItem", "}", s)
    [] p = "ScopeItem" -> Single(Parse(<<"perform", "Ident">>, s))
    [] p = "Init" -> Maybe("=", <<"=", "Expr">>, s)
    [] p = "Store" -> Maybe("<-", <<"<-", "Expr">>, s)
    [] p = "Else" -> parseElse(s)
    [] p = "Binder" -> SingleOr(Maybe("ident", <<"Ident">>, s), "")
    [] p = "About" -> Build(Maybe("about", <<"about", "Expr">>, s), LAMBDA v : IF v = <<>> THEN "" ELSE v[1].name)
    [] p = "Guard" -> Maybe("if", <<"if", "(", "Expr", ")">>, s)
    [] p = "As" -> SingleOr(Maybe("as", <<"as", "Ident">>, s), "")
    [] p = "Arms" -> Each("Arm", "}", s)
    [] p = "Arm" -> parseArm(s)
    [] p = "Abstain" -> Build(Maybe("abstain", <<"abstain", "As", "Block">>, s),
                              LAMBDA v : IF v = <<>> THEN <<>> ELSE <<[head |-> "abstain", body |-> v[2]]>>)
    [] p = "Fields" -> parseFieldList(s)
    [] p = "Fields?" -> SingleOr(Maybe("(", <<"Fields">>, s), <<>>)
    [] p = "ParamFields" -> Listed("ParamField", ")", s)
    [] p = "ParamField" -> parseParamField(s)
    [] p = "StructFields" -> Listed("StructField", "}", s)
    [] p = "StructField" -> parseStructField(s)
    [] p = "Variants" -> Listed("Ident", "}", s)
    [] p = "Super" -> SingleOr(Maybe(":", <<":", "Ident">>, s), "")
    [] p = "Directives" -> Each("Directive", "}", s)
    [] p = "Directive" -> Parse(<<"Ident", "Number">>, s)
    [] p = "IfMembers" -> Each("IfMember", "}", s)
    [] p = "IfMember" -> parseIfMember(s)
    [] p = "Cap" -> parseCap(s)
    [] p = "Grants" -> parseGrants(s)
    [] p = "GrantList" -> Listed("Cap", "}", s)
    [] p = "Ifaces" -> SingleOr(Maybe(":", <<":", "Names">>, s), <<>>)
    [] p = "MemoryClauses" -> Each("MemoryClause", "}", s)
    [] p = "MemoryClause" -> parseMemoryClause(s)
    [] p = "Members" -> Each("Member", "}", s)
    [] p = "Member" -> parseMember(s)
    [] p = "TopLevel" -> IF isDeclStart(s) THEN Build(withPub(s), LAMBDA v : Clause("decl", v)) ELSE Build(parseStmt(s), LAMBDA v : Clause("stmt", v))
=============================================================================
