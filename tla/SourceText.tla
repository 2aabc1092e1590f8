----------------------------- MODULE SourceText -----------------------------
(***************************************************************************)
(* The tokens a program is written with, by the grammar of the language    *)
(* (SPEC.md 15.2): the reference the parser is compared with.  A part that *)
(* binds looser than its place is put in parentheses.                      *)
(***************************************************************************)
EXTENDS Parser

Spelled(ws) == [i \in DOMAIN ws |-> IF ws[i] \in Words THEN Token("ident", ws[i]) ELSE Token(ws[i], ws[i])]
Name(n) == IF n \in CONTEXTUAL THEN Token(n, n) ELSE Token("ident", n)
Between(sep, texts) ==
  FlattenSeq([i \in DOMAIN texts |-> IF i = 1 THEN texts[i] ELSE Spelled(<<sep>>) \o texts[i]])
Dotted(n) == Between(".", [i \in DOMAIN SegmentsOf(n) |-> <<Name(SegmentsOf(n)[i])>>])
Within(open, text, close) == Spelled(<<open>>) \o text \o Spelled(<<close>>)
NamesText(ns) == Between(",", [i \in DOMAIN ns |-> <<Name(ns[i])>>])

RECURSIVE TypeText(_)
TypeText(t) ==
  LET args == Between(",", [i \in DOMAIN t.args |-> TypeText(t.args[i])])
      Of(name, inner) == <<Name(name)>> \o Within("<", inner, ">")
  IN  CASE t.k = "scalar" -> Spelled(<<t.name>>)
        [] t.k = "mem" -> Spelled(<<"mem">>)
        [] t.k = "array" -> args \o Spelled(<<"[", "]">>)
        [] t.k = "credence" -> Of("Credence", <<Name(t.name)>>)
        [] t.k = "decision" -> Of("Decision", <<Name(t.name)>>)
        [] t.k = "endorsement" -> Of("Endorsement", args)
        [] t.k = "task" -> Of("Task", args)
        [] t.k = "named" -> Dotted(t.name) \o IF t.args = <<>> THEN <<>> ELSE Within("<", args, ">")

\* How loose an expression is: 0 a query, a send or a recall, up to 8.
Level(e) ==
  CASE e.k \in {"select", "send", "recall"} -> 0
    [] e.k = "pipe" -> 1
    [] e.k \in {"decide", "endorse"} \/ (e.k = "performexpr" /\ e.opt # <<>>) -> 2
    [] e.k = "binary" /\ e.name \in ComparisonOps -> 3
    [] e.k = "binary" /\ e.name \in {"+", "-"} -> 4
    [] e.k = "binary" -> 5
    [] e.k = "unary" -> 6
    [] e.k \in {"index", "member", "call"} -> 7
    [] OTHER -> 8

RuleText(e, Of(_)) ==
  CASE e.rule.r = "confidence" -> Spelled(<<"confidence">>) \o <<Token("float", "")>>
    [] e.rule.r = "conformal" -> Spelled(<<"conformal">>) \o <<Token("float", "")>>
    [] e.rule.r = "policy" -> <<Name(e.rule.name)>>
    [] e.rule.r = "expr" -> Within("(", Of(e.opt[1]), ")")
LiteralText(e) ==
  CASE e.k \in {"int", "float"} -> <<Token(e.k, "")>>
    [] e.k = "string" -> <<Token("string", e.name)>>
    [] e.k = "bool" -> Spelled(<<e.name>>)
    [] e.k \in {"null", "self"} -> Spelled(<<e.k>>)
    [] e.k = "mdimport" -> Spelled(<<"md">>) \o <<Token("string", e.name)>>

RECURSIVE Written(_, _)
Open(e) ==
  LET T(i, level) == Written(e.subs[i], level)
      List == Between(",", [i \in DOMAIN e.subs |-> T(i, 0)])
      Opt(word) == IF e.opt = <<>> THEN <<>> ELSE Spelled(<<word>>) \o Written(e.opt[1], 2)
      Infix(op, l, r) == T(1, l) \o Spelled(<<op>>) \o T(2, r)
  IN  CASE e.k = "select" -> Spelled(<<"select">>) \o (IF e.name # "" THEN <<Name(e.name)>> \o Spelled(<<"as">>) \o <<Name("x")>>
                                                      ELSE IF e.labels = <<"*">> THEN Spelled(<<"*">>) ELSE NamesText(e.labels))
                              \o Spelled(<<"from", "ledger", "where", "{">>)
                              \o Between("&&", [i \in DOMAIN e.opt |-> <<Name("f")>> \o Spelled(<<"==">>) \o Written(e.opt[i], 4)]) \o Spelled(<<"}">>)
        [] e.k = "send" -> Infix("<-", 1, 1) \o Opt("expires")
        [] e.k = "recall" -> Infix("->", 1, 1)
        [] e.k = "pipe" -> Infix("|>", 1, 2)
        [] e.k = "endorse" -> Spelled(<<"endorse">>) \o Infix("by", 3, 3)
        [] e.k = "decide" -> (IF e.name = "" THEN <<>> ELSE <<Name(e.name)>>) \o Spelled(<<"decide">>) \o T(1, 3) \o Spelled(<<"by">>)
                             \o RuleText(e, LAMBDA x : Written(x, 0))
        [] e.k = "binary" -> LET n == Level(e) IN Infix(e.name, IF n = 3 THEN 4 ELSE n, n + 1)
        [] e.k = "unary" -> Spelled(<<e.name>>) \o T(1, 6)
        [] e.k = "index" -> T(1, 7) \o Within("[", T(2, 0), "]")
        [] e.k = "member" -> T(1, 7) \o Spelled(<<".">>) \o <<Name(e.name)>>
        [] e.k = "call" -> T(1, 7) \o Within("(", Between(",", [i \in 1..(Len(e.subs) - 1) |-> T(i + 1, 0)]), ")")
        [] e.k = "ident" -> IF e.name = "abstained" THEN Spelled(<<"abstained">>) ELSE <<Name(e.name)>>
        [] e.k = "structlit" -> (IF e.name = "" THEN <<>> ELSE Dotted(e.name)) \o
             Within("{", Between(",", [i \in DOMAIN e.subs |-> <<Name(e.labels[i])>> \o Spelled(<<":">>) \o T(i, 0)]), "}")
        [] e.k = "arraylit" -> Within("[", List, "]")
        [] e.k = "agg" -> Spelled(<<e.name>>) \o Within("(", List, ")")
        [] e.k = "quorum" -> Spelled(<<"quorum", "(">>) \o <<Token("int", "")>> \o Spelled(<<",">>) \o List \o Spelled(<<")">>)
        [] e.k = "fstring" -> <<[Token("fstring", "") EXCEPT !.parts = [i \in DOMAIN e.subs |-> Append(T(i, 0), Eof)]]>>
        [] e.k = "spawnexpr" -> Spelled(<<"spawn">>) \o Dotted(e.name) \o Within("(", List, ")")
        [] e.k = "performexpr" -> Spelled(<<"perform">>) \o Dotted(e.name) \o Within("(", List, ")") \o Opt("expires")
        [] e.k = "tasklit" -> Spelled(<<"task", "{", "objective">>) \o T(1, 0) \o Spelled(<<";", "acceptance">>) \o T(2, 0) \o
             Spelled(<<";", "scope", "{">>) \o
             Between(",", [i \in DOMAIN e.labels |-> Spelled(<<"perform">>) \o <<Name(e.labels[i])>>]) \o Spelled(<<"}", "}">>)
        [] OTHER -> LiteralText(e)
Written(e, level) == IF Level(e) < level THEN Within("(", Open(e), ")") ELSE Open(e)

-----------------------------------------------------------------------------
ArgsText(es) == Within("(", Between(",", [i \in DOMAIN es |-> Written(es[i], 0)]), ")")
Optional(word, es) == IF es = <<>> THEN <<>> ELSE Spelled(<<word>>) \o Written(es[1], 0)
Ended(text) == text \o Spelled(<<";">>)

RECURSIVE StmtText(_)
BlockText(body) == Within("{", FlattenSeq([i \in DOMAIN body |-> StmtText(body[i])]), "}")
ArmText(st, i) == (IF st.heads[i] \in {"true", "false", "abstain"} THEN Spelled(<<st.heads[i]>>) ELSE <<Name(st.heads[i])>>) \o BlockText(st.blocks[i])
ArmsText(st, abstains) ==
  FlattenSeq([i \in DOMAIN st.heads |-> IF (st.heads[i] = "abstain") = abstains THEN ArmText(st, i) ELSE <<>>])
StmtText(st) ==
  LET n == <<Name(st.name)>>
  IN  CASE st.k = "spawn" -> Ended(Spelled(<<"spawn">>) \o Dotted(st.type.name) \o n \o ArgsText(st.exprs))
        [] st.k \in {"awake", "sleep", "forget"} -> Ended(Spelled(<<st.k>>) \o n)
        [] st.k \in {"emit", "perform"} -> Ended(Spelled(<<st.k>>) \o Dotted(st.name) \o ArgsText(st.exprs))
        [] st.k = "say" -> Ended(Spelled(<<"say">>) \o ArgsText(st.exprs))
        [] st.k \in {"complete", "fail", "return"} -> Ended(Optional(st.k, st.exprs) \o IF st.exprs = <<>> THEN Spelled(<<st.k>>) ELSE <<>>)
        [] st.k = "cancel" -> Ended(Spelled(<<"cancel">>) \o Written(st.exprs[1], 7))
        [] st.k = "memdecl" -> Ended(Spelled(<<"mem">>) \o n \o Optional("<-", st.exprs))
        [] st.k = "depdecl" -> Ended(Spelled(<<st.name>>) \o NamesText(st.labels))
        [] st.k = "retry" -> BlockText(st.blocks[1]) \o Spelled(<<"retry", "(">>) \o <<[Token("int", "") EXCEPT !.n = st.times]>> \o Spelled(<<")">>)
        [] st.k = "if" -> Spelled(<<"if">>) \o ArgsText(st.exprs) \o BlockText(st.blocks[1]) \o
                          IF st.blocks[2] = <<>> THEN <<>> ELSE Spelled(<<"else">>) \o BlockText(st.blocks[2])
        [] st.k = "when" -> Spelled(<<"when", "(">>) \o Dotted(st.name) \o (IF st.labels[1] = "" THEN <<>> ELSE <<Name(st.labels[1])>>) \o
                            (IF st.about = "" THEN <<>> ELSE Spelled(<<"about">>) \o <<Name(st.about)>>) \o Spelled(<<")">>) \o
                            (IF st.exprs = <<>> THEN <<>> ELSE Spelled(<<"if">>) \o ArgsText(st.exprs)) \o BlockText(st.blocks[1])
        [] st.k = "dispatch" -> Written(st.exprs[1], 2) \o Within("{", ArmsText(st, FALSE), "}") \o ArmsText(st, TRUE)
        [] st.k = "var" -> Ended(TypeText(st.type) \o n \o Optional("=", st.exprs))
        [] st.k = "assign" -> Ended(Written(st.exprs[1], 0) \o Optional("=", Tail(st.exprs)))
        [] st.k = "exprstmt" -> Ended(Written(st.exprs[1], 0))

-----------------------------------------------------------------------------
FieldsText(fs) == Within("(", Between(",", [i \in DOMAIN fs |-> TypeText(fs[i].type) \o <<Name(fs[i].name)>>]), ")")
GrantText(g) == Spelled(<<g[1]>>) \o Dotted(g[2])
MemText(m) ==
  Spelled(<<"mem">>) \o <<Name(m.name)>> \o Spelled(<<"{", "type">>) \o TypeText(m.type) \o Spelled(<<";", "modality">>) \o <<Name(m.modality)>> \o
  Spelled(<<";", "scope">>) \o NamesText(m.scope) \o Spelled(<<";", "retention">>) \o <<Name(m.retention)>> \o Spelled(<<";", "}">>)
AgentText(d) ==
  Spelled(<<"agent">>) \o <<Name(d.name)>> \o (IF d.params = <<>> THEN <<>> ELSE FieldsText(d.params)) \o
  (IF d.grants = AllGrants THEN Spelled(<<"grants", "{", "*", "}">>)
   ELSE Spelled(<<"grants">>) \o Within("{", LET gs == SetToSeq(d.grants) IN Between(",", [i \in DOMAIN gs |-> GrantText(gs[i])]), "}")) \o
  Within("{", (IF d.extends = "" THEN <<>> ELSE Spelled(<<"extend">>) \o Dotted(d.extends) \o Spelled(<<";">>)) \o
              FlattenSeq([i \in DOMAIN d.mems |-> MemText(d.mems[i])]) \o
              FlattenSeq([i \in DOMAIN d.fields |-> Ended(TypeText(d.fields[i].type) \o <<Name(d.fields[i].name)>>)]) \o
              FlattenSeq([i \in DOMAIN d.ctor |-> StmtText(d.ctor[i])]) \o
              FlattenSeq([i \in DOMAIN d.hooks |-> Spelled(<<"on", d.on[i]>>) \o BlockText(d.hooks[i])]) \o
              FlattenSeq([i \in DOMAIN d.whens |-> StmtText(d.whens[i])]), "}")
DeclText(d) ==
  LET n == <<Name(d.name)>>
  IN  (IF d.pub THEN Spelled(<<"pub">>) ELSE <<>>) \o
      CASE d.k = "enum" -> Spelled(<<"enum">>) \o n \o Within("{", NamesText(d.variants), "}")
        [] d.k = "struct" -> Spelled(<<"struct">>) \o n \o
             Within("{", Between(",", [i \in DOMAIN d.fields |-> <<Name(d.fields[i].name)>> \o Spelled(<<":">>) \o TypeText(d.fields[i].type)]), "}")
        [] d.k = "action" -> Ended(Spelled((IF d.reversible THEN <<"reversible">> ELSE <<>>) \o <<"action">>) \o n \o FieldsText(d.fields))
        [] d.k = "event" -> Ended(Spelled(<<"event">>) \o n \o FieldsText(d.fields) \o
                                  IF d.super = "" THEN <<>> ELSE Spelled(<<":">>) \o <<Name(d.super)>>)
        [] d.k = "fn" -> (IF d.pure THEN Spelled(<<"pure">>) ELSE <<>>) \o TypeText(d.ret) \o n \o FieldsText(d.params) \o BlockText(d.body)
        [] d.k = "principal" -> Ended(Spelled(<<"principal">>) \o n)
        [] d.k = "prompt" -> Ended(Spelled(<<"prompt">>) \o TypeText(d.ret) \o n)
        [] d.k = "policydecl" -> Spelled(<<"policy">>) \o n \o Within("{", Spelled(<<"margin">>) \o <<Token("float", "")>>, "}")
        [] d.k = "agent" -> AgentText(d)
ProgramText(p) ==
  FlattenSeq([i \in DOMAIN p.decls |-> DeclText(p.decls[i])]) \o FlattenSeq([i \in DOMAIN p.stmts |-> StmtText(p.stmts[i])]) \o <<Eof>>
=============================================================================
