------------------------------- MODULE Checker -------------------------------
(***************************************************************************)
(* The scope-driven checks of src/agape-ts/src/check.ts: types, provenance *)
(* (what carries un-endorsed cognition), committed narrowing, dependence   *)
(* coverage of a fusion, and the order in which check() runs its passes.   *)
(* A scope is a sequence of frames, the innermost last; `cx` holds the     *)
(* declaration table d, the manifest and the active return type.           *)
(***************************************************************************)
EXTENDS CheckerScans

NewFrame == [cls |-> <<>>, exact |-> <<>>, mem |-> <<>>, agent |-> <<>>, enum |-> <<>>, by |-> <<>>, from |-> <<>>,
             tainted |-> {}, untainted |-> {}, abstained |-> {}, narrowed |-> {}, committed |-> {}, deps |-> {}]
NewScope == <<NewFrame>>
Child(sc) == Append(sc, NewFrame)
Put(sc, f, name, v) == [sc EXCEPT ![Len(sc)][f] = (name :> v) @@ @]
Mark(sc, f, names) == [sc EXCEPT ![Len(sc)][f] = @ \cup names]

\* The nearest frame that binds the name.
Lookup(sc, f, name, default) ==
  LET binding == {i \in DOMAIN sc : name \in DOMAIN sc[i][f]}
  IN  IF binding = {} THEN default ELSE sc[Max(binding)][f][name]
setMemory(sc, name, t) == Put(Put(sc, "mem", name, t), "cls", name, "mem")
getMemory(sc, name) == IF Lookup(sc, "cls", name, "none") = "mem" THEN Lookup(sc, "mem", name, NoType) ELSE NoType
isTainted(sc, name) ==
  \E i \in DOMAIN sc : name \in sc[i].tainted /\ \A j \in i..Len(sc) : name \notin sc[j].untainted
isNonCommittedEndorsement(sc, name) ==
  \E i \in DOMAIN sc : name \in sc[i].abstained /\ \A j \in i..Len(sc) : name \notin sc[j].narrowed
isCommittedDecision(sc, name) == \E i \in DOMAIN sc : name \in sc[i].committed
getScope(sc, name) == Lookup(sc, "from", name, {})
setScope(sc, name, ids) == Put(sc, "from", name, ids)
getEnumName(sc, name) == Lookup(sc, "enum", name, "")
setTaintedTo(sc, name, tainted) ==
  [sc EXCEPT ![Len(sc)].tainted = IF tainted THEN @ \cup {name} ELSE @ \ {name}]
declaredGroups(sc) == UNION {sc[i].deps : i \in DOMAIN sc}
AllDecides(sc) == FoldLeft(LAMBDA f, frame : frame.by @@ f, <<>>, sc)

-----------------------------------------------------------------------------
(* Types, coarse and exact. *)
declClass(t) ==
  CASE t.k = "scalar" -> t.name
    [] t.k \in {"mem", "credence", "decision", "endorsement"} -> t.k
    [] t.k = "named" -> "enum"
    [] t.k = "array" /\ t.args[1].k = "credence" -> "credarray"
    [] OTHER -> "unknown"
conflicts(a, b) == a # b /\ "unknown" \notin {a, b} /\ ~({a, b} \subseteq {"int", "float"})
RECURSIVE exactAssignable(_, _)
exactAssignable(want, got) ==
  /\ want.k = got.k
  /\ IF want.k = "scalar" THEN want.name = got.name \/ <<want.name, got.name>> = <<"float", "int">>
     ELSE want.k = "mem" \/ /\ want.name = got.name /\ Len(want.args) = Len(got.args)
                            /\ \A i \in DOMAIN want.args : exactAssignable(want.args[i], got.args[i])

\* The identifiers an expression depends on.
FreeKinds == {"member", "index", "binary", "unary", "call", "send", "recall", "decide", "endorse", "structlit",
              "fstring", "agg", "quorum", "pipe", "arraylit", "tasklit", "performexpr"}
freeIdents(e) ==
  LET visited == Visited(e, FreeKinds)
      all == visited \cup UNION {UNION {Visited(c, FreeKinds) : c \in Range1(x.opt)} : x \in {y \in visited : y.k = "select"}}
  IN  {x.name : x \in {y \in all : y.k = "ident"}}

Comparisons == {"==", "!=", "<", ">", "<=", ">=", "&&", "||"}
Text == Scalar("text")
OwnerOf(d, variant) ==
  LET owners == {key[2] : key \in {k \in DOMAIN d : k[1] = "enum" /\ variant \in Range1(d[k].variants)}} \cup
                {n \in DOMAIN Builtin : variant \in Range1(Builtin[n])}
  IN  IF owners = {} THEN NoType ELSE Named(CHOOSE n \in owners : TRUE)
FieldType(fields, name) ==
  LET found == {f \in Range1(fields) : f.name = name} IN IF found = {} THEN NoType ELSE (CHOOSE f \in found : TRUE).type

RECURSIVE inferExact(_, _, _)
inferExact(e, sc, cx) ==
  LET sub(i) == inferExact(e.subs[i], sc, cx)
      all == [i \in DOMAIN e.subs |-> sub(i)]
      d == cx.d
  IN  CASE e.k \in {"int", "float", "bool", "null"} -> Scalar(e.k)
        [] e.k \in {"string", "fstring", "mdimport"} -> Text
        [] e.k = "ident" -> IF Lookup(sc, "exact", e.name, NoType) # NoType THEN Lookup(sc, "exact", e.name, NoType)
                            ELSE OwnerOf(d, e.name)
        [] e.k = "structlit" -> IF e.name = "" THEN NoType ELSE TypeRef("named", e.name, e.opt)
        [] e.k = "arraylit" -> IF e.subs = <<>> \/ NoType \in Range1(all) \/ Cardinality(Range1(all)) > 1
                               THEN NoType ELSE ArrayOf(all[1])
        [] e.k = "index" -> IF sub(1).k = "array" THEN sub(1).args[1] ELSE NoType
        [] e.k = "member" -> IF sub(1).k # "named" THEN NoType
                             ELSE IF Has(d, "struct", sub(1).name) THEN FieldType(d[<<"struct", sub(1).name>>].fields, e.name)
                             ELSE IF Has(d, "event", sub(1).name) THEN FieldType(d[<<"event", sub(1).name>>].fields, e.name)
                             ELSE NoType
        [] e.k = "decide" -> IF sub(1).k = "credence" THEN DecisionOf(sub(1).name) ELSE NoType
        [] e.k = "endorse" -> IF sub(1) = NoType THEN NoType ELSE EndorsementOf(sub(1))
        [] e.k = "recall" -> IF e.subs[1].k = "ident" /\ getMemory(sc, e.subs[1].name) # NoType
                             THEN ArrayOf(getMemory(sc, e.subs[1].name)) ELSE NoType
        [] e.k = "call" -> IF e.subs[1].k = "ident" /\ Has(d, "fn", e.subs[1].name)
                           THEN d[<<"fn", e.subs[1].name>>].ret ELSE NoType
        [] e.k = "binary" -> IF e.name \in Comparisons THEN Scalar("bool")
                             ELSE IF e.name = "+" /\ Text \in {sub(1), sub(2)} THEN Text
                             ELSE IF e.name # "/" /\ {sub(1), sub(2)} = {Scalar("int")} THEN Scalar("int")
                             ELSE Scalar("float")
        [] e.k = "unary" -> Scalar(IF e.name = "!" THEN "bool" ELSE "float")
        [] OTHER -> NoType

-----------------------------------------------------------------------------
(***************************************************************************)
(* Endorsement: the subject lies in the scope of the decision, and the     *)
(* decision has been narrowed to a committed variant.                      *)
(***************************************************************************)
scopeOfDecision(e, sc) ==
  freeIdents(e.subs[1]) \cup IF e.subs[1].k = "ident" THEN getScope(sc, e.subs[1].name) ELSE {}
checkEndorseScope(e, sc) ==
  LET by == e.subs[2]
      known == by.k = "decide" \/ (by.k = "ident" /\ \E i \in DOMAIN sc : by.name \in DOMAIN sc[i].from)
      scope == IF by.k = "decide" THEN scopeOfDecision(by, sc) ELSE getScope(sc, by.name)
  IN  Throw(known /\ \E id \in freeIdents(e.subs[1]) : isTainted(sc, id) /\ id \notin scope, "GateError")
IsCommitted(by, sc) == by.k = "ident" /\ isCommittedDecision(sc, by.name)
AnyDecision(by, sc) == TRUE \* mutant
MayEndorse(by, sc) == IsCommitted(by, sc)
checkEndorseCommitted(e, sc) == Throw(~MayEndorse(e.subs[2], sc), "TypeError")

(* `d.committed == V` names d, for a real variant V. *)
CommittedOf(e) == IF e.k = "member" /\ e.name = "committed" /\ e.subs[1].k = "ident" THEN e.subs[1].name ELSE ""
RealVariant(e) == (e.k = "ident" /\ e.name # "abstained") \/ e.k = "bool"
committedNarrowIdent(cond) ==
  IF cond.k # "binary" \/ cond.name # "==" THEN ""
  ELSE LET left == CommittedOf(cond.subs[1])
           other == IF left # "" THEN cond.subs[2] ELSE cond.subs[1]
       IN  IF RealVariant(other) THEN (IF left # "" THEN left ELSE CommittedOf(cond.subs[2])) ELSE ""

-----------------------------------------------------------------------------
(***************************************************************************)
(* The coarse class of an expression and the first error in it.            *)
(***************************************************************************)
Is(c, err) == [c |-> c, err |-> err]
Accessors == [committed |-> "enum", basis |-> "enum", margin |-> "float", decision_id |-> "int"]

\* The units a fusion combines: a name when a declaration can cover it, "" else.
Covered(a, b, groups) == a # "" /\ b # "" /\ \E g \in groups : {a, b} \subseteq g
checkFusionCoverage(units, sc) ==
  Throw(\E i, j \in DOMAIN units : i < j /\ ~Covered(units[i], units[j], declaredGroups(sc)), "TypeError")

RECURSIVE infer(_, _, _), requireExactAssignable(_, _, _, _, _), fusedCredenceUnits(_, _, _), checkInvoke(_, _, _, _, _)
requireExactAssignable(want, value, sc, cx, failClosed) ==
  LET err == infer(value, sc, cx).err
      got == inferExact(value, sc, cx)
  IN  IF err # "none" THEN err
      ELSE IF value.k = "arraylit" /\ want.k = "array"
      THEN FirstError([i \in DOMAIN value.subs |->
             requireExactAssignable(want.args[1], value.subs[i], sc, cx, failClosed)])
      ELSE Throw(IF got = NoType THEN failClosed ELSE ~exactAssignable(want, got), "TypeError")
fusedCredenceUnits(operands, sc, cx) ==
  FoldLeft(LAMBDA units, o :
             units \o (IF o.k = "arraylit" THEN fusedCredenceUnits(o.subs, sc, cx)
                       ELSE LET c == infer(o, sc, cx).c
                            IN  IF c = "credence" THEN <<IF o.k = "ident" THEN o.name ELSE "">>
                                ELSE IF c # "credarray" /\ o.k = "send" THEN <<"">> ELSE <<>>),
           <<>>, operands)

\* The first error of some expressions, and the class of each.
InferAll(es, sc, cx) == [i \in DOMAIN es |-> infer(es[i], sc, cx)]
ErrorIn(es, sc, cx) == FirstError([i \in DOMAIN es |-> infer(es[i], sc, cx).err])
\* A call: of a declared function, or of one the kernel has built in.
BuiltinArity == [now |-> 0, take |-> 2, skip |-> 2, len |-> 1]
inferBuiltin(name, args, sc, cx) ==
  IF name \notin DOMAIN BuiltinArity \/ Len(args) # BuiltinArity[name] THEN Is("unknown", "TypeError")
  ELSE Is(CASE name = "now" -> "text" [] name = "len" -> "int" [] OTHER -> "unknown", ErrorIn(args, sc, cx))
inferFnCall(fn, args, sc, cx) ==
  Is(declClass(fn.ret), IF Len(args) # Len(fn.params) THEN "TypeError"
                        ELSE FirstError([i \in DOMAIN args |-> requireExactAssignable(fn.params[i].type, args[i], sc, cx, FALSE)]))
inferCall(e, sc, cx) ==
  LET name == e.subs[1].name
  IN  IF e.subs[1].k # "ident" THEN Is("unknown", "none")
      ELSE IF Has(cx.d, "fn", name) THEN inferFnCall(cx.d[<<"fn", name>>], Tail(e.subs), sc, cx)
      ELSE inferBuiltin(name, Tail(e.subs), sc, cx)
\* A perform that binds its result has a deadline, and the type of the event its wiring names.
inferPerform(e, sc, cx) ==
  Is(IF e.name \in DOMAIN cx.manifest.results THEN declClass(cx.manifest.results[e.name]) ELSE "unknown",
     IF e.opt = <<>> THEN "TypeError" ELSE FirstError(<<infer(e.opt[1], sc, cx).err, checkInvoke("perform", e.name, e.subs, sc, cx)>>))
inferArrayLit(e, sc, cx) ==
  Is(IF e.subs # <<>> /\ \A x \in Range1(InferAll(e.subs, sc, cx)) : x.c = "credence" THEN "credarray" ELSE "unknown",
     ErrorIn(e.subs, sc, cx))
\* all, any and quorum: over plain booleans no fusion, else every pair of the units is covered.
inferFusion(e, sc, cx) ==
  LET classes == {x.c : x \in Range1(InferAll(e.subs, sc, cx))}
      units == fusedCredenceUnits(e.subs, sc, cx)
      coverage == IF Len(units) >= 2 THEN checkFusionCoverage(units, sc) ELSE "none"
  IN  IF e.k = "agg" /\ e.subs # <<>> /\ classes = {"bool"} THEN Is("bool", ErrorIn(e.subs, sc, cx))
      ELSE Is(IF Len(units) >= 1 \/ classes \cap {"credence", "credarray"} # {} THEN "credence" ELSE "unknown",
              FirstError(<<ErrorIn(e.subs, sc, cx), coverage>>))

InferKinds == {"spawnexpr", "recall", "structlit", "decide", "index", "member", "pipe", "tasklit"}
infer(e, sc, cx) ==
  LET d == cx.d
      all == [i \in DOMAIN e.subs |-> infer(e.subs[i], sc, cx)]
      inside == FirstError([i \in DOMAIN all |-> all[i].err])
      class(i) == all[i].c
      named == e.subs # <<>> /\ e.subs[1].k = "ident"
      first == IF named THEN e.subs[1].name ELSE ""
  IN  CASE e.k \in {"int", "float", "bool", "null"} -> Is(e.k, "none")
        [] e.k \in {"string", "fstring", "mdimport"} -> Is("text", "none")
        [] e.k = "self" -> Is("agent", "none")
        [] e.k = "ident" -> Is(IF Lookup(sc, "cls", e.name, "none") # "none" THEN Lookup(sc, "cls", e.name, "none")
                               ELSE IF e.name = "abstained" \/ OwnerOf(d, e.name) # NoType THEN "enum" ELSE "unknown", "none")
        [] e.k = "unary" -> Is(IF e.name = "!" THEN "bool" ELSE "float", "none")
        [] e.k = "binary" -> IF e.name \in Comparisons THEN Is("bool", inside)
                             ELSE IF e.name = "+" THEN Is(IF "text" \in {class(1), class(2)} THEN "text" ELSE "float", inside)
                             ELSE Is("float", "none")
        [] e.k = "endorse" -> Is("endorsement", FirstError(<<checkEndorseScope(e, sc), checkEndorseCommitted(e, sc)>>))
        [] e.k = "send" ->
             IF named /\ getMemory(sc, first) # NoType
             THEN Is("unknown", requireExactAssignable(getMemory(sc, first), e.subs[2], sc, cx, TRUE))
             ELSE Is("unknown", IF named /\ Lookup(sc, "cls", first, "none") \notin {"none", "unknown", "agent", "enum"}
                                THEN "TypeError" ELSE infer(e.subs[2], sc, cx).err)
        [] e.k = "recall" -> Is("unknown", FirstError(<<infer(e.subs[2], sc, cx).err,
                               Throw(infer(e.subs[2], sc, cx).c # "text" \/ ~named \/ getMemory(sc, first) = NoType, "TypeError")>>))
        [] e.k = "structlit" -> Is(IF e.name = "" THEN "unknown" ELSE "enum", FirstError(<<inside,
             IF ~Has(d, "struct", e.name) THEN "none"
             ELSE LET fields == d[<<"struct", e.name>>].fields
                  IN  IF {f.name : f \in Range1(fields)} # Range1(e.labels) THEN "TypeError"
                      ELSE FirstError([i \in DOMAIN e.subs |->
                             requireExactAssignable(FieldType(fields, e.labels[i]), e.subs[i], sc, cx, TRUE)])>>))
        [] e.k = "decide" -> Is("decision", inside)
        [] e.k = "member" -> Is(IF class(1) \in {"decision", "endorsement"} /\ e.name \in DOMAIN Accessors
                                THEN Accessors[e.name] ELSE "unknown",
                                FirstError(<<inside, Throw(class(1) = "credence" /\ e.name \in {"committed", "basis", "margin"}, "TypeError")>>))
        [] e.k = "spawnexpr" -> Is("unknown", IF Has(d, "interface", e.name) THEN "TypeError" ELSE inside)
        [] e.k = "tasklit" -> Is("unknown", FirstError(<<Throw(Len(e.subs) # 2, "TypeError"), inside,
                                Throw(\E i \in DOMAIN all : class(i) \notin {"text", "unknown"}, "TypeError")>>))
        [] e.k = "call" -> inferCall(e, sc, cx)
        [] e.k = "performexpr" -> inferPerform(e, sc, cx)
        [] e.k = "arraylit" -> inferArrayLit(e, sc, cx)
        [] e.k \in {"agg", "quorum"} -> inferFusion(e, sc, cx)
        [] OTHER -> Is("unknown", IF e.k \in InferKinds THEN inside ELSE "none")

-----------------------------------------------------------------------------
(***************************************************************************)
(* The sink rule of a perform: no argument names a value that carries      *)
(* un-endorsed cognition.  An emit has no such rule.                       *)
(***************************************************************************)
Clean(args, sc) ==
  \A a \in Range1(args) : \A id \in freeIdents(a) : ~isTainted(sc, id) /\ ~isNonCommittedEndorsement(sc, id)
ScalarClasses == {"int", "float", "bool", "text", "null"}
Argument(arg, field, sc, cx) ==
  LET got == infer(arg, sc, cx)
      exact == inferExact(arg, sc, cx)
      want == declClass(field.type)
  IN  FirstError(<<got.err,
        Throw(exact # NoType /\ exact.k \notin {"credence", "decision", "endorsement"} /\ ~exactAssignable(field.type, exact), "TypeError"),
        Throw({got.c, want} \subseteq ScalarClasses /\ conflicts(got.c, want), "TypeError")>>)
checkInvoke(kind, name, args, sc, cx) ==
  LET of == IF kind = "emit" THEN "event" ELSE "action"
      fields == cx.d[<<of, name>>].fields
  IN  IF ~Has(cx.d, of, name) THEN Throw(~(kind = "emit" /\ name \in {"Event", "Error", "TaskProgress"}), "TypeError")
      ELSE IF Len(args) # Len(fields) THEN "TypeError"
      ELSE IF kind = "perform" /\ ~Clean(args, sc) THEN "TaintViolation"
      ELSE FirstError([i \in DOMAIN args |-> Argument(args[i], fields[i], sc, cx)])

-----------------------------------------------------------------------------
(***************************************************************************)
(* What a binding depends on.                                              *)
(***************************************************************************)
isTaintedExpr(e, sc) == e.k = "recall" \/ \E id \in freeIdents(e) : isTainted(sc, id)
IsRaw(init, class) == init.k = "send" /\ class \notin {"credence", "endorsement"}
trackProvenance(name, init, sc, class) ==
  LET marked == setTaintedTo(sc, name, isTaintedExpr(init, sc) \/ IsRaw(init, class))
      free == freeIdents(init)
      fed == IF init.k = "decide" /\ init.subs[1].k = "ident" THEN getScope(sc, init.subs[1].name) ELSE {}
  IN  CASE init.k = "endorse" -> setScope(setTaintedTo(marked, name, FALSE), name, free)
        [] init.k = "decide" -> Mark(setScope(marked, name, scopeOfDecision(init, sc)), "tainted", fed)
        [] OTHER -> setScope(marked, name, free)

checkInterfaceBinding(s, sc, d) ==
  LET agent == IF s.exprs[1].k = "ident" THEN Lookup(sc, "agent", s.exprs[1].name, "") ELSE ""
  IN  Throw(/\ s.type.k = "named" /\ Has(d, "interface", s.type.name) /\ Has(d, "agent", agent)
            /\ s.type.name \notin Range1(d[<<"agent", agent>>].ifaces), "InterfaceError")

-----------------------------------------------------------------------------
(***************************************************************************)
(* Statements.  A check gives the scope after it and the first error.      *)
(***************************************************************************)
After(sc, err) == [sc |-> sc, err |-> err]

checkVar(s, sc, cx) ==
  LET init == IF s.exprs = <<>> THEN NoDecide ELSE s.exprs[1]
      got == infer(init, sc, cx)
      exact == inferExact(init, sc, cx)
      class == declClass(s.type)
      err == FirstError(<<got.err, Throw(exact # NoType /\ ~exactAssignable(s.type, exact), "TypeError"),
                          Throw(conflicts(class, got.c), "TypeError"), checkInterfaceBinding(s, sc, cx.d)>>)
      tracked == trackProvenance(s.name, init, sc, class)
      agent == CASE init.k = "ident" -> Lookup(sc, "agent", init.name, "") [] init.k = "spawnexpr" -> init.name [] OTHER -> ""
      typed == IF agent = "" THEN tracked ELSE Put(tracked, "agent", s.name, agent)
      bound == Put(Put(IF s.exprs = <<>> THEN sc ELSE typed, "cls", s.name, class), "exact", s.name, s.type)
      graded == IF s.type.k \in {"credence", "decision"} THEN Put(bound, "enum", s.name, s.type.name) ELSE bound
  IN  After(IF init.k = "decide" THEN Put(graded, "by", s.name, init) ELSE graded, IF s.exprs = <<>> THEN "none" ELSE err)

checkAssign(s, sc, cx) ==
  LET target == s.exprs[1]
      value == s.exprs[2]
      want == inferExact(target, sc, cx)
      got == inferExact(value, sc, cx)
      object == IF target.k = "member" THEN infer(target.subs[1], sc, cx) ELSE Is("unknown", "none")
      err == FirstError(<<object.err, Throw(object.c \in {"decision", "endorsement"}, "TypeError"), infer(value, sc, cx).err,
                          Throw(NoType \notin {want, got} /\ ~exactAssignable(want, got), "TypeError")>>)
  IN  After(IF target.k = "ident" THEN trackProvenance(target.name, value, sc, Lookup(sc, "cls", target.name, "none")) ELSE sc, err)

RECURSIVE checkBody(_, _, _)
checkIf(s, sc, cx) ==
  LET cond == infer(s.exprs[1], sc, cx)
      name == committedNarrowIdent(s.exprs[1])
      then == IF name = "" THEN Child(sc)
              ELSE Mark(Child(sc), IF Lookup(sc, "cls", name, "none") = "decision" THEN "committed" ELSE "narrowed", {name})
  IN  After(sc, FirstError(<<cond.err, Throw(cond.c \notin {"bool", "unknown"}, "TypeError"),
                             checkBody(s.blocks[1], then, cx).err, checkBody(s.blocks[2], Child(sc), cx).err>>))

\* The first commit arm of an endorsement settles what the decision was about.
Settles(gate, sc) ==
  LET by == gate.subs[2]
  IN  freeIdents(gate.subs[1]) \cup IF by.k = "decide" THEN scopeOfDecision(by, sc)
                                    ELSE IF by.k = "ident" THEN getScope(sc, by.name) ELSE {}
\* The enum a gate dispatches over, as far as the declared type of its operand says.
gateEnum(gate, sc) ==
  LET operand == IF gate.k = "decide" THEN gate.subs[1] ELSE gate.subs[2]
  IN  IF operand.k = "ident" THEN getEnumName(sc, operand.name) ELSE ""
checkDispatch(s, sc, cx) ==
  LET gate == s.exprs[1]
      variants == IF gateEnum(gate, sc) = "" THEN <<>> ELSE Variants(cx.d, gateEnum(gate, sc))
      arms == {h \in Range1(s.heads) : h # "abstain"}
      abstains == "abstain" \in Range1(s.heads)
      Inside(j) == LET binder == IF s.labels = <<>> THEN "" ELSE s.labels[j]
                       class == IF gate.k = "endorse" THEN "endorsement" ELSE "decision"
                       inner == IF binder = "" THEN Child(sc) ELSE Put(Child(sc), "cls", binder, class)
                   IN  IF s.heads[j] = "abstain" THEN Mark(inner, "abstained", {binder} \ {""})
                       ELSE IF gate.k = "endorse" /\ j = 1 THEN Mark(inner, "untainted", Settles(gate, sc)) ELSE inner
  IN  After(sc, FirstError(<<infer(gate, sc, cx).err,
        IF gate.k = "endorse" THEN checkDeference(s, cx.d, AllDecides(sc)) ELSE "none",
        Throw(variants # <<>> /\ ~(arms \subseteq Range1(variants)), "TypeError"),
        Throw(variants # <<>> /\ ~abstains /\ ~(Range1(variants) \subseteq arms), "ExhaustivenessError")>> \o
        [j \in DOMAIN s.blocks |-> checkBody(s.blocks[j], Inside(j), cx).err]))

checkStmt(s, sc, cx) ==
  CASE s.k = "var" -> checkVar(s, sc, cx)
    [] s.k = "assign" -> checkAssign(s, sc, cx)
    [] s.k \in {"emit", "perform"} -> After(sc, checkInvoke(s.k, s.name, s.exprs, sc, cx))
    [] s.k \in {"say", "exprstmt", "complete", "cancel"} -> After(sc, infer(s.exprs[1], sc, cx).err)
    [] s.k = "fail" -> LET reason == infer(s.exprs[1], sc, cx)
                       IN  After(sc, FirstError(<<reason.err, Throw(reason.c \notin {"text", "unknown"}, "TypeError")>>))
    [] s.k = "if" -> checkIf(s, sc, cx)
    [] s.k = "dispatch" -> checkDispatch(s, sc, cx)
    [] s.k = "retry" -> checkBody(s.blocks[1], sc, cx)
    [] s.k = "memdecl" -> After(sc, "TypeError")
    [] s.k = "forget" -> After(sc, Throw(getMemory(sc, s.name) = NoType, "TypeError"))
    [] s.k = "depdecl" -> After(Mark(sc, "deps", {Range1(s.labels)}), "none")
    [] s.k = "spawn" -> After(IF Has(cx.d, "agent", s.type.name) THEN Put(sc, "agent", s.name, s.type.name) ELSE sc,
                              Throw(Has(cx.d, "interface", s.type.name), "TypeError"))
    [] s.k = "return" -> After(sc, IF s.exprs = <<>> THEN Throw(cx.ret \notin {NoType, Scalar("null")}, "TypeError")
                                   ELSE IF cx.ret = NoType THEN "TypeError"
                                   ELSE requireExactAssignable(cx.ret, s.exprs[1], sc, cx, FALSE))
    [] OTHER -> After(sc, "none")
checkBody(body, sc, cx) ==
  FoldLeft(LAMBDA acc, s : IF acc.err # "none" THEN acc ELSE checkStmt(s, acc.sc, cx), After(sc, "none"), body)

-----------------------------------------------------------------------------
(* Agents and functions. *)
checkAgent(a, cx) ==
  LET d == cx.d
      memories == checkMemoryDescriptors(a, d, {})
      agentScope == FoldLeft(LAMBDA sc, n : setMemory(sc, n, memories.types[n]), NewScope, SetToSeq(DOMAIN memories.types))
      Bound(w) == IF w.labels[1] = "" THEN agentScope
                  ELSE LET s == Put(agentScope, "cls", w.labels[1], "unknown")
                       IN  IF Has(d, "event", w.name) THEN Put(s, "exact", w.labels[1], Named(w.name)) ELSE s
      Hook(b) == FirstError(<<checkBody(b, agentScope, cx).err, checkDeferenceFlow(b, d)>>)
      Reaction(w) == FirstError(<<checkBody(w.blocks[1], Bound(w), cx).err, checkDeferenceFlow(w.blocks[1], d)>>)
  IN  IF memories.error # "none" THEN memories.error
      ELSE FirstError(<<Throw(\E g \in a.grants : g[1] = "use", "TypeError"), checkSubtractiveGrants(a, d),
                        checkBody(a.ctor, agentScope, cx).err>> \o [i \in DOMAIN a.hooks |-> Hook(a.hooks[i])] \o
                      [i \in DOMAIN a.whens |-> Reaction(a.whens[i])] \o <<checkNominalConformance(a, d), checkExport(a, d)>>)
checkFn(f, cx) ==
  LET params == FoldLeft(LAMBDA sc, p : Put(Put(sc, "cls", p.name, declClass(p.type)), "exact", p.name, p.type), NewScope, f.params)
  IN  FirstError(<<checkExport(f, cx.d), IF f.pure THEN assertPureBody(f.body, cx.d) ELSE "none",
                   checkBody(f.body, params, [cx EXCEPT !.ret = f.ret]).err, checkDeferenceFlow(f.body, cx.d)>>)
checkDecl(x, cx) ==
  CASE x.k = "agent" -> checkAgent(x, cx)
    [] x.k = "fn" -> checkFn(x, cx)
    [] x.k = "interface" -> checkInterface(x, cx.d)
    [] x.k = "struct" -> checkExport(x, cx.d)
    [] OTHER -> "none"

(***************************************************************************)
(* The configuration a program is checked against: every declared          *)
(* principal and prompt bound in the strict mode, wiring that names        *)
(* declared things and configured tools.                                   *)
(***************************************************************************)
Unbound(x, manifest) ==
  /\ x.k \in {"principal", "prompt"}
  /\ IF x.name \in DOMAIN manifest.bound THEN ~manifest.bound[x.name] ELSE manifest.strict
Miswired(w, d) ==
  \/ ~(Has(d, w.k, w.name) \/ (w.k = "event" /\ w.name \in {"Event", "Error", "TaskProgress"}))
  \/ ~w.toolReady \/ (w.result # "" /\ ~Has(d, "event", w.result))
checkConfiguration(program, manifest) ==
  Throw(\/ \E x \in Range1(program.decls) : Unbound(x, manifest)
        \/ manifest.setsPolicy \/ manifest.ingress \notin {"", "warn", "deny", "off"}
        \/ manifest.textOnlyAtZero, "ConfigError")
validateWiring(d, manifest) ==
  Throw(manifest.strict /\ \E w \in manifest.wiring : Miswired(w, d), "ConfigError")

check(program, linked, imported, manifest) ==
  LET d == DeclTable(program, imported)
      cx == [d |-> d, manifest |-> manifest, ret |-> NoType]
      config == checkConfiguration(program, manifest)
  IN  IF config # "none" THEN config ELSE IF linked # "none" THEN linked
      ELSE FirstError(<<validateWiring(d, manifest), checkTypeSurfaces(program, d)>> \o
                      [i \in DOMAIN program.decls |-> checkDecl(program.decls[i], cx)] \o
                      <<checkBody(program.stmts, NewScope, cx).err, checkDeferenceFlow(program.stmts, d),
                        checkReturnPlacement(program), checkDenyModePromptIngress(program, d, manifest)>>)
=============================================================================
