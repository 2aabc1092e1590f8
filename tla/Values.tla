------------------------------- MODULE Values -------------------------------
(***************************************************************************)
(* The values of the interpreter (src/agape-ts/src/interp.ts), their       *)
(* trust, the scopes that hold them and the fusion of credences.  A value  *)
(* keeps what the kernel's decisions look at: its kind, its trust, whether *)
(* it stems from private memory or from unscreened input, its parts, the   *)
(* outcome of a gate and its identity as an object.  `origins` is not in   *)
(* the code: the model's replies and recalls the value was computed from,  *)
(* as long as nothing has endorsed them.                                   *)
(***************************************************************************)
EXTENDS Syntax, SequencesExt, FiniteSetsExt, Functions, TLC

Value(k, trust) ==
  [k |-> k, trust |-> trust, name |-> "", items |-> <<>>, labels |-> <<>>, outcome |-> "", narrowed |-> FALSE,
   from |-> {}, about |-> {}, source |-> 0, private |-> FALSE, ingress |-> FALSE, auth |-> FALSE, id |-> 0,
   origins |-> {}]
Null == Value("null", "settled")
Undefined == Value("undefined", "settled")
settledText(name) == [Value("text", "settled") EXCEPT !.name = name]
EnumVal(variant) == [Value("enumval", "settled") EXCEPT !.name = variant]
BoolVal(b) == [Value("bool", "settled") EXCEPT !.name = IF b THEN "true" ELSE "false"]
AgentRef(name) == [Value("agentref", "settled") EXCEPT !.name = name]
GateKinds == {"credence", "decision", "endorsement"}

\* settled below graded below raw: the join is as raw as its rawest part.
trustJoin(vs) ==
  LET trusts == {v.trust : v \in Range1(vs)}
  IN  IF "raw" \in trusts THEN "raw" ELSE IF "graded" \in trusts THEN "graded" ELSE "settled"

RECURSIVE containsPrivateMemory(_), withPrivateMemory(_), withTrust(_, _, _)
containsPrivateMemory(v) ==
  \/ v.private
  \/ v.k \in {"array", "struct", "endorsement"} /\ \E x \in Range1(v.items) : containsPrivateMemory(x)
withPrivateMemory(v) ==
  IF v.k \in {"array", "struct", "endorsement"}
  THEN [v EXCEPT !.private = TRUE, !.items = [i \in DOMAIN v.items |-> withPrivateMemory(v.items[i])]]
  ELSE [v EXCEPT !.private = TRUE]
privateDerived(v, sources) ==
  IF \E x \in Range1(sources) : containsPrivateMemory(x) THEN withPrivateMemory(v) ELSE v
withTrust(v, trust, private) ==
  LET marked == [v EXCEPT !.private = v.private \/ private]
      parts(t) == [i \in DOMAIN v.items |-> withTrust(v.items[i], t, private)]
  IN  CASE v.k \in {"struct", "array"} -> [marked EXCEPT !.items = parts(trust), !.trust = trust]
        [] v.k = "endorsement" -> [marked EXCEPT !.items = <<withTrust(v.items[1], v.items[1].trust, private)>>]
        [] v.k \in {"credence", "decision"} -> marked
        [] OTHER -> [marked EXCEPT !.trust = trust]

RECURSIVE withIngress(_, _)
withIngress(v, ingress) ==
  [v EXCEPT !.ingress = ingress,
            !.items = IF v.k \in {"struct", "array", "endorsement"} THEN [i \in DOMAIN v.items |-> withIngress(v.items[i], ingress)] ELSE @]

\* A value computed from others: their joined trust, and all they carry.
Derived(k, parts, trust) ==
  privateDerived([Value(k, trust) EXCEPT !.ingress = \E v \in Range1(parts) : v.ingress,
                                         !.origins = UNION {v.origins : v \in Range1(parts)}], parts)
\* A comparison or a count is a fact of the kernel's own.
Measured(k, parts) == [Derived(k, parts, "settled") EXCEPT !.origins = {}]

settledEndorsedValue(v, auth) ==
  IF v.k \in GateKinds \cup {"agentref", "memref", "taskref"} THEN v
  ELSE [v EXCEPT !.trust = "settled", !.auth = v.auth \/ auth]

eq(l, r) ==
  IF "enumval" \in {l.k, r.k} THEN {l.k, r.k} \subseteq {"enumval", "bool"} /\ l.name = r.name
  ELSE l.k = r.k /\ l.name = r.name /\ l.k \in {"text", "bool", "int", "float"}

-----------------------------------------------------------------------------
(***************************************************************************)
(* What a sink accepts: settled data, or a committed endorsement of it.    *)
(***************************************************************************)
Sunk(v) == IF v.k = "endorsement" THEN settledEndorsedValue(v.items[1], TRUE) ELSE v
sinkValue(v) ==
  /\ v.k = "endorsement" => v.narrowed
  /\ Sunk(v).k \notin GateKinds \cup {"memref"}
  /\ Sunk(v).trust = "settled"

-----------------------------------------------------------------------------
(***************************************************************************)
(* Scopes.  A frame of the heap has its variables, the types they were     *)
(* declared with, the dependence declared in it, its parent (0 for none)   *)
(* and its agent ("" for none); `inst` are the agents' instances.          *)
(***************************************************************************)
Frame(parent, agent) == [vars |-> <<>>, types |-> <<>>, deps |-> {}, parent |-> parent, agent |-> agent]
RECURSIVE get(_, _, _, _), declaredType(_, _, _), assign(_, _, _, _), allDepGroups(_, _), currentAgent(_, _)
get(name, s, heap, inst) ==
  LET f == heap[s]
      agent == IF f.agent \in DOMAIN inst THEN inst[f.agent] ELSE [fields |-> <<>>, mems |-> <<>>]
  IN  IF name \in DOMAIN f.vars THEN f.vars[name]
      ELSE IF f.parent # 0 THEN get(name, f.parent, heap, inst)
      ELSE IF name \in DOMAIN agent.fields THEN agent.fields[name]
      ELSE IF name \in DOMAIN agent.mems THEN [Value("memref", "settled") EXCEPT !.name = name] ELSE Undefined
declaredType(name, s, heap) ==
  IF name \in DOMAIN heap[s].vars THEN (IF name \in DOMAIN heap[s].types THEN heap[s].types[name] ELSE NoType)
  ELSE IF heap[s].parent # 0 THEN declaredType(name, heap[s].parent, heap) ELSE NoType
setVar(name, v, s, m) == [m EXCEPT !.heap[s].vars = (name :> v) @@ @]
assign(name, v, s, m) ==
  LET f == m.heap[s]
  IN  IF name \in DOMAIN f.vars THEN setVar(name, v, s, m)
      ELSE IF f.parent # 0 /\ get(name, f.parent, m.heap, m.inst).k # "undefined" THEN assign(name, v, f.parent, m)
      ELSE IF f.agent \in DOMAIN m.inst /\ name \in DOMAIN m.inst[f.agent].fields
      THEN [m EXCEPT !.inst[f.agent].fields[name] = v]
      ELSE setVar(name, v, s, m)
allDepGroups(s, heap) == heap[s].deps \cup IF heap[s].parent = 0 THEN {} ELSE allDepGroups(heap[s].parent, heap)
currentAgent(s, heap) ==
  IF heap[s].agent # "" THEN heap[s].agent ELSE IF heap[s].parent = 0 THEN "" ELSE currentAgent(heap[s].parent, heap)

-----------------------------------------------------------------------------
(* Fusion: the name a declaration can cover an operand by, "" for none; the rest is Fusion.tla. *)
CoverName(operand, i) ==
  IF operand.k = "arraylit" THEN (IF i \in DOMAIN operand.subs /\ operand.subs[i].k = "ident" THEN operand.subs[i].name ELSE "")
  ELSE IF operand.k = "ident" THEN operand.name ELSE ""
checkFusionCoverageRuntime(names, groups) ==
  \A i, j \in DOMAIN names : i < j => names[i] # "" /\ names[j] # "" /\ \E g \in groups : {names[i], names[j]} \subseteq g.names

-----------------------------------------------------------------------------
(* Subscriptions: an event matches its own type, Event, or Error when it is one. *)
ErrorTypes == {"Error", "Contradiction", "TypeMismatch", "RetryExhausted", "FailedPrincipalDecision",
               "MarginFloorViolation", "TaskScopeViolation", "AgentCrashed"}
isErrorSubtype(etype, d) ==
  \/ etype \in ErrorTypes
  \/ <<"event", etype>> \in DOMAIN d /\ d[<<"event", etype>>].super = "Error"
eventMatches(etype, sub, d) == sub \in {etype, "Event"} \/ (sub = "Error" /\ isErrorSubtype(etype, d))
=============================================================================
