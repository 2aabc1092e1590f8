---------------------------- MODULE ModuleLinker ----------------------------
(***************************************************************************)
(* The module linker of the checker (src/agape-ts/src/check.ts): the main  *)
(* program's imports are resolved against its companion modules, and every *)
(* name it takes from another module must be one that module exports.  A   *)
(* declaration is known by its origin <<module, name>>; a name in source   *)
(* is the sequence of its dotted segments.                                 *)
(***************************************************************************)
EXTENDS Syntax, SequencesExt, FiniteSetsExt, Functions, TLC

RootModule == "<root>"

\* A companion is loaded with the name the harness gave it ("" for none), its
\* module header ("" for none), its own names with their pub flag, its imports.
LinkedModule(own, imports) == [own |-> own, imports |-> imports]
KeyOf(m) == IF m.given # "" THEN m.given ELSE IF m.header # "" THEN m.header ELSE RootModule
\* A companion is source: the parser of the core language takes no header and no import.
ParsesAsCore(m) == m.header = "" /\ m.imports = <<>>
buildModuleTable(modules) ==
  FoldLeft(LAMBDA table, m : (KeyOf(m) :> LinkedModule(m.own, m.imports)) @@ table, <<>>, modules)

\* The imports are acyclic, those of modules the main program does not reach too.
ImportsOf(name, mainImports, table) ==
  {imp.module : imp \in Range1(IF name = RootModule THEN mainImports
                               ELSE IF name \in DOMAIN table THEN table[name].imports ELSE <<>>)}
assertAcyclic(mainImports, table) ==
  LET nodes == {RootModule} \cup DOMAIN table \cup
               UNION {ImportsOf(m, mainImports, table) : m \in {RootModule} \cup DOMAIN table}
  IN  ~\E cycle \in SUBSET nodes : /\ cycle # {}
                                   /\ \A m \in cycle : ImportsOf(m, mainImports, table) \cap cycle # {}

-----------------------------------------------------------------------------
(***************************************************************************)
(* The public surface of a module: its pub declarations, the names it      *)
(* republishes one by one, and the whole prefixes it republishes.  One     *)
(* `seen` set is shared by the whole descent.                              *)
(***************************************************************************)
LocalPrefix(imp) == IF imp.alias = "" THEN imp.module ELSE imp.alias
OwnNames(name, table) == IF name \in DOMAIN table THEN DOMAIN table[name].own ELSE {}

\* Existence first, visibility next.
Importable(name, n, surface, table) ==
  IF n \in DOMAIN surface.members THEN "none"
  ELSE IF n \in OwnNames(name, table) THEN "VisibilityError" ELSE "ModuleError"
FirstProblem(imp, surface, table) ==
  LET problems == SelectSeq([i \in DOMAIN imp.names |-> Importable(imp.module, imp.names[i], surface, table)],
                            LAMBDA p : p # "none")
  IN  IF problems = <<>> THEN "none" ELSE problems[1]

RECURSIVE publicSurfaceOf(_, _, _)
publicSurfaceOf(name, table, seen) ==
  IF name \notin DOMAIN table \/ name \in seen
  THEN [members |-> <<>>, prefixes |-> <<>>, seen |-> seen, error |-> "none"]
  ELSE LET own == table[name].own
           Republish(acc, imp) ==
             IF acc.error # "none" \/ ~imp.pub THEN acc
             ELSE LET target == publicSurfaceOf(imp.module, table, acc.seen)
                      problem == IF target.error # "none" THEN target.error
                                 ELSE FirstProblem(imp, target, table)
                      taken == {n \in Range1(imp.names) : n \in DOMAIN target.members}
                  IN  [members |-> Restrict(target.members, taken) @@ acc.members,
                       prefixes |-> IF imp.names = <<>> THEN (LocalPrefix(imp) :> imp.module) @@ acc.prefixes
                                    ELSE acc.prefixes,
                       seen |-> target.seen, error |-> problem]
       IN  FoldLeft(Republish,
                    [members |-> [n \in {m \in DOMAIN own : own[m]} |-> <<name, n>>],
                     prefixes |-> <<>>, seen |-> seen \cup {name}, error |-> "none"],
                    table[name].imports)
Surface(name, table) == publicSurfaceOf(name, table, {})

\* Where a dotted name leads: through republished prefixes to a member.
RECURSIVE Descend(_, _, _)
Descend(module, path, table) ==
  IF Len(path) = 0 THEN module
  ELSE LET next == Surface(module, table).prefixes
       IN  IF path[1] \in DOMAIN next THEN Descend(next[path[1]], Tail(path), table) ELSE "none"
CanName(surface, own, n) ==
  IF n \in DOMAIN surface.members THEN "ok" ELSE IF n \in own THEN "VisibilityError" ELSE "ModuleError"
NamesOwn(surface, own, n) == IF n \in DOMAIN surface.members \cup own THEN "ok" ELSE "ModuleError" \* mutant
Verdict(surface, own, n) == CanName(surface, own, n)
resolveQualified(path, prefixes, table) ==
  LET module == Descend(prefixes[path[1]], SubSeq(path, 2, Len(path) - 1), table)
      member == path[Len(path)]
      surface == Surface(module, table)
  IN  IF module \notin DOMAIN table THEN [why |-> "ModuleError", origin |-> <<>>]
      ELSE [why |-> Verdict(surface, OwnNames(module, table), member),
            origin |-> IF member \in DOMAIN surface.members THEN surface.members[member] ELSE <<module, member>>]

-----------------------------------------------------------------------------
(***************************************************************************)
(* What the main program names: identifiers used bare, and dotted names.   *)
(***************************************************************************)
LinkKinds == {"call", "member", "binary", "unary", "structlit", "send", "recall", "decide", "endorse",
              "fstring", "agg", "quorum", "pipe", "arraylit"}
LinkStmtKinds == {"var", "assign", "say", "return", "exprstmt", "emit", "perform", "spawn", "if",
                  "dispatch", "memdecl"}
Mentioning == {"emit", "perform", "when"}
Reached(program) == UNION {Statements(b, BlockKinds) : b \in Bodies(program)} \cup
                    UNION {Range1(d.whens) : d \in Range1(program.decls)}

collectBareUses(program) ==
  LET stmts == Reached(program)
      names == {s.name : s \in {t \in stmts : t.k \in Mentioning}} \cup
               UNION {TypeNames(s.type) : s \in {t \in stmts : t.k \in {"var", "spawn"}}} \cup
               {e.name : e \in {x \in Expressions(stmts, LinkStmtKinds, LinkKinds) : x.k \in {"ident", "structlit"}}}
  IN  names \ DOMAIN Segments

\* The dotted path of an identifier-rooted chain of members; <<>> for any other.
RECURSIVE dottedName(_)
dottedName(e) ==
  IF e.k = "ident" THEN <<e.name>>
  ELSE IF e.k # "member" THEN <<>>
  ELSE LET outer == dottedName(e.subs[1]) IN IF outer = <<>> THEN <<>> ELSE Append(outer, e.name)
RECURSIVE PathsIn(_)
PathsIn(e) ==
  IF e.k = "member" /\ dottedName(e) # <<>> THEN {dottedName(e)}
  ELSE (IF e.k = "structlit" THEN {SegmentsOf(e.name)} ELSE {}) \cup
       IF e.k \in LinkKinds THEN UNION {PathsIn(e.subs[i]) : i \in DOMAIN e.subs} ELSE {}
DeclTypes(d) == {f.type : f \in Range1(d.fields) \cup Range1(d.params)} \cup {d.ret}
collectQualifiedRefs(program) ==
  LET stmts == Reached(program)
      types == {s.type : s \in stmts} \cup UNION {DeclTypes(d) : d \in Range1(program.decls)}
      names == {s.name : s \in {t \in stmts : t.k \in Mentioning}} \cup UNION {TypeNames(t) : t \in types} \cup
               UNION {{g[2] : g \in d.grants} \cup {d.extends} : d \in Range1(program.decls)}
      paths == {SegmentsOf(n) : n \in names} \cup
               UNION {UNION {PathsIn(e) : e \in Range1(s.exprs)} : s \in {t \in stmts : t.k \in LinkStmtKinds}}
  IN  {p \in paths : Len(p) >= 2}

-----------------------------------------------------------------------------
(***************************************************************************)
(* Linking, in the order of the code: the program's own republished        *)
(* imports, cycles, each import header, ambiguous bare names, dotted       *)
(* names.  `decls` relates a path to the declaration registered for it.    *)
(***************************************************************************)
Failed(why) == [error |-> why, decls |-> <<>>, bare |-> <<>>]

AllOwn(module, table) == [p \in {<<module, n>> : n \in OwnNames(module, table)} |-> p]
Nested(prefix, sub, target, table) ==
  [p \in {<<prefix, sub, n>> : n \in OwnNames(target, table)} |-> <<target, p[3]>>] @@ AllOwn(target, table)
Under(prefix, surface) ==
  [p \in {<<prefix, surface.members[n][2]>> : n \in DOMAIN surface.members} |->
    CHOOSE o \in Range(surface.members) : o[2] = p[2]]
Selective(imp, surface) ==
  [p \in {surface.members[n] : n \in Range1(imp.names)} |-> p]
Whole(imp, surface, table) ==
  Under(LocalPrefix(imp), surface) @@
  FoldFunctionOnSet(LAMBDA f, g : f @@ g, <<>>,
    [sub \in DOMAIN surface.prefixes |-> Nested(LocalPrefix(imp), sub, surface.prefixes[sub], table)],
    DOMAIN surface.prefixes) @@
  AllOwn(imp.module, table)

ImportProblem(imp, table) ==
  IF imp.module \notin DOMAIN table THEN "ModuleError"
  ELSE LET surface == Surface(imp.module, table)
       IN  IF surface.error # "none" THEN surface.error ELSE FirstProblem(imp, surface, table)
Registered(imp, table) ==
  LET surface == Surface(imp.module, table)
  IN  IF imp.names # <<>> THEN Selective(imp, surface) ELSE Whole(imp, surface, table)
BoundBare(imp, table) == Restrict(Surface(imp.module, table).members, Range1(imp.names))

\* A bare name bound from two modules may be imported, but not used.
Ambiguous(imports, uses) ==
  \E i, j \in DOMAIN imports : /\ imports[i].module # imports[j].module
                              /\ Range1(imports[i].names) \cap Range1(imports[j].names) \cap uses # {}

MainNames(program) ==
  [n \in {d.name : d \in {x \in Range1(program.decls) : x.k \notin {"instruction", "conformal"}}} |->
    \E d \in Range1(program.decls) : d.name = n /\ d.pub]
MainTable(program, header, modules) ==
  LET name == IF header = "" THEN RootModule ELSE header
      main == IF \E imp \in Range1(program.imports) : imp.pub
              THEN name :> LinkedModule(MainNames(program), program.imports) ELSE <<>>
  IN  main @@ buildModuleTable(modules)
PrefixBindings(imports) ==
  FoldLeft(LAMBDA f, imp : (LocalPrefix(imp) :> imp.module) @@ f, <<>>,
           SelectSeq(imports, LAMBDA imp : imp.names = <<>>))

linkModules(program, header, modules) ==
  LET imports == program.imports
      table == MainTable(program, header, modules)
      republished == IF \E imp \in Range1(imports) : imp.pub
                     THEN Surface(IF header = "" THEN RootModule ELSE header, table).error ELSE "none"
      problems == SelectSeq([i \in DOMAIN imports |-> ImportProblem(imports[i], table)], LAMBDA p : p # "none")
      prefixes == PrefixBindings(imports)
      refs == {p \in collectQualifiedRefs(program) : p[1] \in DOMAIN prefixes}
      resolved == [p \in refs |-> resolveQualified(p, prefixes, table)]
      bad == {p \in refs : resolved[p].why # "ok"}
  IN  IF \E m \in Range1(modules) : ~ParsesAsCore(m) THEN Failed("ParseError")
      ELSE IF republished # "none" THEN Failed(republished)
      ELSE IF ~assertAcyclic(imports, table) THEN Failed("ModuleError")
      ELSE IF problems # <<>> THEN Failed(problems[1])
      ELSE IF Ambiguous(imports, collectBareUses(program)) THEN Failed("ModuleError")
      ELSE IF bad # {} THEN Failed(resolved[CHOOSE p \in bad : TRUE].why)
      ELSE [error |-> "none",
            decls |-> [p \in refs |-> resolved[p].origin] @@
                      FoldLeft(LAMBDA f, imp : Registered(imp, table) @@ f, <<>>, imports),
            bare |-> FoldLeft(LAMBDA f, imp : BoundBare(imp, table) @@ f, <<>>, imports)]

-----------------------------------------------------------------------------
(***************************************************************************)
(* What a module exports, said without the descent: the least relation     *)
(* between a module, a name and the declaration behind it.                 *)
(***************************************************************************)
OwnExports(table) == UNION {{<<m, n, <<m, n>> >> : n \in {x \in DOMAIN table[m].own : table[m].own[x]}} : m \in DOMAIN table}
Republished(rel, table) ==
  UNION {{<<m, e[2], e[3]>> : e \in {x \in rel : \E imp \in Range1(table[m].imports) :
            imp.pub /\ imp.module = x[1] /\ x[2] \in Range1(imp.names)}} : m \in DOMAIN table}
RECURSIVE Closed(_, _)
Closed(rel, table) ==
  LET next == rel \cup Republished(rel, table) IN IF next = rel THEN rel ELSE Closed(next, table)
Exports(table) == Closed(OwnExports(table), table)
=============================================================================
