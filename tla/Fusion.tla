------------------------------- MODULE Fusion -------------------------------
(***************************************************************************)
(* The fusion of credences (src/agape-ts/src/interp.ts): all, any and      *)
(* quorum make one credence of several.  The names a declaration can cover *)
(* the credences by are checked against the declarations in scope; the     *)
(* dependent ones fall into clusters, by a union-find over the dependent   *)
(* groups; a cluster counts as one unit, of its most cautious probability; *)
(* and the units are combined as independent ones.  A step is an iteration *)
(* of a loop of the code.  A probability is a whole number of Scale-ths:   *)
(* the rounding of floating point is left out.                             *)
(***************************************************************************)
EXTENDS Integers, Sequences, FiniteSets

CONSTANTS Idents,     \* the identifiers of the program
          Anonymous,  \* the name of a credence no declaration can name
          Scale,      \* a probability of one
          Fusions     \* the fusions of the instance

Group == [relation : {"independent", "dependent"}, names : SUBSET Idents]
FusionCall ==
  [op : {"all", "any", "quorum"}, k : Nat, names : Seq(Idents \cup {Anonymous}), probs : Seq(0..Scale), groups : Seq(Group)]

ASSUME FusionAssumption ==
  /\ Scale \in Nat /\ Scale >= 2
  /\ Anonymous \notin Idents
  /\ Fusions \subseteq FusionCall
  /\ \A f \in Fusions : Len(f.names) = Len(f.probs)

VARIABLES fusion,    \* what is fused
          stage,     \* where the fusion is; "TypeError" when it is refused
          parent,    \* the union-find's forest
          group,     \* the dependence group at hand
          unit,      \* the credence, or the cluster, at hand
          clusters,  \* the clusters found so far (byRoot)
          dp,        \* dp[j]: the chance that exactly j units commit
          odds,      \* the weights for and against, of an all or an any
          fused      \* the fused probability, a fraction
fusionVars == <<fusion, stage, parent, group, unit, clusters, dp, odds, fused>>

-----------------------------------------------------------------------------
Credences(f) == DOMAIN f.names
CoversEveryPair(names, groups) ==
  \A i, j \in DOMAIN names :
    i < j => names[i] # Anonymous /\ names[j] # Anonymous /\ \E g \in groups : {names[i], names[j]} \subseteq g.names
Members(f, g) == {i \in Credences(f) : f.names[i] # Anonymous /\ f.names[i] \in g.names}
Least(S) == CHOOSE i \in S : \A j \in S : i <= j
Greatest(S) == CHOOSE i \in S : \A j \in S : j <= i

\* find(x) hangs all it comes by directly below the root.
RootsOf(forest) ==
  LET root[x \in DOMAIN forest] == IF forest[x] = x THEN x ELSE root[forest[x]] IN root
Path(x, forest) ==
  {y \in DOMAIN forest : \A S \in SUBSET DOMAIN forest : x \in S /\ (\A z \in S : forest[z] \in S) => y \in S}
Find(x, forest) == [y \in DOMAIN forest |-> IF y \in Path(x, forest) THEN RootsOf(forest)[x] ELSE forest[y]]
UnionNodes(a, b, forest) == [forest EXCEPT ![a] = b] \* mutant
Union(a, b, forest) ==
  LET found == Find(b, Find(a, forest)) IN [found EXCEPT ![RootsOf(forest)[a]] = RootsOf(forest)[b]]

Joins(f, g, k) == g.relation = "dependent" /\ k \in Members(f, g) /\ k # Least(Members(f, g))

\* clusterProbs: a cluster of an any is as sure as its surest, of an all or a
\* quorum as its least sure.
Frechet(f, members) ==
  LET probs == {f.probs[i] : i \in members} IN IF f.op = "any" THEN Greatest(probs) ELSE Least(probs)

Power(n) == LET f[i \in 0..n] == IF i = 0 THEN 1 ELSE Scale * f[i - 1] IN f[n]

\* One more unit, of probability p, after i of them (poissonBinomialTail).
Shifted(w, i, p) ==
  [j \in DOMAIN w |-> (IF j <= i THEN w[j] * (Scale - p) ELSE 0) + (IF j \in 1..(i + 1) THEN w[j - 1] * p ELSE 0)]
SumFrom(w, k, n) ==
  LET sum[j \in 0..(n + 1)] == IF j = 0 THEN 0 ELSE sum[j - 1] + (IF j - 1 >= k THEN w[j - 1] ELSE 0)
  IN  sum[n + 1]

\* The code keeps a probability this far from 0 and from 1 before it takes its log-odds.
Clamped(p) == IF p < 1 THEN 1 ELSE IF p > Scale - 1 THEN Scale - 1 ELSE p

-----------------------------------------------------------------------------
FusionInit ==
  /\ fusion \in Fusions
  /\ stage = "cover"
  /\ parent = [i \in Credences(fusion) |-> i]
  /\ group = 1 /\ unit = 1
  /\ clusters = <<>>
  /\ dp = <<>> /\ odds = [yes |-> 1, no |-> 1] /\ fused = [num |-> 0, den |-> 1]

Cover ==
  /\ stage = "cover"
  /\ stage' = IF CoversEveryPair(fusion.names, {fusion.groups[i] : i \in DOMAIN fusion.groups})
              THEN "union" ELSE "TypeError"
  /\ UNCHANGED <<fusion, parent, group, unit, clusters, dp, odds, fused>>

\* Every member of a dependent group but the first is united with the first.
Unite ==
  /\ stage = "union" /\ group <= Len(fusion.groups)
  /\ LET g == fusion.groups[group]
     IN  parent' = IF Joins(fusion, g, unit) THEN Union(Least(Members(fusion, g)), unit, parent) ELSE parent
  /\ IF unit < Len(fusion.names) THEN unit' = unit + 1 /\ group' = group
     ELSE unit' = 1 /\ group' = group + 1
  /\ UNCHANGED <<fusion, stage, clusters, dp, odds, fused>>

United ==
  /\ stage = "union" /\ group > Len(fusion.groups)
  /\ stage' = "collect" /\ unit' = 1
  /\ UNCHANGED <<fusion, parent, group, clusters, dp, odds, fused>>

Collect ==
  /\ stage = "collect" /\ unit <= Len(fusion.names)
  /\ LET root == RootsOf(parent)[unit]
         of == {c \in DOMAIN clusters : clusters[c].root = root}
     IN  clusters' = IF of = {} THEN Append(clusters, [root |-> root, members |-> {unit}])
                     ELSE [c \in DOMAIN clusters |->
                             IF c \in of THEN [clusters[c] EXCEPT !.members = @ \cup {unit}] ELSE clusters[c]]
  /\ parent' = Find(unit, parent)
  /\ unit' = unit + 1
  /\ UNCHANGED <<fusion, stage, group, dp, odds, fused>>

\* dp starts as no unit, none of which commits.
Collected ==
  /\ stage = "collect" /\ unit > Len(fusion.names)
  /\ stage' = "combine" /\ unit' = 1
  /\ dp' = [j \in 0..Len(clusters) |-> IF j = 0 THEN 1 ELSE 0]
  /\ UNCHANGED <<fusion, parent, group, clusters, odds, fused>>

Probability(c) == Frechet(fusion, clusters[c].members)

AddUnit ==
  /\ stage = "combine" /\ unit <= Len(clusters)
  /\ LET p == Probability(unit)
         w == Clamped(p)
     IN  IF fusion.op = "quorum" THEN dp' = Shifted(dp, unit - 1, p) /\ odds' = odds
         ELSE odds' = [yes |-> odds.yes * w, no |-> odds.no * (Scale - w)] /\ dp' = dp
  /\ unit' = unit + 1
  /\ UNCHANGED <<fusion, stage, parent, group, clusters, fused>>

\* A sum of log-odds is a product of odds; no unit and a single one are left as
\* they are (logOddsCombine).
Fused ==
  /\ stage = "combine" /\ unit > Len(clusters)
  /\ fused' =
       IF fusion.op = "quorum" THEN [num |-> SumFrom(dp, fusion.k, Len(clusters)), den |-> Power(Len(clusters))]
       ELSE CASE Len(clusters) = 0 -> [num |-> 0, den |-> 1]
              [] Len(clusters) = 1 -> [num |-> Probability(1), den |-> Scale]
              [] OTHER -> [num |-> odds.yes, den |-> odds.yes + odds.no]
  /\ stage' = "done"
  /\ UNCHANGED <<fusion, parent, group, unit, clusters, dp, odds>>

FusionNext == Cover \/ Unite \/ United \/ Collect \/ Collected \/ AddUnit \/ Fused
FusionSpec == FusionInit /\ [][FusionNext]_fusionVars

-----------------------------------------------------------------------------
(***************************************************************************)
(* What a fusion must come to.  Two credences hang together when no set    *)
(* that keeps every dependent group whole, or leaves it out whole, tells   *)
(* them apart.                                                             *)
(***************************************************************************)
DependentGroups(f) == {f.groups[i] : i \in {j \in DOMAIN f.groups : f.groups[j].relation = "dependent"}}
KeepsWhole(f, S) == \A g \in DependentGroups(f) : Members(f, g) \subseteq S \/ Members(f, g) \cap S = {}
Component(f, i) == {j \in Credences(f) : \A S \in SUBSET Credences(f) : KeepsWhole(f, S) /\ i \in S => j \in S}
Components(f) == {Component(f, i) : i \in Credences(f)}

\* The chance that at least k of the first i units commit, by what the last of
\* them does.
AtLeast(p, i, k) ==
  LET f[n \in 0..i] == IF n = 0 THEN [l \in Int |-> IF l <= 0 THEN 1 ELSE 0]
                       ELSE [l \in Int |-> p[n] * f[n - 1][l - 1] + (Scale - p[n]) * f[n - 1][l]]
  IN  f[i][k]

\* The clusters are the connected components of the dependence the program
\* declared, each of them once, whatever the order of the groups and however the forest was
\* compressed on the way.
ClustersAreComponents ==
  stage \in {"combine", "done"} =>
    /\ {clusters[c].members : c \in DOMAIN clusters} = Components(fusion)
    /\ \A c, d \in DOMAIN clusters : c # d => clusters[c].members # clusters[d].members

\* A quorum's probability is the chance that at least k of its units commit,
\* and every fused probability is one.
QuorumIsExact ==
  stage = "done" =>
    /\ fused.den > 0 /\ fused.num \in 0..fused.den
    /\ fusion.op = "quorum" =>
         fused.num = AtLeast([c \in 1..Len(clusters) |-> Probability(c)], Len(clusters), fusion.k)

\* Dependence counts once, in full, and no judgment counts for more than it says
\* (clusterByDependence, poissonBinomialTail, logOddsCombine).
FusionIsExact == ClustersAreComponents /\ QuorumIsExact
=============================================================================
