---------------------------- MODULE Fusion_proofs ----------------------------
(***************************************************************************)
(* Theorems about Fusion, for any credences, names, probabilities and      *)
(* dependence declarations.                                                *)
(***************************************************************************)
EXTENDS Fusion, NaturalsInduction, WellFoundedInduction, TLAPS

-----------------------------------------------------------------------------
(* Numbers, and what a recursion over them defines.                          *)

LEMMA LeastNat ==
  ASSUME NEW S \in SUBSET Nat, S # {}
  PROVE  \E n \in S : \A m \in S : n <= m
<1>1. PICK n \in S : \A m \in S : ~(<<m, n>> \in OpToRel(<, Nat))
  BY NatLessThanWellFounded, WFMin
<1>2. \A m \in S : ~(m < n) BY <1>1, Zenon DEF OpToRel
<1> QED BY <1>2

\* No number is the first to be an exception.
LEMMA NoException ==
  ASSUME NEW S \in SUBSET Nat, \A n \in S : n # 0 /\ n - 1 \in S
  PROVE  S = {}
<1>1. SUFFICES ASSUME S # {} PROVE FALSE OBVIOUS
<1>2. PICK n \in S : \A m \in S : n <= m BY <1>1, LeastNat
<1>3. n - 1 \in S BY <1>2
<1>4. n <= n - 1 BY <1>2, <1>3
<1> QED BY <1>2, <1>4

LEMMA LeastIs ==
  ASSUME NEW S \in SUBSET Nat, S # {}
  PROVE  Least(S) \in S /\ \A n \in S : Least(S) <= n
BY LeastNat DEF Least

LEMMA GreatestIs ==
  ASSUME NEW n \in Nat, NEW S \in SUBSET (0..n), S # {}
  PROVE  Greatest(S) \in S /\ \A m \in S : m <= Greatest(S)
<1> DEFINE Left == {d \in 0..n : (n - d) \in S}
<1>1. PICK s \in S : TRUE OBVIOUS
<1>2. s \in 0..n /\ (n - s) \in 0..n /\ n - (n - s) = s OBVIOUS
<1>3. Left # {} /\ Left \in SUBSET Nat BY <1>2
<1>4. PICK d \in Left : \A e \in Left : d <= e
  <2> HIDE DEF Left
  <2> QED BY <1>3, LeastNat
<1>5. d \in 0..n /\ (n - d) \in S BY <1>4
<1>6. ASSUME NEW u \in S PROVE u <= n - d
  <2>1. u \in 0..n /\ (n - u) \in 0..n /\ n - (n - u) = u OBVIOUS
  <2>2. (n - u) \in Left BY <2>1
  <2>3. d <= n - u BY <1>4, <2>2
  <2> QED BY <1>5, <2>1, <2>3
<1> QED BY <1>5, <1>6 DEF Greatest

Step(h, f, n) == f[n + 1] = h[<<n + 1, f[n]>>]

\* The first values, up to n, of what s0 and h define.
Starts(S, s0, h, n, f) == f \in [0..n -> S] /\ f[0] = s0 /\ \A i \in 0..(n - 1) : Step(h, f, i)

LEMMA Agree ==
  ASSUME NEW n \in Nat, NEW f, NEW g, f[0] = g[0],
         \A i \in 0..(n - 1) : f[i] = g[i] => f[i + 1] = g[i + 1]
  PROVE  \A i \in 0..n : f[i] = g[i]
<1> DEFINE Bad == {i \in Nat : i <= n /\ f[i] # g[i]}
<1>1. ASSUME NEW i \in Bad PROVE i # 0 /\ i - 1 \in Bad
  <2>1. i \in Nat /\ i <= n /\ f[i] # g[i] OBVIOUS
  <2>2. i # 0 BY <2>1
  <2>3. i - 1 \in 0..(n - 1) /\ (i - 1) + 1 = i BY <2>1, <2>2
  <2>4. f[i - 1] # g[i - 1]
    <3>1. f[i - 1] = g[i - 1] => f[(i - 1) + 1] = g[(i - 1) + 1] BY <2>3
    <3> QED BY <2>1, <2>3, <3>1
  <2> QED BY <2>1, <2>2, <2>3, <2>4
<1>2. Bad = {}
  <2>1. Bad \in SUBSET Nat OBVIOUS
  <2> HIDE DEF Bad
  <2> QED BY <1>1, <2>1, NoException
<1> QED BY <1>2

Together(f, g, n) == \A i \in 0..(n - 1) : f[i] = g[i] => f[i + 1] = g[i + 1]

LEMMA AgreeAtTheEnd ==
  ASSUME NEW n \in Nat, NEW f, NEW g, f[0] = g[0], Together(f, g, n)
  PROVE  f[n] = g[n]
<1>1. \A i \in 0..n : f[i] = g[i] BY Agree DEF Together
<1> QED BY <1>1

\* A recursion over an interval defines a function.
LEMMA StartsExist ==
  ASSUME NEW S, NEW s0 \in S, NEW D, NEW h \in [D \X S -> S], NEW m \in Nat, 1..m \subseteq D
  PROVE  \E f : Starts(S, s0, h, m, f)
<1> DEFINE Bad == {n \in Nat : n <= m /\ ~\E f : Starts(S, s0, h, n, f)}
<1>1. ASSUME NEW n \in Bad PROVE n # 0 /\ n - 1 \in Bad
  <2>1. n \in Nat /\ n <= m OBVIOUS
  <2>2. ASSUME n = 0 PROVE FALSE
    <3>1. Starts(S, s0, h, 0, [i \in 0..0 |-> s0]) BY DEF Starts
    <3> QED BY <2>2, <3>1
  <2>3. n - 1 \in Nat /\ n - 1 <= m /\ n \in 1..m BY <2>1, <2>2
  <2>4. ASSUME NEW f, Starts(S, s0, h, n - 1, f) PROVE FALSE
    <3>1. PICK v : v = h[<<n, f[n - 1]>>] OBVIOUS
    <3>2. f \in [0..(n - 1) -> S] BY <2>4 DEF Starts
    <3>3. f[n - 1] \in S BY <2>3, <3>2
    <3>4. v \in S BY <2>3, <3>1, <3>3
    <3>5. PICK g : g = [i \in 0..n |-> IF i = n THEN v ELSE f[i]] OBVIOUS
    <3>6. g \in [0..n -> S]
      <4>1. \A i \in 0..n : i # n => i \in 0..(n - 1) BY <2>1
      <4> QED BY <3>2, <3>4, <3>5, <4>1
    <3>7. g[0] = s0 BY <2>1, <2>2, <2>4, <3>5 DEF Starts
    <3>8. ASSUME NEW i \in 0..(n - 1) PROVE Step(h, g, i)
      <4>1. i \in 0..n /\ i # n /\ i + 1 \in 0..n /\ g[i] = f[i] BY <2>1, <3>5
      <4>2. CASE i = n - 1
        <5>1. i + 1 = n BY <2>1, <4>2
        <5>2. g[i + 1] = v BY <3>5, <4>1, <5>1
        <5> QED BY <3>1, <4>1, <4>2, <5>1, <5>2 DEF Step
      <4>3. CASE i # n - 1
        <5>1. i \in 0..((n - 1) - 1) /\ i + 1 # n BY <2>1, <4>3
        <5>2. f[i + 1] = h[<<i + 1, f[i]>>] BY <2>4, <5>1 DEF Starts, Step
        <5>3. g[i + 1] = f[i + 1] BY <3>5, <4>1, <5>1
        <5> QED BY <4>1, <5>2, <5>3 DEF Step
      <4> QED BY <4>2, <4>3
    <3>9. Starts(S, s0, h, n, g) BY <3>6, <3>7, <3>8 DEF Starts
    <3> QED BY <3>9
  <2> QED BY <2>2, <2>3, <2>4
<1>2. Bad = {}
  <2>1. Bad \in SUBSET Nat OBVIOUS
  <2> HIDE DEF Bad
  <2> QED BY <1>1, <2>1, NoException
<1> QED BY <1>2

-----------------------------------------------------------------------------
(* Forests.  rank falls on the way to the root.                              *)

HangsAt(forest, root, rank, x) ==
  /\ forest[root[x]] = root[x]
  /\ forest[x] = x => root[x] = x
  /\ forest[x] # x => root[forest[x]] = root[x] /\ rank[forest[x]] < rank[x]
  /\ root[x] # x => rank[root[x]] < rank[x]

Hangs(D, forest, root, rank) ==
  /\ forest \in [D -> D] /\ root \in [D -> D] /\ rank \in [D -> Nat]
  /\ \A x \in D : HangsAt(forest, root, rank, x)

RootEquation(forest, root) == [x \in DOMAIN forest |-> IF forest[x] = x THEN x ELSE root[forest[x]]]

LEMMA RootsOfIs ==
  ASSUME NEW forest
  PROVE  RootsOf(forest) = CHOOSE root : root = RootEquation(forest, root)
BY DEF RootsOf, RootEquation

\* What the recursion of find defines is the function that hangs.
LEMMA RootsAre ==
  ASSUME NEW D, NEW forest, NEW root, NEW rank, Hangs(D, forest, root, rank)
  PROVE  RootsOf(forest) = root
<1>1. forest \in [D -> D] /\ root \in [D -> D] /\ rank \in [D -> Nat] /\ DOMAIN forest = D BY DEF Hangs
<1>2. root = RootEquation(forest, root)
  <2>1. \A x \in D : root[x] = IF forest[x] = x THEN x ELSE root[forest[x]] BY DEF Hangs, HangsAt
  <2> QED BY <1>1, <2>1 DEF RootEquation
<1>3. PICK f : f = RootsOf(forest) OBVIOUS
<1>4. f = RootEquation(forest, f) BY <1>2, <1>3, RootsOfIs
<1>5. \A x \in D : f[x] = IF forest[x] = x THEN x ELSE f[forest[x]] BY <1>1, <1>4 DEF RootEquation
<1> DEFINE Bad == {n \in Nat : \E x \in D : rank[x] = n /\ f[x] # root[x]}
<1>6. Bad = {}
  <2>1. SUFFICES ASSUME Bad # {} PROVE FALSE OBVIOUS
  <2>2. PICK n \in Bad : \A m \in Bad : n <= m
    <3>1. Bad \in SUBSET Nat OBVIOUS
    <3> HIDE DEF Bad
    <3> QED BY <2>1, <3>1, LeastNat
  <2>3. PICK x \in D : rank[x] = n /\ f[x] # root[x] BY <2>2
  <2>4. forest[x] # x /\ f[x] = f[forest[x]] BY <1>5, <2>3 DEF Hangs, HangsAt
  <2>5. root[x] = root[forest[x]] /\ rank[forest[x]] < rank[x] BY <2>3, <2>4 DEF Hangs, HangsAt
  <2>6. forest[x] \in D /\ rank[forest[x]] \in Nat BY <1>1, <2>3
  <2>7. rank[forest[x]] \in Bad BY <2>3, <2>4, <2>5, <2>6
  <2> QED BY <2>2, <2>3, <2>5, <2>6, <2>7
<1>7. \A x \in D : f[x] = root[x] BY <1>1, <1>6
<1>8. f = [x \in D |-> f[x]] BY <1>1, <1>4 DEF RootEquation
<1>9. root = [x \in D |-> root[x]] BY <1>1
<1> QED BY <1>3, <1>7, <1>8, <1>9

\* Whoever is on the way of x has the root of x.
LEMMA PathsEndTogether ==
  ASSUME NEW D, NEW forest, NEW root, NEW rank, Hangs(D, forest, root, rank),
         NEW x \in D, NEW y \in Path(x, forest)
  PROVE  y \in D /\ root[y] = root[x]
<1> DEFINE S == {z \in D : root[z] = root[x]}
<1>1. forest \in [D -> D] /\ DOMAIN forest = D BY DEF Hangs
<1>2. ASSUME NEW z \in S PROVE forest[z] \in S
  <2>1. z \in D /\ forest[z] \in D BY <1>1
  <2>2. root[forest[z]] = root[z] BY <2>1 DEF Hangs, HangsAt
  <2> QED BY <2>1, <2>2
<1>3. S \in SUBSET DOMAIN forest /\ x \in S BY <1>1
<1> HIDE DEF S
<1>4. y \in S /\ y \in D BY <1>1, <1>2, <1>3 DEF Path
<1> QED BY <1>4 DEF S

\* find changes no root.
LEMMA FindKeeps ==
  ASSUME NEW D, NEW forest, NEW root, NEW rank, Hangs(D, forest, root, rank), NEW x \in D
  PROVE  Hangs(D, Find(x, forest), root, rank)
<1>1. /\ forest \in [D -> D] /\ root \in [D -> D] /\ rank \in [D -> Nat] /\ DOMAIN forest = D
      /\ RootsOf(forest) = root
  BY RootsAre DEF Hangs
<1>2. PICK g : g = Find(x, forest) OBVIOUS
<1>3. g = [y \in D |-> IF y \in Path(x, forest) THEN root[x] ELSE forest[y]] BY <1>1, <1>2 DEF Find
<1>4. g \in [D -> D] BY <1>1, <1>3
<1>5. \A y \in D : forest[root[y]] = root[y] /\ root[root[y]] = root[y]
  BY <1>1 DEF Hangs, HangsAt
<1>6. ASSUME NEW y \in D PROVE HangsAt(g, root, rank, y)
  <2>0. HangsAt(forest, root, rank, y) BY DEF Hangs
  <2>1. root[y] \in D BY <1>1
  <2>2. g[root[y]] = root[y]
    <3>1. CASE root[y] \in Path(x, forest)
      <4>1. root[root[y]] = root[x] BY <3>1, PathsEndTogether
      <4> QED BY <1>3, <1>5, <2>1, <3>1, <4>1
    <3>2. CASE root[y] \notin Path(x, forest) BY <1>3, <1>5, <2>1, <3>2
    <3> QED BY <3>1, <3>2
  <2>3. CASE y \in Path(x, forest)
    <3>1. root[y] = root[x] /\ g[y] = root[y] BY <1>3, <2>3, PathsEndTogether
    <3> QED BY <1>5, <2>0, <2>2, <3>1 DEF HangsAt
  <2>4. CASE y \notin Path(x, forest)
    <3>1. g[y] = forest[y] BY <1>3, <2>4
    <3> QED BY <2>0, <2>2, <3>1 DEF HangsAt
  <2> QED BY <2>3, <2>4
<1> QED BY <1>1, <1>2, <1>4, <1>6 DEF Hangs

JoinedRoots(root, a, b) == [x \in DOMAIN root |-> IF root[x] = root[a] THEN root[b] ELSE root[x]]
JoinedRanks(root, rank, a, b) ==
  [x \in DOMAIN root |-> IF root[x] = root[a] /\ root[a] # root[b] THEN rank[x] + rank[root[b]] + 1 ELSE rank[x]]

\* Hanging one root below another joins two trees.
LEMMA HangBelow ==
  ASSUME NEW D, NEW forest, NEW root, NEW rank, Hangs(D, forest, root, rank), NEW a \in D, NEW b \in D
  PROVE  Hangs(D, [forest EXCEPT ![root[a]] = root[b]], JoinedRoots(root, a, b), JoinedRanks(root, rank, a, b))
<1>1. /\ forest \in [D -> D] /\ root \in [D -> D] /\ rank \in [D -> Nat]
      /\ DOMAIN forest = D /\ DOMAIN root = D BY DEF Hangs
<1>2. PICK ra, rb : ra = root[a] /\ rb = root[b] OBVIOUS
<1>3. ra \in D /\ rb \in D BY <1>1, <1>2
<1>4. PICK g : g = [forest EXCEPT ![ra] = rb] OBVIOUS
<1>5. PICK new : new = JoinedRoots(root, a, b) OBVIOUS
<1>6. PICK deep : deep = JoinedRanks(root, rank, a, b) OBVIOUS
<1>7. new = [x \in D |-> IF root[x] = ra THEN rb ELSE root[x]] BY <1>1, <1>2, <1>5 DEF JoinedRoots
<1>8. deep = [x \in D |-> IF root[x] = ra /\ ra # rb THEN rank[x] + rank[rb] + 1 ELSE rank[x]]
  BY <1>1, <1>2, <1>6 DEF JoinedRanks
<1>9. g \in [D -> D] /\ new \in [D -> D] /\ deep \in [D -> Nat]
  <2>1. \A x \in D : rank[x] \in Nat /\ rank[rb] \in Nat /\ rank[x] + rank[rb] + 1 \in Nat BY <1>1, <1>3
  <2>2. g \in [D -> D] BY <1>1, <1>3, <1>4
  <2>3. new \in [D -> D] BY <1>1, <1>3, <1>7
  <2>4. deep \in [D -> Nat] BY <1>8, <2>1
  <2> QED BY <2>2, <2>3, <2>4
<1>10. \A x \in D : /\ g[x] = IF x = ra THEN rb ELSE forest[x]
                    /\ root[x] \in D /\ forest[x] \in D
                    /\ forest[root[x]] = root[x] /\ root[root[x]] = root[x]
  BY <1>1, <1>3, <1>4 DEF Hangs, HangsAt
<1>11. forest[ra] = ra /\ root[ra] = ra /\ forest[rb] = rb /\ root[rb] = rb
  BY <1>2, <1>10
<1>12. \A x \in D : rank[x] \in Nat BY <1>1
<1>13. ASSUME NEW x \in D PROVE HangsAt(g, new, deep, x)
  <2>1. HangsAt(forest, root, rank, x) /\ forest[x] \in D /\ root[x] \in D BY <1>10 DEF Hangs
  <2>2. /\ new[x] = (IF root[x] = ra THEN rb ELSE root[x])
        /\ deep[x] = (IF root[x] = ra /\ ra # rb THEN rank[x] + rank[rb] + 1 ELSE rank[x])
    BY <1>7, <1>8
  <2>3. deep[rb] = rank[rb] BY <1>3, <1>8, <1>11
  <2>4. g[rb] = rb BY <1>3, <1>10, <1>11
  <2>5. g[new[x]] = new[x] BY <1>10, <2>1, <2>2, <2>4
  <2>6. CASE root[x] = ra /\ ra # rb
    <3>1. new[x] = rb /\ deep[x] = rank[x] + rank[rb] + 1 BY <2>2, <2>6
    <3>2. rank[rb] < deep[x] BY <1>3, <1>12, <3>1
    <3>3. CASE x = ra
      <4>1. g[x] = rb /\ new[rb] = rb BY <1>3, <1>7, <1>10, <1>11, <3>3
      <4> QED BY <2>3, <2>5, <2>6, <3>1, <3>2, <3>3, <4>1 DEF HangsAt
    <3>4. CASE x # ra
      <4>1. g[x] = forest[x] /\ forest[x] # x BY <1>10, <2>1, <2>6, <3>4 DEF HangsAt
      <4>2. root[forest[x]] = ra /\ rank[forest[x]] < rank[x] BY <2>1, <2>6, <4>1 DEF HangsAt
      <4>3. new[forest[x]] = rb /\ deep[forest[x]] = rank[forest[x]] + rank[rb] + 1
        BY <1>7, <1>8, <2>1, <2>6, <4>2
      <4>4. deep[forest[x]] < deep[x] BY <1>3, <1>12, <2>1, <3>1, <4>2, <4>3
      <4> QED BY <2>3, <2>5, <3>1, <3>2, <4>1, <4>3, <4>4 DEF HangsAt
    <3> QED BY <3>3, <3>4
  <2>7. CASE ~(root[x] = ra /\ ra # rb)
    <3>1. new[x] = root[x] /\ deep[x] = rank[x] BY <2>2, <2>7
    <3>2. g[x] = forest[x] BY <1>10, <1>11, <2>1, <2>7
    <3>3. new[forest[x]] = root[forest[x]] /\ deep[forest[x]] = rank[forest[x]]
      <4>1. root[forest[x]] = root[x] BY <2>1 DEF HangsAt
      <4> QED BY <1>7, <1>8, <2>1, <2>7, <4>1
    <3>4. deep[root[x]] = rank[root[x]] BY <1>8, <1>10, <2>1, <2>7
    <3> QED BY <2>1, <2>5, <3>1, <3>2, <3>3, <3>4 DEF HangsAt
  <2> QED BY <2>6, <2>7
<1>14. Hangs(D, g, new, deep) BY <1>9, <1>13 DEF Hangs
<1> QED BY <1>2, <1>4, <1>5, <1>6, <1>14

\* A union joins the trees of its two nodes.
LEMMA UnionJoins ==
  ASSUME NEW D, NEW forest, NEW root, NEW rank, Hangs(D, forest, root, rank), NEW a \in D, NEW b \in D
  PROVE  Hangs(D, Union(a, b, forest), JoinedRoots(root, a, b), JoinedRanks(root, rank, a, b))
<1>1. Hangs(D, Find(a, forest), root, rank) BY FindKeeps
<1>2. Hangs(D, Find(b, Find(a, forest)), root, rank) BY <1>1, FindKeeps
<1>3. Union(a, b, forest) = [Find(b, Find(a, forest)) EXCEPT ![root[a]] = root[b]] BY RootsAre DEF Union
<1> DEFINE found == Find(b, Find(a, forest))
<1>4. Hangs(D, [found EXCEPT ![root[a]] = root[b]], JoinedRoots(root, a, b), JoinedRanks(root, rank, a, b))
  <2> HIDE DEF found
  <2> QED BY <1>2, HangBelow DEF found
<1> QED BY <1>3, <1>4

-----------------------------------------------------------------------------
(* What the roots say of the dependence, and the clusters of the roots.      *)

\* No root leaves a set that keeps the dependent groups whole.
Separates(f, root) ==
  \A S \in SUBSET Credences(f) : KeepsWhole(f, S) => \A x \in Credences(f) : x \in S <=> root[x] \in S

\* The members united so far have one root.
Gathers(f, root, g, u) ==
  \A h \in DOMAIN f.groups, k \in Credences(f) :
    (h < g \/ (h = g /\ k < u)) /\ Joins(f, f.groups[h], k) => root[Least(Members(f, f.groups[h]))] = root[k]

\* The first n credences are sorted by their roots.
Sorted(cs, root, n) ==
  /\ cs \in Seq([root : Nat, members : SUBSET Nat])
  /\ \A c \in DOMAIN cs : cs[c].members = {j \in 1..n : root[j] = cs[c].root} /\ cs[c].members # {}
  /\ \A j \in 1..n : \E c \in DOMAIN cs : root[j] = cs[c].root
  /\ \A c, d \in DOMAIN cs : c # d => cs[c].root # cs[d].root

Seen == CASE stage = "collect" -> unit - 1 [] stage \in {"combine", "done"} -> Len(fusion.names) [] OTHER -> 0

Stages == {"cover", "TypeError", "union", "collect", "combine", "done"}
Shape ==
  /\ fusion \in Fusions /\ stage \in Stages /\ group \in Nat \ {0} /\ unit \in Nat \ {0}
  /\ stage = "cover" => group = 1 /\ unit = 1
  /\ stage \in {"collect", "combine", "done"} => group > Len(fusion.groups)
  /\ stage = "collect" => unit <= Len(fusion.names) + 1

Clustering(f, forest, g, u, cs, n, root, rank) ==
  /\ Hangs(Credences(f), forest, root, rank)
  /\ Separates(f, root)
  /\ Gathers(f, root, g, u)
  /\ Sorted(cs, root, n)

ClusterInv == Shape /\ \E root, rank : Clustering(fusion, parent, group, unit, clusters, Seen, root, rank)

LEMMA FusionIs ==
  ASSUME NEW f \in Fusions
  PROVE  /\ f.names \in Seq(Idents \cup {Anonymous}) /\ f.groups \in Seq(Group) /\ f.probs \in Seq(0..Scale)
         /\ Credences(f) = 1..Len(f.names) /\ Len(f.names) \in Nat /\ Len(f.groups) \in Nat
         /\ DOMAIN f.groups = 1..Len(f.groups) /\ Len(f.probs) = Len(f.names)
         /\ f.k \in Nat
<1>1. f \in FusionCall /\ Len(f.names) = Len(f.probs) BY FusionAssumption
<1> QED BY <1>1 DEF FusionCall, Credences

LEMMA MembersAre ==
  ASSUME NEW f \in Fusions, NEW g
  PROVE  Members(f, g) \in SUBSET Nat /\ Members(f, g) \subseteq Credences(f)
BY FusionIs DEF Members

LEMMA JoinsIs ==
  ASSUME NEW f \in Fusions, NEW h \in DOMAIN f.groups, NEW k, Joins(f, f.groups[h], k)
  PROVE  /\ k \in Credences(f) /\ Least(Members(f, f.groups[h])) \in Credences(f)
         /\ k \in Members(f, f.groups[h]) /\ Least(Members(f, f.groups[h])) \in Members(f, f.groups[h])
         /\ f.groups[h] \in DependentGroups(f)
<1>1. PICK M : M = Members(f, f.groups[h]) OBVIOUS
<1>2. M \in SUBSET Nat /\ M \subseteq Credences(f) BY <1>1, MembersAre
<1>3. k \in M BY <1>1 DEF Joins
<1>4. Least(M) \in M BY <1>2, <1>3, LeastIs
<1>5. f.groups[h] \in DependentGroups(f) BY DEF Joins, DependentGroups
<1> QED BY <1>1, <1>2, <1>3, <1>4, <1>5

\* Joining two members of a dependent group keeps the roots apart that are to be apart.
LEMMA JoinedSeparates ==
  ASSUME NEW f \in Fusions, NEW root \in [Credences(f) -> Credences(f)], Separates(f, root),
         NEW g \in DependentGroups(f), NEW a \in Members(f, g), NEW b \in Members(f, g)
  PROVE  Separates(f, JoinedRoots(root, a, b))
<1>1. a \in Credences(f) /\ b \in Credences(f) BY MembersAre
<1> SUFFICES ASSUME NEW S \in SUBSET Credences(f), KeepsWhole(f, S), NEW x \in Credences(f)
             PROVE  x \in S <=> JoinedRoots(root, a, b)[x] \in S
  BY DEF Separates
<1>2. Members(f, g) \subseteq S \/ Members(f, g) \cap S = {} BY DEF KeepsWhole
<1>3. a \in S <=> b \in S BY <1>2
<1>4. (a \in S <=> root[a] \in S) /\ (b \in S <=> root[b] \in S) /\ (x \in S <=> root[x] \in S)
  BY <1>1 DEF Separates
<1>5. JoinedRoots(root, a, b)[x] = IF root[x] = root[a] THEN root[b] ELSE root[x] BY DEF JoinedRoots
<1> QED BY <1>3, <1>4, <1>5

\* What had one root still has.
LEMMA JoinedGathers ==
  ASSUME NEW f \in Fusions, NEW root \in [Credences(f) -> Credences(f)], NEW g, NEW u,
         Gathers(f, root, g, u), NEW a \in Credences(f), NEW b \in Credences(f)
  PROVE  /\ Gathers(f, JoinedRoots(root, a, b), g, u)
         /\ JoinedRoots(root, a, b)[a] = JoinedRoots(root, a, b)[b]
<1>1. PICK new : new = JoinedRoots(root, a, b) OBVIOUS
<1>2. \A x \in Credences(f) : new[x] = IF root[x] = root[a] THEN root[b] ELSE root[x] BY <1>1 DEF JoinedRoots
<1>3. ASSUME NEW h \in DOMAIN f.groups, NEW k \in Credences(f), h < g \/ (h = g /\ k < u), Joins(f, f.groups[h], k)
      PROVE  new[Least(Members(f, f.groups[h]))] = new[k]
  <2>1. Least(Members(f, f.groups[h])) \in Credences(f) BY <1>3, JoinsIs
  <2>2. root[Least(Members(f, f.groups[h]))] = root[k] BY <1>3 DEF Gathers
  <2> QED BY <1>2, <2>1, <2>2
<1>4. Gathers(f, new, g, u) BY <1>3 DEF Gathers
<1>5. new[a] = new[b] BY <1>2
<1> QED BY <1>1, <1>4, <1>5

\* When every group is gathered, the credences of one root are a component.
LEMMA RootsAreComponents ==
  ASSUME NEW f \in Fusions, NEW root \in [Credences(f) -> Credences(f)], Separates(f, root),
         NEW g \in Nat, NEW u, Gathers(f, root, g, u), g > Len(f.groups), NEW i \in Credences(f)
  PROVE  Component(f, i) = {j \in Credences(f) : root[j] = root[i]}
<1> DEFINE T == {j \in Credences(f) : root[j] = root[i]}
<1>1. KeepsWhole(f, T)
  <2> SUFFICES ASSUME NEW d \in DependentGroups(f) PROVE Members(f, d) \subseteq T \/ Members(f, d) \cap T = {}
    BY DEF KeepsWhole
  <2>1. PICK h \in DOMAIN f.groups : d = f.groups[h] /\ d.relation = "dependent" BY DEF DependentGroups
  <2>2. h < g BY <2>1, FusionIs
  <2>3. ASSUME NEW k \in Members(f, d) PROVE root[k] = root[Least(Members(f, d))]
    <3>1. k \in Credences(f) BY MembersAre
    <3>2. CASE k = Least(Members(f, d)) BY <3>2
    <3>3. CASE k # Least(Members(f, d))
      <4>1. Joins(f, f.groups[h], k) BY <2>1, <3>3 DEF Joins
      <4>2. root[Least(Members(f, f.groups[h]))] = root[k] BY <2>2, <3>1, <4>1 DEF Gathers
      <4> QED BY <2>1, <4>2
    <3> QED BY <3>2, <3>3
  <2>4. Members(f, d) \subseteq Credences(f) BY MembersAre
  <2> QED BY <2>3, <2>4
<1>2. ASSUME NEW j \in Component(f, i) PROVE j \in T
  <2>1. T \in SUBSET Credences(f) /\ i \in T OBVIOUS
  <2> HIDE DEF T
  <2> QED BY <1>1, <2>1 DEF Component
<1>3. ASSUME NEW j \in T, NEW S \in SUBSET Credences(f), KeepsWhole(f, S), i \in S PROVE j \in S
  <2>1. root[i] \in S BY <1>3 DEF Separates
  <2>2. root[j] \in S /\ j \in Credences(f) BY <2>1
  <2> QED BY <1>3, <2>2 DEF Separates
<1>4. \A j \in T : j \in Component(f, i) BY <1>3 DEF Component
<1> HIDE DEF T
<1>5. T = Component(f, i) BY <1>2, <1>4 DEF Component, T
<1> QED BY <1>5 DEF T

\* One more credence is sorted.
SortIn(cs, r, u) ==
  LET of == {c \in DOMAIN cs : cs[c].root = r}
  IN  IF of = {} THEN Append(cs, [root |-> r, members |-> {u}])
      ELSE [c \in DOMAIN cs |-> IF c \in of THEN [cs[c] EXCEPT !.members = @ \cup {u}] ELSE cs[c]]

LEMMA SortedIn ==
  ASSUME NEW n \in Nat, NEW root, NEW cs, Sorted(cs, root, n), NEW r \in Nat, r = root[n + 1]
  PROVE  Sorted(SortIn(cs, r, n + 1), root, n + 1)
<1> DEFINE Block == [root : Nat, members : SUBSET Nat]
           of == {c \in DOMAIN cs : cs[c].root = r}
<1>1. /\ cs \in Seq(Block)
      /\ \A c \in DOMAIN cs : cs[c].members = {j \in 1..n : root[j] = cs[c].root} /\ cs[c].members # {}
      /\ \A j \in 1..n : \E c \in DOMAIN cs : root[j] = cs[c].root
      /\ \A c, d \in DOMAIN cs : c # d => cs[c].root # cs[d].root
  BY DEF Sorted
<1>2. \A c \in DOMAIN cs : cs[c] \in Block
  <2> HIDE DEF Block
  <2> QED BY <1>1
<1>3. \A j : j \in 1..(n + 1) <=> j \in 1..n \/ j = n + 1 OBVIOUS
<1>4. CASE of = {}
  <2>1. PICK new : new = Append(cs, [root |-> r, members |-> {n + 1}]) OBVIOUS
  <2>2. new \in Seq(Block) /\ DOMAIN new = 1..(Len(cs) + 1) /\ DOMAIN cs = 1..Len(cs) /\ Len(cs) \in Nat BY <1>1, <2>1
  <2>3. \A c \in DOMAIN cs : new[c] = cs[c] BY <1>1, <2>1
  <2>4. new[Len(cs) + 1] = [root |-> r, members |-> {n + 1}] BY <1>1, <2>1
  <2>5. \A c \in DOMAIN new : c \in DOMAIN cs \/ c = Len(cs) + 1 BY <2>2
  <2>6. \A c \in DOMAIN cs : cs[c].root # r BY <1>4
  <2>7. ASSUME NEW c \in DOMAIN new
        PROVE  new[c].members = {j \in 1..(n + 1) : root[j] = new[c].root} /\ new[c].members # {}
    <3>1. CASE c \in DOMAIN cs
      <4>1. new[c] = cs[c] /\ cs[c].root # root[n + 1] BY <2>3, <2>6, <3>1
      <4>2. {j \in 1..(n + 1) : root[j] = cs[c].root} = {j \in 1..n : root[j] = cs[c].root} BY <1>3, <4>1
      <4> QED BY <1>1, <3>1, <4>1, <4>2
    <3>2. CASE c = Len(cs) + 1
      <4>1. \A j \in 1..n : root[j] # r BY <1>1, <2>6
      <4>2. {j \in 1..(n + 1) : root[j] = r} = {n + 1} BY <1>3, <4>1
      <4>3. new[c].root = r /\ new[c].members = {n + 1} BY <2>4, <3>2
      <4> QED BY <4>2, <4>3
    <3> QED BY <2>5, <3>1, <3>2
  <2>8. ASSUME NEW j \in 1..(n + 1) PROVE \E c \in DOMAIN new : root[j] = new[c].root
    <3>1. CASE j = n + 1
      <4>1. Len(cs) + 1 \in DOMAIN new BY <2>2
      <4> QED BY <2>4, <3>1, <4>1
    <3>2. CASE j \in 1..n
      <4>1. PICK c \in DOMAIN cs : root[j] = cs[c].root BY <1>1, <3>2
      <4> QED BY <2>2, <2>3, <4>1
    <3> QED BY <1>3, <3>1, <3>2
  <2>9. ASSUME NEW c \in DOMAIN new, NEW d \in DOMAIN new, c # d PROVE new[c].root # new[d].root
    <3>1. CASE c \in DOMAIN cs /\ d \in DOMAIN cs BY <1>1, <2>3, <2>9, <3>1
    <3>2. CASE c = Len(cs) + 1 BY <2>3, <2>4, <2>5, <2>6, <2>9, <3>2
    <3>3. CASE d = Len(cs) + 1 BY <2>3, <2>4, <2>5, <2>6, <2>9, <3>3
    <3> QED BY <2>5, <3>1, <3>2, <3>3
  <2>10. Sorted(new, root, n + 1) BY <2>2, <2>7, <2>8, <2>9 DEF Sorted
  <2> QED BY <1>4, <2>1, <2>10 DEF SortIn
<1>5. CASE of # {}
  <2>1. PICK new : new = [c \in DOMAIN cs |-> IF c \in of THEN [cs[c] EXCEPT !.members = @ \cup {n + 1}] ELSE cs[c]] OBVIOUS
  <2>2. DOMAIN new = DOMAIN cs /\ DOMAIN cs = 1..Len(cs) /\ Len(cs) \in Nat BY <1>1, <2>1
  <2>3. ASSUME NEW c \in DOMAIN cs
        PROVE  /\ new[c] \in Block /\ new[c].root = cs[c].root
               /\ new[c].members = IF cs[c].root = r THEN cs[c].members \cup {n + 1} ELSE cs[c].members
    <3>1. cs[c] \in Block BY <1>2
    <3>2. [cs[c] EXCEPT !.members = @ \cup {n + 1}] = [root |-> cs[c].root, members |-> cs[c].members \cup {n + 1}]
      BY <3>1
    <3>3. CASE cs[c].root = r
      <4>1. new[c] = [root |-> cs[c].root, members |-> cs[c].members \cup {n + 1}] BY <2>1, <3>2, <3>3
      <4> QED BY <3>1, <3>3, <4>1
    <3>4. CASE cs[c].root # r
      <4>1. new[c] = cs[c] BY <2>1, <3>4
      <4> QED BY <3>1, <3>4, <4>1
    <3> QED BY <3>3, <3>4
  <2>4. new \in Seq(Block)
    <3>1. new = [c \in 1..Len(cs) |-> new[c]] BY <2>1, <2>2
    <3>2. \A c \in 1..Len(cs) : new[c] \in Block BY <2>2, <2>3
    <3> HIDE DEF Block
    <3>3. new \in [1..Len(cs) -> Block] BY <3>1, <3>2
    <3> QED BY <2>2, <3>3
  <2>5. ASSUME NEW c \in DOMAIN new
        PROVE  new[c].members = {j \in 1..(n + 1) : root[j] = new[c].root} /\ new[c].members # {}
    <3>1. c \in DOMAIN cs /\ new[c].root = cs[c].root BY <2>2, <2>3
    <3>2. cs[c].members = {j \in 1..n : root[j] = cs[c].root} /\ cs[c].members # {} BY <1>1, <3>1
    <3>3. CASE cs[c].root = r
      <4>1. new[c].members = cs[c].members \cup {n + 1} BY <2>3, <3>1, <3>3
      <4>2. {j \in 1..(n + 1) : root[j] = cs[c].root} = {j \in 1..n : root[j] = cs[c].root} \cup {n + 1}
        BY <1>3, <3>3
      <4> QED BY <3>1, <3>2, <4>1, <4>2
    <3>4. CASE cs[c].root # r
      <4>1. new[c].members = cs[c].members BY <2>3, <3>1, <3>4
      <4>2. {j \in 1..(n + 1) : root[j] = cs[c].root} = {j \in 1..n : root[j] = cs[c].root}
        BY <1>3, <3>4
      <4> QED BY <3>1, <3>2, <4>1, <4>2
    <3> QED BY <3>3, <3>4
  <2>6. ASSUME NEW j \in 1..(n + 1) PROVE \E c \in DOMAIN new : root[j] = new[c].root
    <3>1. CASE j = n + 1
      <4>1. PICK c \in of : TRUE BY <1>5
      <4>2. c \in DOMAIN cs /\ cs[c].root = r OBVIOUS
      <4> QED BY <2>2, <2>3, <3>1, <4>2
    <3>2. CASE j \in 1..n
      <4>1. PICK c \in DOMAIN cs : root[j] = cs[c].root BY <1>1, <3>2
      <4> QED BY <2>2, <2>3, <4>1
    <3> QED BY <1>3, <3>1, <3>2
  <2>7. ASSUME NEW c \in DOMAIN new, NEW d \in DOMAIN new, c # d PROVE new[c].root # new[d].root
    <3>1. c \in DOMAIN cs /\ d \in DOMAIN cs BY <2>2
    <3>2. new[c].root = cs[c].root /\ new[d].root = cs[d].root BY <2>3, <3>1
    <3> QED BY <1>1, <2>7, <3>1, <3>2
  <2> HIDE DEF Block
  <2>8. Sorted(new, root, n + 1) BY <2>4, <2>5, <2>6, <2>7 DEF Sorted, Block
  <2> QED BY <1>5, <2>1, <2>8 DEF SortIn
<1> QED BY <1>4, <1>5

-----------------------------------------------------------------------------
(* The clusters are the components.                                          *)

LEMMA Gathered ==
  ASSUME NEW f \in Fusions, NEW root, NEW g \in Nat, NEW u, NEW v, Gathers(f, root, g, u), g > Len(f.groups)
  PROVE  Gathers(f, root, g, v)
<1>1. \A h \in DOMAIN f.groups : h < g /\ h # g BY FusionIs
<1> QED BY <1>1 DEF Gathers

LEMMA ClusterInit == FusionInit => ClusterInv
<1> SUFFICES ASSUME FusionInit PROVE ClusterInv OBVIOUS
<1>1. PICK f : f = fusion OBVIOUS
<1>2. f \in Fusions /\ Credences(f) = 1..Len(f.names) /\ Len(f.names) \in Nat BY <1>1, FusionIs DEF FusionInit
<1>3. PICK root : root = [i \in Credences(f) |-> i] OBVIOUS
<1>4. PICK rank : rank = [i \in Credences(f) |-> 0] OBVIOUS
<1>5. Hangs(Credences(f), root, root, rank)
  <2>1. root \in [Credences(f) -> Credences(f)] /\ rank \in [Credences(f) -> Nat] BY <1>3, <1>4
  <2> QED BY <1>3, <2>1 DEF Hangs, HangsAt
<1>6. Separates(f, root) BY <1>3 DEF Separates
<1>7. Gathers(f, root, 1, 1)
  <2>1. \A h \in DOMAIN f.groups, k \in Credences(f) : ~(h < 1 \/ (h = 1 /\ k < 1)) BY <1>2, FusionIs
  <2> QED BY <2>1 DEF Gathers
<1>8. Sorted(<<>>, root, 0) BY DEF Sorted
<1>9. Clustering(f, root, 1, 1, <<>>, 0, root, rank) BY <1>5, <1>6, <1>7, <1>8 DEF Clustering
<1>10. Seen = 0 BY DEF FusionInit, Seen
<1>11. Shape BY DEF FusionInit, Shape, Stages
<1> QED BY <1>1, <1>3, <1>9, <1>10, <1>11 DEF FusionInit, ClusterInv

LEMMA CoverKeeps == ClusterInv /\ Cover => ClusterInv'
<1> SUFFICES ASSUME ClusterInv, Cover PROVE ClusterInv' OBVIOUS
<1>1. Shape' BY DEF ClusterInv, Shape, Stages, Cover
<1>2. Seen = 0 /\ Seen' = 0 BY DEF Cover, Seen
<1> QED BY <1>1, <1>2 DEF ClusterInv, Cover

\* One more member of a group has the root of the first.
LEMMA UniteClusters ==
  ASSUME NEW f \in Fusions, NEW forest, NEW g \in DOMAIN f.groups, NEW u \in Nat \ {0}, NEW cs, NEW root, NEW rank,
         Clustering(f, forest, g, u, cs, 0, root, rank),
         NEW grown, grown = IF Joins(f, f.groups[g], u) THEN Union(Least(Members(f, f.groups[g])), u, forest) ELSE forest
  PROVE  \E r, k : Clustering(f, grown, g, u + 1, <<>>, 0, r, k)
<1>1. PICK D : D = Credences(f) OBVIOUS
<1>2. D \subseteq Nat BY <1>1, FusionIs
<1>3. root \in [D -> D] /\ Hangs(D, forest, root, rank) /\ Separates(f, root) /\ Gathers(f, root, g, u)
  BY <1>1 DEF Clustering, Hangs
<1>4. \A r : Sorted(<<>>, r, 0) BY DEF Sorted
<1>5. CASE Joins(f, f.groups[g], u)
  <2>1. PICK a : a = Least(Members(f, f.groups[g])) OBVIOUS
  <2>2. PICK new : new = JoinedRoots(root, a, u) OBVIOUS
  <2>3. /\ a \in D /\ u \in D /\ a \in Members(f, f.groups[g]) /\ u \in Members(f, f.groups[g])
        /\ f.groups[g] \in DependentGroups(f)
    BY <1>1, <1>5, <2>1, JoinsIs
  <2>4. Hangs(D, grown, new, JoinedRanks(root, rank, a, u)) BY <1>3, <1>5, <2>1, <2>2, <2>3, UnionJoins
  <2>5. Separates(f, new) BY <1>1, <1>3, <2>2, <2>3, JoinedSeparates
  <2>6. Gathers(f, new, g, u) /\ new[a] = new[u] BY <1>1, <1>3, <2>2, <2>3, JoinedGathers
  <2>7. Gathers(f, new, g, u + 1)
    <3> SUFFICES ASSUME NEW h \in DOMAIN f.groups, NEW k \in D, h < g \/ (h = g /\ k < u + 1), Joins(f, f.groups[h], k)
                 PROVE  new[Least(Members(f, f.groups[h]))] = new[k]
      BY <1>1 DEF Gathers
    <3>1. CASE h < g \/ (h = g /\ k < u) BY <1>1, <2>6, <3>1 DEF Gathers
    <3>2. CASE h = g /\ k = u BY <2>1, <2>6, <3>2
    <3>3. k < u + 1 => k < u \/ k = u BY <1>2
    <3> QED BY <3>1, <3>2, <3>3
  <2> QED BY <1>1, <1>4, <2>4, <2>5, <2>7 DEF Clustering
<1>6. CASE ~Joins(f, f.groups[g], u)
  <2>1. Gathers(f, root, g, u + 1)
    <3> SUFFICES ASSUME NEW h \in DOMAIN f.groups, NEW k \in D, h < g \/ (h = g /\ k < u + 1), Joins(f, f.groups[h], k)
                 PROVE  root[Least(Members(f, f.groups[h]))] = root[k]
      BY <1>1 DEF Gathers
    <3>1. h < g \/ (h = g /\ k < u) BY <1>2, <1>6
    <3> QED BY <1>1, <1>3, <3>1 DEF Gathers
  <2> QED BY <1>1, <1>3, <1>4, <1>6, <2>1 DEF Clustering
<1> QED BY <1>5, <1>6

\* The last credence gathered, the group is.
LEMMA NextGroup ==
  ASSUME NEW f \in Fusions, NEW root, NEW g \in DOMAIN f.groups, NEW u \in Nat \ {0}, Gathers(f, root, g, u + 1),
         u >= Len(f.names)
  PROVE  Gathers(f, root, g + 1, 1)
<1>1. \A h \in DOMAIN f.groups, k \in Credences(f) :
        h < g + 1 \/ (h = g + 1 /\ k < 1) => h < g \/ (h = g /\ k < u + 1)
  BY FusionIs
<1> QED BY <1>1 DEF Gathers

LEMMA UniteKeeps == ClusterInv /\ Unite => ClusterInv'
<1> SUFFICES ASSUME ClusterInv, Unite PROVE ClusterInv' OBVIOUS
<1>1. PICK f : f = fusion OBVIOUS
<1>2. /\ f \in Fusions /\ group \in Nat /\ unit \in Nat \ {0} /\ stage = "union"
      /\ group <= Len(f.groups) BY <1>1 DEF ClusterInv, Shape, Unite
<1>3. Seen = 0 /\ Seen' = 0 /\ clusters' = clusters /\ fusion' = f /\ stage' = "union" BY <1>1 DEF Unite, Seen
<1>4. PICK root, rank : Clustering(f, parent, group, unit, clusters, 0, root, rank) BY <1>1, <1>3 DEF ClusterInv
<1>5. CASE group \in DOMAIN f.groups
  <2>1. parent' = IF Joins(f, f.groups[group], unit) THEN Union(Least(Members(f, f.groups[group])), unit, parent) ELSE parent
    BY <1>1 DEF Unite
  <2>2. \E r, k : Clustering(f, parent', group, unit + 1, <<>>, 0, r, k) BY <1>2, <1>4, <1>5, <2>1, UniteClusters
  <2>3. PICK r, k : Clustering(f, parent', group, unit + 1, <<>>, 0, r, k) BY <2>2
  <2>4. clusters = <<>>
    <3>1. \A x : Sorted(clusters, x, 0) => clusters = <<>>
      <4> SUFFICES ASSUME NEW x, Sorted(clusters, x, 0) PROVE clusters = <<>> OBVIOUS
      <4>1. clusters \in Seq([root : Nat, members : SUBSET Nat]) BY DEF Sorted
      <4>2. \A c \in DOMAIN clusters : FALSE BY DEF Sorted
      <4>3. PICK B : clusters \in Seq(B) BY <4>1
      <4>4. Len(clusters) \in Nat /\ DOMAIN clusters = 1..Len(clusters) BY <4>3
      <4>5. Len(clusters) = 0 BY <4>2, <4>4
      <4> QED BY <4>3, <4>5
    <3> QED BY <1>4, <3>1 DEF Clustering
  <2>5. Clustering(f, parent', group', unit', clusters', 0, r, k)
    <3>1. CASE unit < Len(f.names)
      <4>1. unit' = unit + 1 /\ group' = group BY <1>1, <3>1 DEF Unite
      <4> QED BY <1>3, <2>3, <2>4, <4>1
    <3>2. CASE ~(unit < Len(f.names))
      <4>1. unit' = 1 /\ group' = group + 1 BY <1>1, <3>2 DEF Unite
      <4>2. Gathers(f, r, group, unit + 1) BY <2>3 DEF Clustering
      <4>3. unit >= Len(f.names) BY <1>2, <3>2, FusionIs
      <4>4. Gathers(f, r, group + 1, 1) BY <1>2, <1>5, <4>2, <4>3, NextGroup
      <4> QED BY <1>3, <2>3, <2>4, <4>1, <4>4 DEF Clustering
    <3> QED BY <3>1, <3>2
  <2>6. Shape' BY <1>2, <1>3 DEF ClusterInv, Shape, Unite, Stages
  <2> QED BY <1>3, <2>5, <2>6 DEF ClusterInv
<1>6. group \in DOMAIN f.groups
  <2>1. group # 0
    <3>1. Shape BY DEF ClusterInv
    <3> QED BY <1>2, <3>1 DEF Shape
  <2> QED BY <1>2, <2>1, FusionIs
<1> QED BY <1>5, <1>6

LEMMA UnitedKeeps == ClusterInv /\ United => ClusterInv'
<1> SUFFICES ASSUME ClusterInv, United PROVE ClusterInv' OBVIOUS
<1>1. Seen = 0 /\ Seen' = 0 /\ unit' = 1 /\ UNCHANGED <<fusion, parent, group, clusters>> BY DEF United, Seen
<1>2. PICK root, rank : Clustering(fusion, parent, group, unit, clusters, 0, root, rank) BY <1>1 DEF ClusterInv
<1>3. fusion \in Fusions /\ group \in Nat /\ group > Len(fusion.groups) BY DEF ClusterInv, Shape, United
<1>4. Gathers(fusion, root, group, 1) BY <1>2, <1>3, Gathered DEF Clustering
<1>5. Clustering(fusion, parent, group, 1, clusters, 0, root, rank) BY <1>2, <1>4 DEF Clustering
<1>6. Shape'
  <2>1. Len(fusion.names) \in Nat BY <1>3, FusionIs
  <2> QED BY <1>1, <1>3, <2>1 DEF United, Shape, Stages, ClusterInv
<1> QED BY <1>1, <1>5, <1>6 DEF ClusterInv

LEMMA CollectKeeps == ClusterInv /\ Collect => ClusterInv'
<1> SUFFICES ASSUME ClusterInv, Collect PROVE ClusterInv' OBVIOUS
<1>1. PICK f, u : f = fusion /\ u = unit OBVIOUS
<1>2. /\ f \in Fusions /\ group \in Nat /\ group > Len(f.groups) /\ u \in Nat \ {0}
      /\ stage = "collect" /\ stage' = "collect" /\ fusion' = f /\ group' = group /\ unit' = u + 1
      /\ u <= Len(f.names) /\ Len(f.names) \in Nat
  BY <1>1, FusionIs DEF ClusterInv, Shape, Collect
<1>3. Seen = u - 1 /\ Seen' = (u + 1) - 1 BY <1>1, <1>2 DEF Seen
<1>4. PICK root, rank : Clustering(f, parent, group, u, clusters, u - 1, root, rank) BY <1>1, <1>3 DEF ClusterInv
<1>5. PICK D : D = Credences(f) OBVIOUS
<1>6. D = 1..Len(f.names) /\ u \in D BY <1>2, <1>5, FusionIs
<1>7. Hangs(D, parent, root, rank) BY <1>4, <1>5 DEF Clustering
<1>8. RootsOf(parent) = root BY <1>7, RootsAre
<1>9. Hangs(D, parent', root, rank) BY <1>1, <1>6, <1>7, FindKeeps DEF Collect
<1>10. root[u] \in Nat
  <2>1. root \in [D -> D] BY <1>7 DEF Hangs
  <2> QED BY <1>6, <2>1
<1>11. clusters' = SortIn(clusters, root[u], u) BY <1>1, <1>8 DEF Collect, SortIn
<1>12. Sorted(clusters', root, (u + 1) - 1)
  <2>1. PICK n \in Nat : n = u - 1 BY <1>2
  <2>2. n + 1 = u /\ (u + 1) - 1 = u BY <1>2, <2>1
  <2>3. Sorted(clusters, root, n) BY <1>4, <2>1 DEF Clustering
  <2>4. Sorted(SortIn(clusters, root[u], n + 1), root, n + 1) BY <1>10, <2>2, <2>3, SortedIn
  <2> QED BY <1>11, <2>2, <2>4
<1>13. Gathers(f, root, group, u + 1) BY <1>2, <1>4, Gathered DEF Clustering
<1>14. Clustering(f, parent', group, u + 1, clusters', (u + 1) - 1, root, rank)
  BY <1>4, <1>5, <1>9, <1>12, <1>13 DEF Clustering
<1>15. Shape' BY <1>1, <1>2 DEF Shape, Stages, ClusterInv
<1> QED BY <1>2, <1>3, <1>14, <1>15 DEF ClusterInv

LEMMA CollectedKeeps == ClusterInv /\ Collected => ClusterInv'
<1> SUFFICES ASSUME ClusterInv, Collected PROVE ClusterInv' OBVIOUS
<1>1. /\ fusion \in Fusions /\ group \in Nat /\ group > Len(fusion.groups) /\ unit \in Nat \ {0}
      /\ unit <= Len(fusion.names) + 1 /\ unit > Len(fusion.names) /\ Len(fusion.names) \in Nat
      /\ unit' = 1 /\ UNCHANGED <<fusion, parent, group, clusters>>
  BY FusionIs DEF ClusterInv, Shape, Collected
<1>2. Seen = Len(fusion.names) /\ Seen' = Len(fusion.names) BY <1>1 DEF Collected, Seen
<1>3. PICK root, rank : Clustering(fusion, parent, group, unit, clusters, Len(fusion.names), root, rank)
  BY <1>2 DEF ClusterInv
<1>4. Gathers(fusion, root, group, 1) BY <1>1, <1>3, Gathered DEF Clustering
<1>5. Clustering(fusion, parent, group, 1, clusters, Len(fusion.names), root, rank) BY <1>3, <1>4 DEF Clustering
<1>6. Shape' BY <1>1 DEF Collected, Shape, Stages, ClusterInv
<1> QED BY <1>1, <1>2, <1>5, <1>6 DEF ClusterInv

\* The clusters stay as they are while they are combined.
LEMMA CombineKeeps == ClusterInv /\ (AddUnit \/ Fused) => ClusterInv'
<1> SUFFICES ASSUME ClusterInv, AddUnit \/ Fused PROVE ClusterInv' OBVIOUS
<1>1. /\ fusion \in Fusions /\ group \in Nat /\ group > Len(fusion.groups) /\ unit \in Nat \ {0}
      /\ unit' \in Nat \ {0} /\ UNCHANGED <<fusion, parent, group, clusters>>
      /\ stage = "combine" /\ stage' \in {"combine", "done"}
  BY DEF ClusterInv, Shape, AddUnit, Fused
<1>2. Seen = Len(fusion.names) /\ Seen' = Len(fusion.names) BY <1>1 DEF Seen
<1>3. PICK root, rank : Clustering(fusion, parent, group, unit, clusters, Len(fusion.names), root, rank)
  BY <1>2 DEF ClusterInv
<1>4. Gathers(fusion, root, group, unit') BY <1>1, <1>3, Gathered DEF Clustering
<1>5. Clustering(fusion, parent, group, unit', clusters, Len(fusion.names), root, rank) BY <1>3, <1>4 DEF Clustering
<1>6. Shape' BY <1>1 DEF Shape, Stages, ClusterInv
<1> QED BY <1>1, <1>2, <1>5, <1>6 DEF ClusterInv

LEMMA ClusterStep == ClusterInv /\ [FusionNext]_fusionVars => ClusterInv'
<1> SUFFICES ASSUME ClusterInv, [FusionNext]_fusionVars PROVE ClusterInv' OBVIOUS
<1>1. CASE Cover BY <1>1, CoverKeeps
<1>2. CASE Unite BY <1>2, UniteKeeps
<1>3. CASE United BY <1>3, UnitedKeeps
<1>4. CASE Collect BY <1>4, CollectKeeps
<1>5. CASE Collected BY <1>5, CollectedKeeps
<1>6. CASE AddUnit \/ Fused BY <1>6, CombineKeeps
<1>7. CASE UNCHANGED fusionVars BY <1>7 DEF fusionVars, ClusterInv, Shape, Seen
<1> QED BY <1>1, <1>2, <1>3, <1>4, <1>5, <1>6, <1>7 DEF FusionNext

LEMMA ClustersOnce == ClusterInv => ClustersAreComponents
<1> SUFFICES ASSUME ClusterInv, stage \in {"combine", "done"}
             PROVE  /\ {clusters[c].members : c \in DOMAIN clusters} = Components(fusion)
                    /\ \A c, d \in DOMAIN clusters : c # d => clusters[c].members # clusters[d].members
  BY DEF ClustersAreComponents
<1>1. PICK f, n : f = fusion /\ n = Len(f.names) OBVIOUS
<1>2. f \in Fusions /\ group \in Nat /\ group > Len(f.groups) BY <1>1 DEF ClusterInv, Shape
<1>3. Seen = n BY <1>1 DEF Seen
<1>4. PICK root, rank : Clustering(f, parent, group, unit, clusters, n, root, rank) BY <1>1, <1>3 DEF ClusterInv
<1>5. Credences(f) = 1..n BY <1>1, <1>2, FusionIs
<1>6. root \in [Credences(f) -> Credences(f)] /\ Separates(f, root) /\ Gathers(f, root, group, unit)
  BY <1>4 DEF Clustering, Hangs
<1>7. ASSUME NEW i \in 1..n PROVE Component(f, i) = {j \in 1..n : root[j] = root[i]}
  <2>1. PICK g, u : g = group /\ u = unit OBVIOUS
  <2>2. g \in Nat /\ g > Len(f.groups) /\ Gathers(f, root, g, u) BY <1>2, <1>6, <2>1
  <2>3. i \in Credences(f) BY <1>5
  <2>4. Component(f, i) = {j \in Credences(f) : root[j] = root[i]} BY <1>2, <1>6, <2>2, <2>3, RootsAreComponents
  <2> QED BY <1>5, <2>4
<1>8. /\ \A c \in DOMAIN clusters : clusters[c].members = {j \in 1..n : root[j] = clusters[c].root} /\ clusters[c].members # {}
      /\ \A j \in 1..n : \E c \in DOMAIN clusters : root[j] = clusters[c].root
      /\ \A c, d \in DOMAIN clusters : c # d => clusters[c].root # clusters[d].root
  BY <1>4 DEF Clustering, Sorted
<1>9. ASSUME NEW c \in DOMAIN clusters PROVE \E i \in 1..n : root[i] = clusters[c].root /\ clusters[c].members = Component(f, i)
  <2>1. PICK i \in 1..n : root[i] = clusters[c].root BY <1>8
  <2>2. Component(f, i) = {j \in 1..n : root[j] = root[i]} BY <1>7
  <2>3. clusters[c].members = {j \in 1..n : root[j] = clusters[c].root} BY <1>8
  <2> QED BY <2>1, <2>2, <2>3
<1>10. ASSUME NEW i \in 1..n PROVE \E c \in DOMAIN clusters : clusters[c].members = Component(f, i)
  <2>1. PICK c \in DOMAIN clusters : root[i] = clusters[c].root BY <1>8
  <2>2. Component(f, i) = {j \in 1..n : root[j] = root[i]} BY <1>7
  <2>3. clusters[c].members = {j \in 1..n : root[j] = clusters[c].root} BY <1>8
  <2> QED BY <2>1, <2>2, <2>3
<1>11. {clusters[c].members : c \in DOMAIN clusters} = {Component(f, i) : i \in 1..n} BY <1>9, <1>10
<1>12. ASSUME NEW c \in DOMAIN clusters, NEW d \in DOMAIN clusters, c # d PROVE clusters[c].members # clusters[d].members
  <2>1. PICK i \in 1..n : i \in clusters[c].members /\ root[i] = clusters[c].root BY <1>8
  <2>2. i \notin clusters[d].members BY <1>8, <1>12, <2>1
  <2> QED BY <2>1, <2>2
<1> QED BY <1>1, <1>5, <1>11, <1>12 DEF Components

\* The clusters of a fusion are the connected components of the declared
\* dependence, whatever the names, the groups and their order.
THEOREM Clusters == FusionSpec => []ClustersAreComponents
<1>1. FusionInit => ClusterInv BY ClusterInit
<1>2. ClusterInv /\ [FusionNext]_fusionVars => ClusterInv' BY ClusterStep
<1>3. ClusterInv => ClustersAreComponents BY ClustersOnce
<1> QED BY <1>1, <1>2, <1>3, PTL DEF FusionSpec

-----------------------------------------------------------------------------
(* The recursions of the model, over any interval.                           *)

PowerEquation(n, f) == [i \in 0..n |-> IF i = 0 THEN 1 ELSE Scale * f[i - 1]]

LEMMA PowerIs ==
  ASSUME NEW n
  PROVE  Power(n) = (CHOOSE f : f = PowerEquation(n, f))[n]
BY DEF Power, PowerEquation

LEMMA Positive ==
  ASSUME NEW a \in Nat \ {0}, NEW b \in Nat \ {0}
  PROVE  a * b \in Nat \ {0}
<1>1. a * b \in Int /\ a >= 1 /\ b >= 1 OBVIOUS
<1>2. a * b >= 1 BY <1>1
<1> QED BY <1>1, <1>2

\* The powers of Scale, up to m.
Powers(m, g) ==
  /\ g \in [0..m -> Nat \ {0}] /\ g[0] = 1
  /\ \A i \in 0..(m - 1) : g[i + 1] = Scale * g[i]
  /\ \A i \in 0..m : Power(i) = g[i]

LEMMA PowersAre ==
  ASSUME NEW m \in Nat
  PROVE  \E g : Powers(m, g)
<1> DEFINE S == Nat \ {0}
           h == [x \in (1..m) \X S |-> Scale * x[2]]
<1>1. h \in [(1..m) \X S -> S]
  <2>1. \A x \in (1..m) \X S : Scale * x[2] \in S
    <3>1. Scale \in S BY FusionAssumption
    <3>2. \A x \in (1..m) \X S : x[2] \in S OBVIOUS
    <3> QED BY <3>1, <3>2, Positive
  <2> HIDE DEF S
  <2> QED BY <2>1
<1>2. \A i \in 1..m, v \in S : h[<<i, v>>] = Scale * v OBVIOUS
<1> HIDE DEF h
<1>3. PICK g : Starts(S, 1, h, m, g)
  <2>1. 1 \in S OBVIOUS
  <2> HIDE DEF S
  <2> QED BY <1>1, <2>1, StartsExist
<1>4. g \in [0..m -> S] /\ g[0] = 1 /\ \A i \in 0..(m - 1) : g[i + 1] = h[<<i + 1, g[i]>>] BY <1>3 DEF Starts, Step
<1>5. \A i \in 0..(m - 1) : g[i + 1] = Scale * g[i]
  <2> TAKE i \in 0..(m - 1)
  <2>1. i + 1 \in 1..m /\ i \in 0..m OBVIOUS
  <2> QED BY <1>2, <1>4, <2>1
<1>6. ASSUME NEW n \in 0..m PROVE Power(n) = g[n]
  <2>1. PICK e : e = [i \in 0..n |-> g[i]] OBVIOUS
  <2>2. e = PowerEquation(n, e)
    <3>1. \A i \in 0..n : g[i] = IF i = 0 THEN 1 ELSE Scale * g[i - 1]
      <4> TAKE i \in 0..n
      <4>1. CASE i = 0 BY <1>4, <4>1
      <4>2. CASE i # 0
        <5>1. i - 1 \in 0..(m - 1) /\ (i - 1) + 1 = i BY <4>2
        <5> QED BY <1>5, <4>2, <5>1
      <4> QED BY <4>1, <4>2
    <3>2. \A i \in 0..n : i # 0 => i - 1 \in 0..n OBVIOUS
    <3> QED BY <2>1, <3>1, <3>2 DEF PowerEquation
  <2>3. PICK f : f = CHOOSE p : p = PowerEquation(n, p) OBVIOUS
  <2>4. f = PowerEquation(n, f) BY <2>2, <2>3
  <2>5. \A i \in 0..n : f[i] = IF i = 0 THEN 1 ELSE Scale * f[i - 1] BY <2>4 DEF PowerEquation
  <2>6. f[0] = g[0] BY <1>4, <2>5
  <2>7. \A i \in 0..(n - 1) : f[i] = g[i] => f[i + 1] = g[i + 1]
    <3> TAKE i \in 0..(n - 1)
    <3>1. i + 1 \in 0..n /\ i + 1 # 0 /\ (i + 1) - 1 = i /\ i \in 0..(m - 1) OBVIOUS
    <3>2. f[i + 1] = Scale * f[i] BY <2>5, <3>1
    <3> QED BY <1>5, <3>1, <3>2
  <2>8. Together(f, g, n) BY <2>7 DEF Together
  <2>9. f[n] = g[n] BY <2>6, <2>8, AgreeAtTheEnd
  <2> QED BY <2>3, <2>9, PowerIs
<1> QED BY <1>4, <1>5, <1>6 DEF Powers

SumEquation(w, k, n, f) ==
  [j \in 0..(n + 1) |-> IF j = 0 THEN 0 ELSE f[j - 1] + (IF j - 1 >= k THEN w[j - 1] ELSE 0)]

LEMMA SumFromIs ==
  ASSUME NEW w, NEW k, NEW n
  PROVE  SumFrom(w, k, n) = (CHOOSE f : f = SumEquation(w, k, n, f))[n + 1]
BY DEF SumFrom, SumEquation

\* What the entries from k on sum up to, entry by entry.
Sums(w, k, n, g) ==
  /\ g \in [0..(n + 1) -> Nat] /\ g[0] = 0
  /\ \A j \in 0..n : g[j + 1] = g[j] + (IF j >= k THEN w[j] ELSE 0)
  /\ SumFrom(w, k, n) = g[n + 1]

LEMMA SumsAre ==
  ASSUME NEW n \in Nat, NEW w \in [0..n -> Nat], NEW k \in Int
  PROVE  \E g : Sums(w, k, n, g)
<1>1. PICK m \in Nat : m = n + 1 OBVIOUS
<1> DEFINE h == [x \in (1..m) \X Nat |-> x[2] + (IF x[1] - 1 >= k THEN w[x[1] - 1] ELSE 0)]
<1>2. h \in [(1..m) \X Nat -> Nat]
  <2>1. \A x \in (1..m) \X Nat : x[2] + (IF x[1] - 1 >= k THEN w[x[1] - 1] ELSE 0) \in Nat
    <3> TAKE x \in (1..m) \X Nat
    <3>1. x[2] \in Nat /\ x[1] - 1 \in 0..n BY <1>1
    <3>2. w[x[1] - 1] \in Nat BY <3>1
    <3> QED BY <3>1, <3>2
  <2> QED BY <2>1
<1>3. \A i \in 1..m, v \in Nat : h[<<i, v>>] = v + (IF i - 1 >= k THEN w[i - 1] ELSE 0) OBVIOUS
<1> HIDE DEF h
<1>4. PICK g : Starts(Nat, 0, h, m, g) BY <1>2, StartsExist
<1>5. g \in [0..m -> Nat] /\ g[0] = 0 /\ \A i \in 0..(m - 1) : g[i + 1] = h[<<i + 1, g[i]>>] BY <1>4 DEF Starts, Step
<1>6. \A j \in 0..n : g[j + 1] = g[j] + (IF j >= k THEN w[j] ELSE 0)
  <2> TAKE j \in 0..n
  <2>1. j + 1 \in 1..m /\ j \in 0..m /\ (j + 1) - 1 = j /\ j \in 0..(m - 1) BY <1>1
  <2>2. g[j] \in Nat BY <1>5, <2>1
  <2>3. g[j + 1] = h[<<j + 1, g[j]>>] BY <1>5, <2>1
  <2> QED BY <1>3, <2>1, <2>2, <2>3
<1>7. g = SumEquation(w, k, n, g)
  <2>1. \A j \in 0..m : g[j] = IF j = 0 THEN 0 ELSE g[j - 1] + (IF j - 1 >= k THEN w[j - 1] ELSE 0)
    <3> TAKE j \in 0..m
    <3>1. CASE j = 0 BY <1>5, <3>1
    <3>2. CASE j # 0
      <4>1. j - 1 \in 0..n /\ (j - 1) + 1 = j BY <1>1, <3>2
      <4> QED BY <1>6, <3>2, <4>1
    <3> QED BY <3>1, <3>2
  <2> QED BY <1>1, <1>5, <2>1 DEF SumEquation
<1>8. PICK f : f = CHOOSE s : s = SumEquation(w, k, n, s) OBVIOUS
<1>9. f = SumEquation(w, k, n, f) BY <1>7, <1>8
<1>10. \A j \in 0..m : f[j] = IF j = 0 THEN 0 ELSE f[j - 1] + (IF j - 1 >= k THEN w[j - 1] ELSE 0)
  BY <1>1, <1>9 DEF SumEquation
<1>11. f[0] = g[0] BY <1>5, <1>10
<1>12. \A j \in 0..(m - 1) : f[j] = g[j] => f[j + 1] = g[j + 1]
  <2> TAKE j \in 0..(m - 1)
  <2>1. j + 1 \in 0..m /\ j + 1 # 0 /\ (j + 1) - 1 = j /\ j \in 0..n BY <1>1
  <2>2. f[j + 1] = f[j] + (IF j >= k THEN w[j] ELSE 0) BY <1>10, <2>1
  <2> QED BY <1>6, <2>1, <2>2
<1>13. f[n + 1] = g[n + 1]
  <2>1. Together(f, g, m) BY <1>12 DEF Together
  <2>2. f[m] = g[m] BY <1>11, <2>1, AgreeAtTheEnd
  <2> QED BY <1>1, <2>2
<1>14. SumFrom(w, k, n) = g[n + 1] BY <1>8, <1>13, SumFromIs
<1> QED BY <1>1, <1>5, <1>6, <1>14 DEF Sums

Odds(p, a, b) == [l \in Int |-> p * a[l - 1] + (Scale - p) * b[l]]
TailStart == [l \in Int |-> IF l <= 0 THEN 1 ELSE 0]
TailEquation(p, i, f) == [n \in 0..i |-> IF n = 0 THEN TailStart ELSE Odds(p[n], f[n - 1], f[n - 1])]

LEMMA AtLeastIs ==
  ASSUME NEW p, NEW i, NEW k
  PROVE  AtLeast(p, i, k) = (CHOOSE f : f = TailEquation(p, i, f))[i][k]
BY DEF AtLeast, TailEquation, Odds, TailStart

\* The tails of the first units, up to m.
TailsOf(p, m, g) ==
  /\ g \in [0..m -> [Int -> Nat]] /\ g[0] = TailStart
  /\ \A i \in 0..(m - 1) : g[i + 1] = Odds(p[i + 1], g[i], g[i])
  /\ \A i \in 0..m, k \in Int : AtLeast(p, i, k) = g[i][k]

LEMMA OddsAre ==
  ASSUME NEW p \in 0..Scale, NEW a \in [Int -> Nat], NEW b \in [Int -> Nat]
  PROVE  Odds(p, a, b) \in [Int -> Nat]
<1>1. ASSUME NEW l \in Int PROVE p * a[l - 1] + (Scale - p) * b[l] \in Nat
  <2>1. p \in Nat /\ Scale - p \in Nat /\ l - 1 \in Int BY FusionAssumption
  <2>2. PICK x \in Nat, y \in Nat, q \in Nat : x = a[l - 1] /\ y = b[l] /\ q = Scale - p BY <2>1
  <2>3. p * x \in Nat /\ q * y \in Nat BY <2>1
  <2> QED BY <2>2, <2>3
<1> QED BY <1>1 DEF Odds

LEMMA TailsAre ==
  ASSUME NEW m \in Nat, NEW p \in [1..m -> 0..Scale]
  PROVE  \E g : TailsOf(p, m, g)
<1>1. PICK S : S = [Int -> Nat] OBVIOUS
<1> DEFINE h == [x \in (1..m) \X S |-> Odds(p[x[1]], x[2], x[2])]
<1>2. h \in [(1..m) \X S -> S] BY <1>1, OddsAre
<1>3. \A i \in 1..m, v \in S : h[<<i, v>>] = Odds(p[i], v, v) OBVIOUS
<1> HIDE DEF h
<1>4. TailStart \in S BY <1>1 DEF TailStart
<1>5. PICK g : Starts(S, TailStart, h, m, g) BY <1>2, <1>4, StartsExist
<1>6. g \in [0..m -> S] /\ g[0] = TailStart /\ \A i \in 0..(m - 1) : g[i + 1] = h[<<i + 1, g[i]>>]
  BY <1>5 DEF Starts, Step
<1>7. \A i \in 0..(m - 1) : g[i + 1] = Odds(p[i + 1], g[i], g[i])
  <2> TAKE i \in 0..(m - 1)
  <2>1. i + 1 \in 1..m /\ i \in 0..m OBVIOUS
  <2> QED BY <1>3, <1>6, <2>1
<1>8. ASSUME NEW n \in 0..m, NEW k \in Int PROVE AtLeast(p, n, k) = g[n][k]
  <2>1. PICK e : e = [i \in 0..n |-> g[i]] OBVIOUS
  <2>2. e = TailEquation(p, n, e)
    <3>1. \A i \in 0..n : g[i] = IF i = 0 THEN TailStart ELSE Odds(p[i], g[i - 1], g[i - 1])
      <4> TAKE i \in 0..n
      <4>1. CASE i = 0 BY <1>6, <4>1
      <4>2. CASE i # 0
        <5>1. i - 1 \in 0..(m - 1) /\ (i - 1) + 1 = i BY <4>2
        <5> QED BY <1>7, <4>2, <5>1
      <4> QED BY <4>1, <4>2
    <3>2. \A i \in 0..n : i # 0 => i - 1 \in 0..n OBVIOUS
    <3> QED BY <2>1, <3>1, <3>2 DEF TailEquation
  <2>3. PICK f : f = CHOOSE t : t = TailEquation(p, n, t) OBVIOUS
  <2>4. f = TailEquation(p, n, f) BY <2>2, <2>3
  <2>5. \A i \in 0..n : f[i] = IF i = 0 THEN TailStart ELSE Odds(p[i], f[i - 1], f[i - 1])
    BY <2>4 DEF TailEquation
  <2>6. f[0] = g[0] BY <1>6, <2>5
  <2>7. \A i \in 0..(n - 1) : f[i] = g[i] => f[i + 1] = g[i + 1]
    <3> TAKE i \in 0..(n - 1)
    <3>1. i + 1 \in 0..n /\ i + 1 # 0 /\ (i + 1) - 1 = i /\ i \in 0..(m - 1) OBVIOUS
    <3>2. f[i + 1] = Odds(p[i + 1], f[i], f[i]) BY <2>5, <3>1
    <3> QED BY <1>7, <3>1, <3>2
  <2>8. n \in Nat OBVIOUS
  <2>9. Together(f, g, n) BY <2>7 DEF Together
  <2>10. f[n] = g[n] BY <2>6, <2>8, <2>9, AgreeAtTheEnd
  <2> QED BY <2>3, <2>10, AtLeastIs
<1> QED BY <1>1, <1>6, <1>7, <1>8 DEF TailsOf

\* A tail is a share of the whole.
LEMMA Shares ==
  ASSUME NEW p \in 0..Scale, NEW whole \in Nat, NEW x \in 0..whole, NEW y \in 0..whole
  PROVE  p * x + (Scale - p) * y \in 0..(Scale * whole)
<1>1. PICK q \in Nat : q = Scale - p /\ p \in Nat BY FusionAssumption
<1>2. p * x <= p * whole /\ p * x \in Nat BY <1>1
<1>3. q * y <= q * whole /\ q * y \in Nat BY <1>1
<1>4. p * whole + q * whole = Scale * whole
  <2>1. p + q = Scale BY <1>1, FusionAssumption
  <2>2. (p + q) * whole = p * whole + q * whole BY <1>1
  <2> QED BY <2>1, <2>2
<1>5. PICK a, b, A, B : a = p * x /\ b = q * y /\ A = p * whole /\ B = q * whole OBVIOUS
<1>6. a \in Nat /\ b \in Nat /\ A \in Nat /\ B \in Nat /\ a <= A /\ b <= B BY <1>1, <1>2, <1>3, <1>5
<1>7. a + b \in 0..(A + B) BY <1>6
<1> QED BY <1>1, <1>4, <1>5, <1>7

LEMMA TailsBounded ==
  ASSUME NEW m \in Nat, NEW p \in [1..m -> 0..Scale], NEW k \in Int
  PROVE  AtLeast(p, m, k) \in 0..Power(m) /\ Power(m) \in Nat \ {0}
<1>1. PICK g : TailsOf(p, m, g) BY TailsAre
<1>2. PICK P : Powers(m, P) BY PowersAre
<1> DEFINE Bad == {i \in Nat : i <= m /\ \E l \in Int : ~(g[i][l] \in 0..P[i])}
<1>3. g \in [0..m -> [Int -> Nat]] /\ g[0] = TailStart
      /\ \A i \in 0..(m - 1) : g[i + 1] = Odds(p[i + 1], g[i], g[i]) BY <1>1 DEF TailsOf
<1>4. P \in [0..m -> Nat \ {0}] /\ P[0] = 1 /\ \A i \in 0..(m - 1) : P[i + 1] = Scale * P[i] BY <1>2 DEF Powers
<1>5. ASSUME NEW i \in Bad PROVE i # 0 /\ i - 1 \in Bad
  <2>1. i \in Nat /\ i <= m OBVIOUS
  <2>2. PICK l \in Int : ~(g[i][l] \in 0..P[i]) OBVIOUS
  <2>3. i # 0
    <3>1. ASSUME i = 0 PROVE FALSE
      <4>1. TailStart[l] \in 0..1 BY DEF TailStart
      <4> QED BY <1>3, <1>4, <2>2, <3>1, <4>1
    <3> QED BY <3>1
  <2>4. PICK j \in Nat : j = i - 1 BY <2>1, <2>3
  <2>5. j \in 0..(m - 1) /\ j + 1 = i /\ j \in 0..m /\ i \in 1..m BY <2>1, <2>3, <2>4
  <2>6. g[i] = Odds(p[i], g[j], g[j]) /\ P[i] = Scale * P[j] BY <1>3, <1>4, <2>5
  <2>7. g[i][l] = p[i] * g[j][l - 1] + (Scale - p[i]) * g[j][l] BY <2>6 DEF Odds
  <2>8. p[i] \in 0..Scale /\ P[j] \in Nat BY <1>4, <2>5
  <2>9. ~(g[j][l - 1] \in 0..P[j] /\ g[j][l] \in 0..P[j])
    <3>1. PICK q, W, x, y : q = p[i] /\ W = P[j] /\ x = g[j][l - 1] /\ y = g[j][l] OBVIOUS
    <3>2. q \in 0..Scale /\ W \in Nat BY <2>8, <3>1
    <3>3. x \in 0..W /\ y \in 0..W => q * x + (Scale - q) * y \in 0..(Scale * W) BY <3>2, Shares
    <3>4. ~(q * x + (Scale - q) * y \in 0..(Scale * W)) BY <2>2, <2>6, <2>7, <3>1
    <3> QED BY <3>1, <3>3, <3>4
  <2>10. l - 1 \in Int OBVIOUS
  <2>11. \E l2 \in Int : ~(g[j][l2] \in 0..P[j]) BY <2>9, <2>10
  <2> QED BY <2>3, <2>4, <2>5, <2>11
<1>6. Bad = {}
  <2>1. Bad \in SUBSET Nat OBVIOUS
  <2> HIDE DEF Bad
  <2> QED BY <1>5, <2>1, NoException
<1>7. m \in 0..m OBVIOUS
<1>8. AtLeast(p, m, k) = g[m][k] BY <1>1, <1>7 DEF TailsOf
<1>9. Power(m) = P[m] /\ P[m] \in Nat \ {0} BY <1>2, <1>7 DEF Powers
<1>10. g[m][k] \in 0..P[m] BY <1>6
<1> QED BY <1>8, <1>9, <1>10

LEMMA Spread ==
  ASSUME NEW a \in Int, NEW b \in Int, NEW c \in Int
  PROVE  a * (b + c) = a * b + a * c
OBVIOUS

\* What one more unit adds to a tail, when no more than i units are counted yet.
LEMMA ShiftedSums ==
  ASSUME NEW n \in Nat, NEW i \in 0..(n - 1), NEW w \in [0..n -> Nat], NEW p \in 0..Scale, NEW k \in Int,
         \A j \in 0..n : j > i => w[j] = 0
  PROVE  /\ Shifted(w, i, p) \in [0..n -> Nat]
         /\ \A j \in 0..n : j > i + 1 => Shifted(w, i, p)[j] = 0
         /\ SumFrom(Shifted(w, i, p), k, n) = p * SumFrom(w, k - 1, n) + (Scale - p) * SumFrom(w, k, n)
<1>1. PICK q \in Nat : q = Scale - p /\ p \in Nat BY FusionAssumption
<1>2. PICK v : v = Shifted(w, i, p) OBVIOUS
<1>3. \A j \in 0..n : v[j] = (IF j <= i THEN w[j] * q ELSE 0) + (IF j \in 1..(i + 1) THEN w[j - 1] * p ELSE 0)
  BY <1>1, <1>2 DEF Shifted
<1>4. \A a, b \in Nat : a * b \in Nat /\ a * b = b * a OBVIOUS
<1>5. ASSUME NEW j \in 0..n
      PROVE  v[j] = q * w[j] + (IF j = 0 THEN 0 ELSE p * w[j - 1]) /\ v[j] \in Nat
  <2>1. w[j] \in Nat BY <1>5
  <2>2. (IF j <= i THEN w[j] * q ELSE 0) = q * w[j]
    <3>1. CASE j <= i BY <1>1, <1>4, <2>1, <3>1
    <3>2. CASE ~(j <= i)
      <4>1. w[j] = 0 BY <1>5, <3>2
      <4> QED BY <1>1, <3>2, <4>1
    <3> QED BY <3>1, <3>2
  <2>3. (IF j \in 1..(i + 1) THEN w[j - 1] * p ELSE 0) = IF j = 0 THEN 0 ELSE p * w[j - 1]
    <3>1. CASE j = 0 BY <3>1
    <3>2. CASE j \in 1..(i + 1)
      <4>1. j - 1 \in 0..n BY <3>2
      <4>2. w[j - 1] \in Nat BY <4>1
      <4> QED BY <1>1, <1>4, <3>2, <4>2
    <3>3. CASE j > i + 1
      <4>1. j - 1 \in 0..n /\ j - 1 > i BY <3>3
      <4>2. w[j - 1] = 0 BY <4>1
      <4>3. p * 0 = 0 BY <1>1
      <4> QED BY <3>3, <4>2, <4>3
    <3> QED BY <1>5, <3>1, <3>2, <3>3
  <2>4. q * w[j] \in Nat BY <1>1, <1>4, <2>1
  <2>5. j # 0 => p * w[j - 1] \in Nat
    <3>1. ASSUME j # 0 PROVE j - 1 \in 0..n BY <3>1
    <3> QED BY <1>1, <1>4, <3>1
  <2>6. v[j] = q * w[j] + (IF j = 0 THEN 0 ELSE p * w[j - 1]) BY <1>3, <2>2, <2>3
  <2>7. PICK x, y : x = q * w[j] /\ y = (IF j = 0 THEN 0 ELSE p * w[j - 1]) OBVIOUS
  <2>8. x \in Nat /\ y \in Nat /\ v[j] = x + y BY <2>4, <2>5, <2>6, <2>7
  <2> QED BY <2>6, <2>8
<1>6. v \in [0..n -> Nat]
  <2>1. v = [j \in 0..n |-> v[j]] BY <1>2 DEF Shifted
  <2> QED BY <1>5, <2>1
<1>7. ASSUME NEW j \in 0..n, j > i + 1 PROVE v[j] = 0
  <2>1. ~(j <= i) /\ ~(j \in 1..(i + 1)) BY <1>7
  <2>2. v[j] = 0 + 0 BY <1>3, <2>1
  <2> QED BY <2>2
<1>8. PICK sv : Sums(v, k, n, sv) BY <1>6, SumsAre
<1>9. PICK a : Sums(w, k - 1, n, a) BY SumsAre
<1>10. PICK b : Sums(w, k, n, b) BY SumsAre
<1>11. /\ sv \in [0..(n + 1) -> Nat] /\ sv[0] = 0
       /\ \A j \in 0..n : sv[j + 1] = sv[j] + (IF j >= k THEN v[j] ELSE 0) BY <1>8 DEF Sums
<1>12. /\ a \in [0..(n + 1) -> Nat] /\ a[0] = 0
       /\ \A j \in 0..n : a[j + 1] = a[j] + (IF j >= k - 1 THEN w[j] ELSE 0) BY <1>9 DEF Sums
<1>13. /\ b \in [0..(n + 1) -> Nat] /\ b[0] = 0
       /\ \A j \in 0..n : b[j + 1] = b[j] + (IF j >= k THEN w[j] ELSE 0) BY <1>10 DEF Sums
<1>25. PICK want : want = [j \in 0..(n + 1) |-> q * b[j] + (IF j = 0 THEN 0 ELSE p * a[j - 1])] OBVIOUS
<1>14. \A j \in 0..(n + 1) : want[j] = q * b[j] + (IF j = 0 THEN 0 ELSE p * a[j - 1]) BY <1>25
<1>15. sv[0] = want[0]
  <2>1. 0 \in 0..(n + 1) OBVIOUS
  <2>2. q * b[0] = 0 BY <1>1, <1>13
  <2>3. want[0] = q * b[0] + 0 BY <1>14, <2>1
  <2> QED BY <1>11, <2>2, <2>3
<1>16. ASSUME NEW j \in 0..n, sv[j] = want[j] PROVE sv[j + 1] = want[j + 1]
  <2>1. j + 1 \in 0..(n + 1) /\ j + 1 # 0 /\ (j + 1) - 1 = j /\ j \in 0..(n + 1) OBVIOUS
  <2>2. PICK y, u : y = b[j] /\ u = w[j] OBVIOUS
  <2>3. y \in Nat /\ u \in Nat /\ a[j] \in Nat BY <1>12, <1>13, <2>1, <2>2
  <2>4. want[j + 1] = q * b[j + 1] + p * a[j] BY <1>14, <2>1
  <2>5. q * b[j + 1] = q * y + (IF j >= k THEN q * u ELSE 0)
    <3>1. CASE j >= k
      <4>1. b[j + 1] = y + u BY <1>13, <2>2, <3>1
      <4>2. q * (y + u) = q * y + q * u BY <1>1, <2>3, Spread
      <4> QED BY <3>1, <4>1, <4>2
    <3>2. CASE ~(j >= k)
      <4>1. b[j + 1] = y + 0 BY <1>13, <2>2, <3>2
      <4>2. b[j + 1] = y BY <2>3, <4>1
      <4>3. q * y \in Nat BY <1>1, <1>4, <2>3
      <4> QED BY <3>2, <4>2, <4>3
    <3> QED BY <3>1, <3>2
  <2>6. sv[j + 1] = want[j] + (IF j >= k THEN v[j] ELSE 0) BY <1>11, <1>16
  <2>7. q * y \in Nat /\ q * u \in Nat /\ p * a[j] \in Nat BY <1>1, <1>4, <2>3
  <2>8. CASE j = 0
    <3>1. a[j] = 0 /\ p * 0 = 0 /\ y = 0 BY <1>1, <1>12, <1>13, <2>2, <2>8
    <3>2. want[j] = q * y + 0 BY <1>14, <2>1, <2>2, <2>8
    <3>3. v[j] = q * u + 0 BY <1>5, <2>2, <2>8
    <3>4. want[j + 1] = q * b[j + 1] + 0 BY <2>4, <3>1
    <3> QED BY <2>5, <2>6, <2>7, <3>2, <3>3, <3>4
  <2>9. CASE j # 0
    <3>1. j - 1 \in 0..n /\ (j - 1) + 1 = j /\ j - 1 \in 0..(n + 1) BY <2>9
    <3>2. PICK x, t : x = a[j - 1] /\ t = w[j - 1] OBVIOUS
    <3>3. x \in Nat /\ t \in Nat BY <1>12, <3>1, <3>2
    <3>4. want[j] = q * y + p * x BY <1>14, <2>1, <2>2, <2>9, <3>2
    <3>5. v[j] = q * u + p * t BY <1>5, <2>2, <2>9, <3>2
    <3>6. a[j] = x + (IF j - 1 >= k - 1 THEN t ELSE 0) BY <1>12, <3>1, <3>2
    <3>7. p * x \in Nat /\ p * t \in Nat BY <1>1, <1>4, <3>3
    <3>8. CASE j >= k
      <4>1. a[j] = x + t BY <3>6, <3>8
      <4>2. p * (x + t) = p * x + p * t BY <1>1, <3>3, Spread
      <4>3. want[j + 1] = (q * y + q * u) + (p * x + p * t) BY <2>4, <2>5, <3>8, <4>1, <4>2
      <4>4. sv[j + 1] = (q * y + p * x) + (q * u + p * t) BY <2>6, <3>4, <3>5, <3>8
      <4> QED BY <2>7, <3>7, <4>3, <4>4
    <3>9. CASE ~(j >= k)
      <4>1. a[j] = x BY <3>3, <3>6, <3>9
      <4>2. want[j + 1] = (q * y + 0) + p * x BY <2>4, <2>5, <3>9, <4>1
      <4>3. sv[j + 1] = (q * y + p * x) + 0 BY <2>6, <3>4, <3>9
      <4> QED BY <2>7, <3>7, <4>2, <4>3
    <3> QED BY <3>8, <3>9
  <2> QED BY <2>8, <2>9
<1>17. sv[n + 1] = want[n + 1]
  <2>1. PICK m \in Nat : m = n + 1 OBVIOUS
  <2>2. Together(sv, want, m) BY <1>16, <2>1 DEF Together
  <2>3. sv[m] = want[m] BY <1>15, <2>2, AgreeAtTheEnd
  <2> QED BY <2>1, <2>3
<1>18. want[n + 1] = q * b[n + 1] + p * a[n] BY <1>14
<1>19. a[n + 1] = a[n]
  <2>1. w[n] = 0 /\ n \in 0..n /\ n \in 0..(n + 1) OBVIOUS
  <2>2. a[n] \in Nat BY <1>12, <2>1
  <2>3. a[n + 1] = a[n] + 0 BY <1>12, <2>1
  <2> QED BY <2>2, <2>3
<1>20. n + 1 \in 0..(n + 1) OBVIOUS
<1>21. SumFrom(v, k, n) = sv[n + 1] /\ SumFrom(w, k - 1, n) = a[n + 1] /\ SumFrom(w, k, n) = b[n + 1]
  BY <1>8, <1>9, <1>10 DEF Sums
<1>22. a[n + 1] \in Nat /\ b[n + 1] \in Nat BY <1>12, <1>13, <1>20
<1>23. q * b[n + 1] \in Nat /\ p * a[n + 1] \in Nat BY <1>1, <1>4, <1>22
<1>24. SumFrom(v, k, n) = p * a[n + 1] + q * b[n + 1] BY <1>17, <1>18, <1>19, <1>21, <1>23
<1> QED BY <1>1, <1>2, <1>6, <1>7, <1>21, <1>24

-----------------------------------------------------------------------------
(* What the chances come to.                                                 *)

Chances(f, cs) == [c \in 1..Len(cs) |-> Frechet(f, cs[c].members)]

\* w is the distribution of how many of the first u - 1 of n units commit.
Distribution(p, u, n, w) ==
  /\ w \in [0..n -> Nat]
  /\ \A j \in 0..n : j >= u => w[j] = 0
  /\ \A k \in Int : SumFrom(w, k, n) = AtLeast(p, u - 1, k)

Combined(f, cs, u, w, o) ==
  /\ u \in 1..(Len(cs) + 1)
  /\ f.op = "quorum" => Distribution(Chances(f, cs), u, Len(cs), w)
  /\ o.yes \in Nat \ {0} /\ o.no \in Nat \ {0}

QuorumInv ==
  /\ ClusterInv
  /\ stage \in {"cover", "TypeError", "union", "collect"} => odds = [yes |-> 1, no |-> 1]
  /\ stage = "combine" => Combined(fusion, clusters, unit, dp, odds)
  /\ QuorumIsExact

LEMMA ChancesAre ==
  ASSUME NEW f \in Fusions, NEW root, NEW cs, Sorted(cs, root, Len(f.names))
  PROVE  Len(cs) \in Nat /\ Chances(f, cs) \in [1..Len(cs) -> 0..Scale]
<1>1. PICK n \in Nat : n = Len(f.names) /\ f.probs \in Seq(0..Scale) /\ Len(f.probs) = n BY FusionIs
<1>2. cs \in Seq([root : Nat, members : SUBSET Nat]) BY DEF Sorted
<1>3. Len(cs) \in Nat /\ DOMAIN cs = 1..Len(cs) BY <1>2
<1>4. ASSUME NEW c \in 1..Len(cs) PROVE Frechet(f, cs[c].members) \in 0..Scale
  <2>1. cs[c].members \subseteq 1..n /\ cs[c].members # {} BY <1>1, <1>3 DEF Sorted
  <2>2. PICK P : P = {f.probs[i] : i \in cs[c].members} OBVIOUS
  <2>3. \A i \in 1..n : f.probs[i] \in 0..Scale
    <3>1. PICK probs, R : probs = f.probs /\ R = 0..Scale OBVIOUS
    <3>2. probs \in Seq(R) /\ Len(probs) = n BY <1>1, <3>1
    <3>3. DOMAIN probs = 1..n BY <3>2
    <3>4. \A i \in 1..n : probs[i] \in R BY <3>2, <3>3
    <3> QED BY <3>1, <3>4
  <2>4. P # {} /\ P \subseteq 0..Scale BY <2>1, <2>2, <2>3
  <2>5. Least(P) \in P /\ Greatest(P) \in P
    <3>1. P \in SUBSET Nat /\ P \in SUBSET (0..Scale) /\ Scale \in Nat BY <2>4, FusionAssumption
    <3> QED BY <2>4, <3>1, LeastIs, GreatestIs
  <2>6. Frechet(f, cs[c].members) \in {Least(P), Greatest(P)} BY <2>2 DEF Frechet
  <2> QED BY <2>4, <2>5, <2>6
<1> QED BY <1>3, <1>4 DEF Chances

\* No unit yet: none of them commits.
LEMMA NoUnits ==
  ASSUME NEW n \in Nat, NEW p \in [1..n -> 0..Scale]
  PROVE  Distribution(p, 1, n, [j \in 0..n |-> IF j = 0 THEN 1 ELSE 0])
<1>1. PICK w : w = [j \in 0..n |-> IF j = 0 THEN 1 ELSE 0] OBVIOUS
<1>2. w \in [0..n -> Nat] /\ w[0] = 1 /\ \A j \in 0..n : j # 0 => w[j] = 0 BY <1>1
<1>3. ASSUME NEW k \in Int PROVE SumFrom(w, k, n) = AtLeast(p, 0, k)
  <2>1. PICK g : Sums(w, k, n, g) BY <1>2, SumsAre
  <2>2. /\ g \in [0..(n + 1) -> Nat] /\ g[0] = 0 /\ SumFrom(w, k, n) = g[n + 1]
        /\ \A j \in 0..n : g[j + 1] = g[j] + (IF j >= k THEN w[j] ELSE 0) BY <2>1 DEF Sums
  <2>3. PICK first : first = [j \in 0..(n + 1) |-> IF j = 0 THEN 0 ELSE TailStart[k]] OBVIOUS
  <2>4. TailStart[k] = (IF k <= 0 THEN 1 ELSE 0) BY DEF TailStart
  <2>5. ASSUME NEW j \in 0..n, g[j] = first[j] PROVE g[j + 1] = first[j + 1]
    <3>1. j + 1 \in 0..(n + 1) /\ j + 1 # 0 /\ j \in 0..(n + 1) OBVIOUS
    <3>2. first[j + 1] = TailStart[k] BY <2>3, <3>1
    <3>3. g[j + 1] = first[j] + (IF j >= k THEN w[j] ELSE 0) BY <2>2, <2>5
    <3>4. CASE j = 0
      <4>1. first[j] = 0 BY <2>3, <3>1, <3>4
      <4>2. (IF j >= k THEN w[j] ELSE 0) = TailStart[k] BY <1>2, <2>4, <3>4
      <4> QED BY <2>4, <3>2, <3>3, <4>1, <4>2
    <3>5. CASE j # 0
      <4>1. first[j] = TailStart[k] BY <2>3, <3>1, <3>5
      <4>2. (IF j >= k THEN w[j] ELSE 0) = 0 BY <1>2, <3>5
      <4> QED BY <2>4, <3>2, <3>3, <4>1, <4>2
    <3> QED BY <3>4, <3>5
  <2>6. PICK m \in Nat : m = n + 1 OBVIOUS
  <2>7. Together(g, first, m) BY <2>5, <2>6 DEF Together
  <2>8. g[0] = first[0] BY <2>2, <2>3
  <2>9. g[m] = first[m] BY <2>7, <2>8, AgreeAtTheEnd
  <2>10. first[m] = TailStart[k] BY <2>3, <2>6
  <2>11. PICK t : TailsOf(p, n, t) BY TailsAre
  <2>12. AtLeast(p, 0, k) = TailStart[k]
    <3>1. 0 \in 0..n OBVIOUS
    <3> QED BY <2>11, <3>1 DEF TailsOf
  <2> QED BY <2>2, <2>6, <2>9, <2>10, <2>12
<1>4. \A j \in 0..n : j >= 1 => w[j] = 0 BY <1>2
<1>5. 1 - 1 = 0 OBVIOUS
<1>6. Distribution(p, 1, n, w) BY <1>2, <1>3, <1>4, <1>5 DEF Distribution
<1> QED BY <1>1, <1>6

\* One more unit.
LEMMA UnitAdded ==
  ASSUME NEW n \in Nat, NEW p \in [1..n -> 0..Scale], NEW u \in 1..n, NEW w, Distribution(p, u, n, w)
  PROVE  Distribution(p, u + 1, n, Shifted(w, u - 1, p[u]))
<1>1. PICK i \in Nat : i = u - 1 OBVIOUS
<1>2. PICK q : q = p[u] OBVIOUS
<1>3. /\ i \in 0..(n - 1) /\ i + 1 = u /\ q \in 0..Scale
      /\ w \in [0..n -> Nat] /\ \A j \in 0..n : j > i => w[j] = 0
      /\ \A k \in Int : SumFrom(w, k, n) = AtLeast(p, i, k)
  BY <1>1, <1>2 DEF Distribution
<1>4. PICK v : v = Shifted(w, i, q) OBVIOUS
<1>5. v \in [0..n -> Nat] /\ \A j \in 0..n : j > i + 1 => v[j] = 0
  <2>1. -1 \in Int OBVIOUS
  <2> QED BY <1>3, <1>4, <2>1, ShiftedSums
<1>6. PICK g : TailsOf(p, n, g) BY TailsAre
<1>7. ASSUME NEW k \in Int PROVE SumFrom(v, k, n) = AtLeast(p, i + 1, k)
  <2>1. SumFrom(v, k, n) = q * SumFrom(w, k - 1, n) + (Scale - q) * SumFrom(w, k, n) BY <1>3, <1>4, ShiftedSums
  <2>2. k - 1 \in Int /\ i \in 0..n /\ i + 1 \in 0..n BY <1>3
  <2>3. SumFrom(w, k - 1, n) = g[i][k - 1] /\ SumFrom(w, k, n) = g[i][k] BY <1>3, <1>6, <2>2 DEF TailsOf
  <2>4. g[i + 1] = Odds(q, g[i], g[i]) BY <1>2, <1>3, <1>6 DEF TailsOf
  <2>5. g[i + 1][k] = q * g[i][k - 1] + (Scale - q) * g[i][k] BY <2>4 DEF Odds
  <2>6. AtLeast(p, i + 1, k) = g[i + 1][k] BY <1>6, <2>2 DEF TailsOf
  <2> QED BY <2>1, <2>3, <2>5, <2>6
<1>8. (u + 1) - 1 = i + 1 /\ \A j \in 0..n : j >= u + 1 => v[j] = 0 BY <1>3, <1>5
<1>9. Distribution(p, u + 1, n, v) BY <1>5, <1>7, <1>8 DEF Distribution
<1> QED BY <1>1, <1>2, <1>4, <1>9

\* What an action that fuses nothing yet leaves of the invariant.
LEMMA EarlyKeeps ==
  ASSUME QuorumInv, ClusterInv', UNCHANGED odds,
         stage \in {"cover", "TypeError", "union", "collect"}, stage' \in {"cover", "TypeError", "union", "collect"}
  PROVE  QuorumInv'
BY DEF QuorumInv, QuorumIsExact

LEMMA ClustersSorted ==
  ASSUME ClusterInv, stage \in {"combine", "done"} \/ (stage = "collect" /\ unit > Len(fusion.names))
  PROVE  /\ fusion \in Fusions /\ Len(clusters) \in Nat
         /\ Chances(fusion, clusters) \in [1..Len(clusters) -> 0..Scale]
<1>1. fusion \in Fusions BY DEF ClusterInv, Shape
<1>2. Seen = Len(fusion.names)
  <2>1. CASE stage \in {"combine", "done"} BY <2>1 DEF Seen
  <2>2. CASE stage = "collect" /\ unit > Len(fusion.names)
    <3>1. unit \in Nat /\ unit <= Len(fusion.names) + 1 /\ Len(fusion.names) \in Nat
      BY <1>1, <2>2, FusionIs DEF ClusterInv, Shape
    <3> QED BY <2>2, <3>1 DEF Seen
  <2> QED BY <2>1, <2>2
<1>3. PICK root, rank : Clustering(fusion, parent, group, unit, clusters, Len(fusion.names), root, rank)
  BY <1>2 DEF ClusterInv
<1>4. Sorted(clusters, root, Len(fusion.names)) BY <1>3 DEF Clustering
<1>5. PICK f, cs : f = fusion /\ cs = clusters OBVIOUS
<1>6. f \in Fusions /\ Sorted(cs, root, Len(f.names)) BY <1>1, <1>4, <1>5
<1>7. Len(cs) \in Nat /\ Chances(f, cs) \in [1..Len(cs) -> 0..Scale] BY <1>6, ChancesAre
<1> QED BY <1>1, <1>5, <1>7

LEMMA CollectedCombines == QuorumInv /\ Collected => QuorumInv'
<1> SUFFICES ASSUME QuorumInv, Collected PROVE QuorumInv' OBVIOUS
<1>1. ClusterInv' BY CollectedKeeps DEF QuorumInv
<1>2. Len(clusters) \in Nat /\ Chances(fusion, clusters) \in [1..Len(clusters) -> 0..Scale]
  BY ClustersSorted DEF QuorumInv, Collected
<1>3. PICK n, p : n = Len(clusters) /\ p = Chances(fusion, clusters) OBVIOUS
<1>4. Distribution(p, 1, n, [j \in 0..n |-> IF j = 0 THEN 1 ELSE 0]) BY <1>2, <1>3, NoUnits
<1>5. Combined(fusion, clusters, 1, dp', odds)
  <2>1. odds.yes = 1 /\ odds.no = 1 BY DEF QuorumInv, Collected
  <2>2. 1 \in 1..(n + 1) BY <1>2, <1>3
  <2>3. dp' = [j \in 0..n |-> IF j = 0 THEN 1 ELSE 0] BY <1>3 DEF Collected
  <2> QED BY <1>3, <1>4, <2>1, <2>2, <2>3 DEF Combined
<1>6. unit' = 1 /\ stage' = "combine" /\ UNCHANGED <<fusion, clusters, odds>> BY DEF Collected
<1> QED BY <1>1, <1>5, <1>6 DEF QuorumInv, QuorumIsExact

LEMMA ClampedIs ==
  ASSUME NEW p \in 0..Scale
  PROVE  Clamped(p) \in Nat \ {0} /\ Scale - Clamped(p) \in Nat \ {0}
BY FusionAssumption DEF Clamped

LEMMA AddUnitCombines == QuorumInv /\ AddUnit => QuorumInv'
<1> SUFFICES ASSUME QuorumInv, AddUnit PROVE QuorumInv' OBVIOUS
<1>1. ClusterInv' BY CombineKeeps DEF QuorumInv
<1>2. Len(clusters) \in Nat /\ Chances(fusion, clusters) \in [1..Len(clusters) -> 0..Scale]
  BY ClustersSorted DEF QuorumInv, AddUnit
<1>3. PICK n, p, u, w : n = Len(clusters) /\ p = Chances(fusion, clusters) /\ u = unit /\ w = dp OBVIOUS
<1>4. Combined(fusion, clusters, unit, dp, odds) BY DEF QuorumInv, AddUnit
<1>5. n \in Nat /\ p \in [1..n -> 0..Scale] /\ u \in 1..n BY <1>2, <1>3, <1>4 DEF Combined, AddUnit
<1>6. Probability(unit) = p[u]
  <2>1. p[u] = Frechet(fusion, clusters[u].members) BY <1>3, <1>5 DEF Chances
  <2> QED BY <1>3, <2>1 DEF Probability
<1>7. PICK q : q = p[u] OBVIOUS
<1>8. q \in 0..Scale BY <1>5, <1>7
<1>9. unit' = u + 1 /\ UNCHANGED <<fusion, clusters, stage>> /\ stage = "combine" BY <1>3 DEF AddUnit
<1>10. fusion.op = "quorum" => Distribution(p, u + 1, n, dp') /\ odds' = odds
  <2>1. SUFFICES ASSUME fusion.op = "quorum" PROVE Distribution(p, u + 1, n, dp') /\ odds' = odds OBVIOUS
  <2>2. Distribution(p, u, n, w) BY <1>3, <1>4, <2>1 DEF Combined
  <2>3. Distribution(p, u + 1, n, Shifted(w, u - 1, p[u])) BY <1>5, <2>2, UnitAdded
  <2>4. dp' = Shifted(w, u - 1, p[u]) /\ odds' = odds BY <1>3, <1>6, <2>1 DEF AddUnit
  <2> QED BY <2>3, <2>4
<1>11. fusion.op # "quorum" => odds'.yes \in Nat \ {0} /\ odds'.no \in Nat \ {0}
  <2>1. SUFFICES ASSUME fusion.op # "quorum" PROVE odds'.yes \in Nat \ {0} /\ odds'.no \in Nat \ {0} OBVIOUS
  <2>2. odds' = [yes |-> odds.yes * Clamped(q), no |-> odds.no * (Scale - Clamped(q))] BY <1>6, <1>7, <2>1 DEF AddUnit
  <2>3. Clamped(q) \in Nat \ {0} /\ Scale - Clamped(q) \in Nat \ {0} BY <1>8, ClampedIs
  <2>4. odds.yes \in Nat \ {0} /\ odds.no \in Nat \ {0} BY <1>4 DEF Combined
  <2>5. odds.yes * Clamped(q) \in Nat \ {0} BY <2>3, <2>4, Positive
  <2>6. odds.no * (Scale - Clamped(q)) \in Nat \ {0} BY <2>3, <2>4, Positive
  <2> QED BY <2>2, <2>5, <2>6
<1>12. odds'.yes \in Nat \ {0} /\ odds'.no \in Nat \ {0} BY <1>4, <1>10, <1>11 DEF Combined
<1>13. u + 1 \in 1..(n + 1) BY <1>5
<1>14. Combined(fusion, clusters, u + 1, dp', odds') BY <1>3, <1>10, <1>12, <1>13 DEF Combined
<1> QED BY <1>1, <1>9, <1>14 DEF QuorumInv, QuorumIsExact

LEMMA FusedIsExact == QuorumInv /\ Fused => QuorumInv'
<1> SUFFICES ASSUME QuorumInv, Fused PROVE QuorumInv' OBVIOUS
<1>1. ClusterInv' BY CombineKeeps DEF QuorumInv
<1>2. Len(clusters) \in Nat /\ Chances(fusion, clusters) \in [1..Len(clusters) -> 0..Scale] /\ fusion \in Fusions
  BY ClustersSorted DEF QuorumInv, Fused
<1>3. PICK n, p : n = Len(clusters) /\ p = Chances(fusion, clusters) OBVIOUS
<1>4. Combined(fusion, clusters, unit, dp, odds) BY DEF QuorumInv, Fused
<1>5. n \in Nat /\ p \in [1..n -> 0..Scale] /\ fusion.k \in Nat BY <1>2, <1>3, FusionIs
<1>6. unit - 1 = n /\ stage' = "done" /\ UNCHANGED <<fusion, clusters>> BY <1>3, <1>4, <1>5 DEF Combined, Fused
<1>7. fused'.den > 0 /\ fused'.num \in 0..fused'.den /\ (fusion.op = "quorum" => fused'.num = AtLeast(p, n, fusion.k))
  <2>1. CASE fusion.op = "quorum"
    <3>1. fused' = [num |-> SumFrom(dp, fusion.k, n), den |-> Power(n)] BY <1>3, <2>1 DEF Fused
    <3>2. SumFrom(dp, fusion.k, n) = AtLeast(p, n, fusion.k) BY <1>3, <1>4, <1>5, <1>6, <2>1 DEF Combined, Distribution
    <3>3. PICK k : k = fusion.k OBVIOUS
    <3>4. AtLeast(p, n, k) \in 0..Power(n) /\ Power(n) \in Nat \ {0}
      <4>1. k \in Int BY <1>5, <3>3
      <4> QED BY <1>5, <4>1, TailsBounded
    <3> QED BY <3>1, <3>2, <3>3, <3>4
  <2>2. CASE fusion.op # "quorum"
    <3>1. CASE n = 0
      <4>1. fused' = [num |-> 0, den |-> 1] BY <1>3, <2>2, <3>1 DEF Fused
      <4> QED BY <2>2, <4>1
    <3>2. CASE n = 1
      <4>1. fused' = [num |-> Probability(1), den |-> Scale] BY <1>3, <2>2, <3>2 DEF Fused
      <4>2. Probability(1) = p[1] BY <1>3, <3>2 DEF Probability, Chances
      <4>3. p[1] \in 0..Scale BY <1>5, <3>2
      <4>4. Scale > 0 BY FusionAssumption
      <4> QED BY <2>2, <4>1, <4>2, <4>3, <4>4
    <3>3. CASE n # 0 /\ n # 1
      <4>1. fused' = [num |-> odds.yes, den |-> odds.yes + odds.no] BY <1>3, <2>2, <3>3 DEF Fused
      <4>2. odds.yes \in Nat \ {0} /\ odds.no \in Nat \ {0} BY <1>4 DEF Combined
      <4> QED BY <2>2, <4>1, <4>2
    <3> QED BY <3>1, <3>2, <3>3
  <2> QED BY <2>1, <2>2
<1>8. Chances(fusion, clusters) = [c \in 1..Len(clusters) |-> Probability(c)] BY DEF Chances, Probability
<1>9. QuorumIsExact' BY <1>3, <1>6, <1>7, <1>8 DEF QuorumIsExact, Probability
<1> QED BY <1>1, <1>6, <1>9 DEF QuorumInv

LEMMA QuorumInit == FusionInit => QuorumInv
<1> SUFFICES ASSUME FusionInit PROVE QuorumInv OBVIOUS
<1>1. ClusterInv BY ClusterInit
<1>2. stage = "cover" /\ odds = [yes |-> 1, no |-> 1] BY DEF FusionInit
<1> QED BY <1>1, <1>2 DEF QuorumInv, QuorumIsExact

LEMMA QuorumStep == QuorumInv /\ [FusionNext]_fusionVars => QuorumInv'
<1> SUFFICES ASSUME QuorumInv, [FusionNext]_fusionVars PROVE QuorumInv' OBVIOUS
<1>1. ClusterInv' BY ClusterStep DEF QuorumInv
<1>2. CASE Cover BY <1>1, <1>2, EarlyKeeps DEF Cover
<1>3. CASE Unite BY <1>1, <1>3, EarlyKeeps DEF Unite
<1>4. CASE United BY <1>1, <1>4, EarlyKeeps DEF United
<1>5. CASE Collect BY <1>1, <1>5, EarlyKeeps DEF Collect
<1>6. CASE Collected BY <1>6, CollectedCombines
<1>7. CASE AddUnit BY <1>7, AddUnitCombines
<1>8. CASE Fused BY <1>8, FusedIsExact
<1>9. CASE UNCHANGED fusionVars
  <2>1. QuorumIsExact' BY <1>9 DEF QuorumInv, QuorumIsExact, fusionVars, Probability
  <2> QED BY <1>1, <1>9, <2>1 DEF QuorumInv, fusionVars
<1> QED BY <1>2, <1>3, <1>4, <1>5, <1>6, <1>7, <1>8, <1>9 DEF FusionNext

\* Dependence counts once, in full, and a quorum's probability is exactly the
\* chance that at least k of its units commit: for any credences, any
\* probabilities and any declared dependence.
THEOREM FusedExactly == FusionSpec => []FusionIsExact
<1>1. FusionInit => QuorumInv BY QuorumInit
<1>2. QuorumInv /\ [FusionNext]_fusionVars => QuorumInv' BY QuorumStep
<1>3. QuorumInv => FusionIsExact BY ClustersOnce DEF QuorumInv, FusionIsExact
<1> QED BY <1>1, <1>2, <1>3, PTL DEF FusionSpec
=============================================================================
