----------------------------- MODULE GateRules -----------------------------
(* The arithmetic of the decision gate: how a rule collapses the scores of   *)
(* a Credence (interp.ts collapse, conformalCollapse), what evalGate binds   *)
(* to the protected evidence of the judgement, and what validateBinding of   *)
(* the evidence store accepts.  Scores are integers in units of 1 / Unit.    *)
EXTENDS Naturals, Integers, Sequences, FiniteSets

CONSTANTS
    VariantOrder,   \* the variants of the enum, a sequence in declared order
    Unit,           \* the integer that stands for probability 1
    Pool            \* the calibration pool: a sequence of labelled cases

ASSUME VariantsAreDistinct ==
    /\ VariantOrder \in Seq({VariantOrder[i] : i \in DOMAIN VariantOrder})
    /\ VariantOrder # << >>
    /\ \A i, j \in DOMAIN VariantOrder :
           VariantOrder[i] = VariantOrder[j] => i = j

ASSUME UnitIsPositive == Unit \in Nat \ {0}

Abstained == "abstained"
Undefined == -1     \* a directive the rule does not give

Variants == {VariantOrder[i] : i \in DOMAIN VariantOrder}
Scores == [Variants -> 0..Unit]

\* The rules of `decide`: theta and margin at decision time, the floor that
\* is checked at the sink, alpha and readiness of the conformal rule.
Rule == [kind : {"confidence", "conformal", "policy", "none"},
         theta : 0..Unit \cup {Undefined}, margin : 0..Unit \cup {Undefined},
         floor : 0..Unit \cup {Undefined}, alpha : 0..Unit,
         readiness : Nat]

-----------------------------------------------------------------------------
\* The first variant of V, in declared order, that no other one exceeds.
BestOf(s, V) ==
    CHOOSE v \in V :
        \E i \in DOMAIN VariantOrder :
            /\ VariantOrder[i] = v
            /\ \A j \in DOMAIN VariantOrder :
                  VariantOrder[j] \in V =>
                      IF j < i THEN s[VariantOrder[j]] < s[v]
                               ELSE s[VariantOrder[j]] <= s[v]

Top(s) == BestOf(s, Variants)
RunnerUp(s) ==
    IF Variants = {Top(s)} THEN Abstained ELSE BestOf(s, Variants \ {Top(s)})

\* secondScore: the second entry of the sorted scores, 0 for a single variant.
SecondScore(s) == IF RunnerUp(s) = Abstained THEN 0 ELSE s[RunnerUp(s)]
MarginOf(s) == s[Top(s)] - SecondScore(s)

-----------------------------------------------------------------------------
\* The k-th smallest nonconformity score of the pool.
Nonconformity(i) == Unit - Pool[i].scores[Pool[i].label]
KthSmallest(k) ==
    CHOOSE x \in {Nonconformity(i) : i \in DOMAIN Pool} :
        /\ Cardinality({i \in DOMAIN Pool : Nonconformity(i) <= x}) >= k
        /\ Cardinality({i \in DOMAIN Pool : Nonconformity(i) < x}) < k

\* ceil((n + 1)(1 - alpha)), clamped to the number of cases.
QuantileRank(alpha) ==
    LET n == Len(Pool)
        rank == -((-((n + 1) * (Unit - alpha))) \div Unit)
    IN  IF rank > n THEN n ELSE rank

PredictionSet(s, alpha) ==
    IF QuantileRank(alpha) < 1 THEN {}
    ELSE {v \in Variants : Unit - s[v] <= KthSmallest(QuantileRank(alpha))}

ConformalCommit(s, r) ==
    IF Pool = << >> \/ Len(Pool) < r.readiness THEN Abstained
    ELSE IF \E v \in Variants : PredictionSet(s, r.alpha) = {v}
         THEN CHOOSE v \in Variants : PredictionSet(s, r.alpha) = {v}
         ELSE Abstained

\* collapse: what the rule commits the credence to.
Clears(s, r) ==
    /\ r.theta = Undefined \/ s[Top(s)] >= r.theta
    /\ r.margin = Undefined \/ MarginOf(s) >= r.margin

Collapse(s, r) ==
    CASE r.kind = "conformal" -> ConformalCommit(s, r)
      [] r.kind \in {"confidence", "policy"} ->
            IF Clears(s, r) THEN Top(s) ELSE Abstained
      [] OTHER -> IF 2 * s[Top(s)] >= Unit THEN Top(s) ELSE Abstained

-----------------------------------------------------------------------------
\* What evalGate hands to bindDecision: the thresholds of a confidence rule,
\* one half and 0 for every other kind, and whether the scores clear them.
ThresholdOf(r) == IF r.kind = "confidence" THEN 2 * r.theta ELSE Unit
RequiredMargin(r) ==
    IF r.kind = "confidence" /\ r.margin # Undefined THEN r.margin ELSE 0

BindingOf(s, r) ==
    [winner |-> Top(s), runnerUp |-> RunnerUp(s),
     doubleThreshold |-> ThresholdOf(r), requiredMargin |-> RequiredMargin(r),
     margin |-> MarginOf(s),
     passed |-> /\ 2 * s[Top(s)] >= ThresholdOf(r)
                /\ MarginOf(s) >= RequiredMargin(r)]

\* validateBinding: the store recomputes winner, runner-up and arithmetic
\* from the gate scores of the evidence.
ValidBinding(b, s) ==
    LET winner == BestOf(s, Variants)
        rest == Variants \ {winner}
        runnerUp == IF rest = {} THEN Abstained ELSE BestOf(s, rest)
        margin == s[winner] - (IF rest = {} THEN 0 ELSE s[runnerUp])
    IN  /\ b.winner = winner
        /\ b.runnerUp = runnerUp
        /\ b.margin = margin
        /\ b.passed = (2 * s[winner] >= b.doubleThreshold /\ margin >= b.requiredMargin)
=============================================================================
