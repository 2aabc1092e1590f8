-------------------------- MODULE MCDecisionGate --------------------------
(* Two paths of a fan-out and a host over the evidence store.                *)
EXTENDS DecisionGate

MCVariantOrder == <<"yes", "no">>
Sure == [v \in {"yes", "no"} |-> IF v = "yes" THEN 4 ELSE 0]
Clear == [v \in {"yes", "no"} |-> IF v = "yes" THEN 3 ELSE 1]
Tie == [v \in {"yes", "no"} |-> 2]
MCReplies == <<{Sure}, {Clear, Tie}>>
MCPool == <<[scores |-> Clear, label |-> "yes"], [scores |-> Tie, label |-> "no"]>>

\* Sure commits, Clear abstains over the floor, Tie abstains under it.
Confident == [kind |-> "confidence", theta |-> 4, margin |-> 1,
              floor |-> 2, alpha |-> 1, readiness |-> 1]
MCRules == {Confident}

\* Two paths without a host; one path beside a host that inspects and
\* deletes; two host calls that retain and delete; one path that decides
\* twice; no principal.
CONSTANTS h1, h2
MCSetups == {[reach |-> "consult", driver |-> "verifier", paths |-> {1, 2},
              decides |-> 1, host |-> {}, hosts |-> {}],
             [reach |-> "grant", driver |-> "none", paths |-> {2},
              decides |-> 2, host |-> {"authorize", "inspect", "delete"}, hosts |-> {h1}],
             [reach |-> "attested", driver |-> "missing", paths |-> {2},
              decides |-> 1, host |-> {"retain", "delete"}, hosts |-> {h1, h2}],
             [reach |-> "attested", driver |-> "missing", paths |-> {2},
              decides |-> 2, host |-> {}, hosts |-> {}],
             [reach |-> "nobody", driver |-> "none", paths |-> {2},
              decides |-> 1, host |-> {}, hosts |-> {}]}
=============================================================================
