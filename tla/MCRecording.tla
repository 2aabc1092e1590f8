---------------------------- MODULE MCRecording ----------------------------
(* A recorded session and its replay, of two lanes of up to three steps, one *)
(* behind the other or overlapping; or the times of a ledger, which neither  *)
(* looks at.                                                                 *)
EXTENDS Recording, Ledger

CONSTANT Parts          \* the parts of the run

VARIABLE part

MCLanes == {1, 2}
OwnKey == <<"k1", "k2">>
SharedKey == <<"k1", "k1">>
FirstLane == {<<"validate", "store", "reply">>, <<"reply", "store">>, <<"store", "recall">>,
          <<"reply">>, <<"validate", "store", "store">>}
SecondLane == {<<"reply", "store">>, <<"store", "store">>, <<"reply">>}
ToolLane == {<<"tool", "reply">>, <<"store", "tool">>}

\* two lanes, with or without a tool, and with a memory out of scope
MCPrograms ==
  {[steps |-> <<a, b>>, key |-> k, lacks |-> {}, overlap |-> o] :
     a \in FirstLane, b \in SecondLane, k \in {OwnKey, SharedKey}, o \in BOOLEAN} \cup
  {[steps |-> <<a, b>>, key |-> OwnKey, lacks |-> n, overlap |-> o] :
     a \in ToolLane, b \in {<<"reply", "store">>, <<"tool">>}, n \in {{}, {"k1"}}, o \in BOOLEAN}

\* two paths of one program under a `|>`, with a memory of its own each
Paths == {[steps |-> <<s, s>>, key |-> OwnKey, lacks |-> {}, overlap |-> TRUE] :
            s \in {<<"reply", "reply">>, <<"store", "recall">>}}

AtRest == clock = 0 /\ originMs = 0 /\ lastMs = 0 /\ rows = << >> /\ observed = << >>

MCInit ==
  /\ part \in Parts
  /\ Init
  /\ IF part = "replay" THEN AtRest
     ELSE LedgerInit /\ program = CHOOSE p \in Programs : TRUE

MCNext ==
  \/ part = "replay" /\ Next /\ UNCHANGED <<ledgerVars, part>>
  \/ part = "times" /\ LedgerNext /\ UNCHANGED <<vars, part>>

MCSpec == MCInit /\ [][MCNext]_<<vars, ledgerVars, part>>
==============================================================================
