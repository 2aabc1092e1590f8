------------------------------ MODULE MCStudio ------------------------------
(* The three stateful services of Studio, one of them in each behaviour: the *)
(* registry of runtime sessions, the listening session of the inspector, and *)
(* the saves of the flow editor.                                             *)
EXTENDS SessionRegistry, RunServer, FlowSave

CONSTANT Services       \* the services of the run

VARIABLE service

studioVars == <<sessionVars, entryVars, serverVars, flowVars, service>>

MCPromptRequests == [r \in {"promptA"} |-> "a"]
MCRulers == [r \in {"rule1", "again1", "rule2"} |-> IF r = "rule2" THEN 2 ELSE 1]
MCDriver == <<"host", "other">>
MCPromptPosts == [r \in {"postA"} |-> "a"]
MCAttests == [r \in {"attest1", "attest2"} |-> IF r = "attest1" THEN 1 ELSE 2]

Init ==
    /\ service \in Services
    /\ SessionInit /\ RegistryInit /\ ServerInit
    /\ IF service = "flow" THEN FlowInit
       ELSE FlowInit /\ file = CHOOSE x \in Sources : TRUE

Next ==
    \/ service = "registry" /\ RegistryNext /\ UNCHANGED <<serverVars, flowVars, service>>
    \/ service = "server" /\ ServerNext /\ UNCHANGED <<entryVars, flowVars, service>>
    \/ service = "flow" /\ FlowNext /\ UNCHANGED <<sessionVars, entryVars, serverVars, service>>

Spec == Init /\ [][Next]_studioVars /\ (service = "registry" => RegistryFairness)

\* A part of a session's record is a value of its type.
TypeOK ==
    /\ RegistryTypeOK
    /\ runState \in {"running", "waiting", "done", "error"}
    /\ shown \in 0..Len(consult) /\ tracked \subseteq Operations
    /\ liveRuns \in 0..1
    /\ file \in Sources /\ queue \in Seq(Saves)
    /\ \A s \in Saves : save[s].at \in Steps

\* Rulings are taken one at a time, each for good, and a run that waits shows
\* the request to rule on.
RulingsStand == TypeOK /\ EveryRulingStands /\ OneConsultAtATime /\ WaitingShowsItsRequest

\* Every request gets its response, and "ready" only when all operations ended
\* and the failure of whatever still runs was told.
RequestsAreServed == ReadyMeansDone /\ EveryRequestAnswered
=============================================================================
