--------------------------- MODULE MCTaskRuntime ---------------------------
(***************************************************************************)
(* Instances of TaskRuntime for TLC: tasks 1 and 3 go to the same worker.  *)
(* Either three tasks are sent by a turn of one statement, or two by a     *)
(* session of two turns that opens scopes and puts a worker to sleep, or   *)
(* meets errors that nothing contains and turns that are lost.  No fair    *)
(* action is taken away: each can go on without them.                      *)
(***************************************************************************)
EXTENDS TaskRuntime

MCDestOf == [t \in Tasks |-> IF t = 2 THEN "w2" ELSE "w1"]

VARIABLE mix

Mixes ==
  {[tasks |-> 3, statements |-> 0, prompts |-> 0, sleep |-> FALSE, fails |-> FALSE],
   [tasks |-> 2, statements |-> 1, prompts |-> 1, sleep |-> TRUE, fails |-> FALSE],
   [tasks |-> 2, statements |-> 1, prompts |-> 1, sleep |-> FALSE, fails |-> TRUE]}

MCInit ==
  /\ Init
  /\ mix \in Mixes
  /\ left = mix.statements
  /\ prompts = mix.prompts

\* No error fails the turn, loses it, or keeps a delivery from its queue.
Contained ==
  /\ phase' # "failed"
  /\ lost' = {}
  /\ sent' > sent /\ ~foreground'[sent'] => pending' # pending

MCNext ==
  /\ Next
  /\ sent' <= mix.tasks
  /\ mix.sleep \/ UNCHANGED awake
  /\ mix.fails \/ Contained
  /\ UNCHANGED mix

MCSpec == MCInit /\ [][MCNext]_<<vars, mix>> /\ Fairness
=============================================================================
