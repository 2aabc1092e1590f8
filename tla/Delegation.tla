----------------------------- MODULE Delegation -----------------------------
(***************************************************************************)
(* What the task runtime promises about one delegation (SPEC 6c, 16.3a): a *)
(* task is sent once, reaches its worker at most once, and gets exactly    *)
(* one terminal, which nothing that comes later changes.                   *)
(***************************************************************************)
CONSTANT Tasks

VARIABLE status

Terminals == {"completed", "failed", "cancelled", "expired"}

Init == status = [t \in Tasks |-> "unsent"]

Send(t) ==
  /\ status[t] = "unsent"
  /\ status' = [status EXCEPT ![t] = "sent"]

Deliver(t) ==
  /\ status[t] = "sent"
  /\ status' = [status EXCEPT ![t] = "delivered"]

\* Only a task that reached its worker completes or fails.
Conclude(t) ==
  /\ status[t] = "delivered"
  /\ status' \in {[status EXCEPT ![t] = s] : s \in Terminals}

Tombstone(t) ==
  /\ status[t] = "sent"
  /\ status' \in {[status EXCEPT ![t] = s] : s \in {"cancelled", "expired"}}

Next ==
  \E t \in Tasks : Send(t) \/ Deliver(t) \/ Conclude(t) \/ Tombstone(t)

Spec == Init /\ [][Next]_status
=============================================================================
