-------------------------- MODULE MCMarkdownMemory --------------------------
(***************************************************************************)
(* Instances of MarkdownMemory for TLC: every mutation is of one region,   *)
(* and the operation called "forget" is a forget.  All openings resume one *)
(* session, or each of them starts a session of its own, with a region of  *)
(* its own: a fresh start has a new lineage.                               *)
(***************************************************************************)
EXTENDS MarkdownMemory

MCOpRegion == [o \in Ops |-> "A"]

MCOpenSession == [p \in Opens |-> 1]

MCOpSession == [o \in Ops |-> 1]

FreshOpenSession == [p \in Opens |-> p]

FreshOpSession == [o \in Ops |-> IF o = "store" THEN 1 ELSE 2]

FreshOpRegion == [o \in Ops |-> IF o = "store" THEN "A" ELSE "B"]

MCOpKind == [o \in Ops |-> IF o = "forget" THEN "forget" ELSE "store"]
=============================================================================
