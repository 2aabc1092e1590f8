---------------------- MODULE MCNamedMemoryCoordinator ----------------------
(***************************************************************************)
(* Instances of NamedMemoryCoordinator for TLC.  The calls are strings.  A *)
(* session makes the calls of one mix, each at most so often, and meets at *)
(* most so many failures: every call overlaps with every other in some     *)
(* mix, and no mix has all of them.                                        *)
(***************************************************************************)
EXTENDS NamedMemoryCoordinator

MCOpRegion == [o \in Ops |-> IF o = "storeB" THEN "B" ELSE "A"]

MCOpKind == [o \in Ops |-> IF o = "forget" THEN "forget" ELSE "store"]

MCCallRegion ==
  [c \in Calls |-> IF c \in Ops THEN OpRegion[c]
                   ELSE IF c = "recallB" THEN "B" ELSE "A"]

MCRegistered == [r \in Regions |-> IF r = "A" THEN 1 ELSE 2]

VARIABLE mix

Mix(calls, often, failures) == [calls |-> calls, often |-> often, failures |-> failures]
Mixes ==
  {Mix({"store1", "store2", "forget"}, 2, 1),
   Mix({"store1", "forget"}, 2, 2),
   Mix({"store1", "forget", "recallA"}, 1, 1),
   Mix({"store1", "store2", "forget", "recallA"}, 1, 0),
   Mix({"store1", "storeB", "closeA", "snapshot"}, 1, 1)}

\* Two stores of one region are alike: which of them comes first is no choice.
FirstIsFirst == attempts'["store2"] > 0 => attempts'["store1"] > 0

Within ==
  /\ FirstIsFirst
  /\ \A c \in Calls : attempts'[c] <= IF c \in mix.calls THEN mix.often ELSE 0
  /\ faults' <= mix.failures

MCInit == Init /\ mix \in Mixes
MCNext == Next /\ Within /\ UNCHANGED mix
MCSpec == MCInit /\ [][MCNext]_<<vars, mix>>
=============================================================================
