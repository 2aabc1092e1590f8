---------------------------- MODULE NamedMemory ----------------------------
(***************************************************************************)
(* What named memory promises, whatever fails in between: a mutation is    *)
(* committed by exactly one ledger row, and the live projection of every   *)
(* region is the replay of its committed rows in ledger order, at most one *)
(* row behind.  Nothing is visible that the ledger does not hold, and what *)
(* the ledger holds is never lost or applied twice.                        *)
(***************************************************************************)
EXTENDS Naturals, Sequences

CONSTANTS Regions, Ops, OpRegion, OpKind

VARIABLES
  rows,      (* the committed mutations, in ledger order                   *)
  shown,     (* those the live projection shows                            *)
  memory     (* the live projection of every region                        *)

memoryVars == <<rows, shown, memory>>

Committed == {rows[i] : i \in DOMAIN rows}

\* One mutation applied to the state of its region.
Apply(o, region) ==
  CASE OpKind[o] = "forget" ->
         [region EXCEPT !.state = "closed", !.cells = << >>]
    [] OpKind[o] = "store" /\ region.state = "closed" ->
         [generation |-> region.generation + 1, state |-> "open", cells |-> <<o>>]
    [] OTHER ->
         [region EXCEPT !.cells = Append(@, o)]

Init ==
  /\ rows = << >>
  /\ shown = {}
  /\ memory = [r \in Regions |-> [generation |-> 0, state |-> "open", cells |-> << >>]]

\* A row is committed only when every earlier row of its region is shown.
Commit(o) ==
  /\ o \notin Committed
  /\ \A p \in Committed \ shown : OpRegion[p] # OpRegion[o]
  /\ rows' = Append(rows, o)
  /\ UNCHANGED <<shown, memory>>

Show(o) ==
  /\ o \in Committed \ shown
  /\ memory' = [memory EXCEPT ![OpRegion[o]] = Apply(o, @)]
  /\ shown' = shown \cup {o}
  /\ UNCHANGED rows

Next == \E o \in Ops : Commit(o) \/ Show(o)

Spec == Init /\ [][Next]_memoryVars
=============================================================================
