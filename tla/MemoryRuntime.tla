--------------------------- MODULE MemoryRuntime ---------------------------
(* The named memory of one session, as NamedMemoryRuntime keeps it: a driver *)
(* made on first use, one coordinator for each agent and descriptor, the     *)
(* journal of finished operations, and the close that releases them in order.*)
(* Promises have an identity, their number: two places of the code compare a *)
(* promise with the one they made.  What a coordinator does inside one       *)
(* operation is NamedMemoryCoordinator's; here it appends one row or fails.  *)
EXTENDS Naturals, Sequences, FiniteSets, SequencesExt, FiniteSetsExt

CONSTANTS Lanes,     \* chains of invocations that may overlap
          Keys,      \* an agent instance together with a descriptor
          MaxFaults  \* bound on the failures of drivers and coordinators

VARIABLES ledger,        \* the rows of the session
          driverPromise, \* number of the pending driver, 0 when undefined
          driver,        \* number of the driver in use, 0 before it is known
          drivers,       \* every driver asked for: "pending", "ready", "failed", "closed"
          coordinators,  \* key -> number of its creation, 0 when absent
          creations,     \* every creation asked for: key, awaited driver, state
          operations,    \* the journal: request, ledger tick and head
          closing, closed, \* closePromise is set; #closed
          handled,       \* creations this close has been through
          lane,          \* where each lane stands in its memory operation
          faults
memoryVars == <<ledger, driverPromise, driver, drivers, coordinators, creations,
                operations, closing, closed, handled, lane, faults>>

Idle == [stage |-> "idle", wait |-> 0, mine |-> FALSE, tick |-> 0]
\* a lane that awaits a driver, or a coordinator it may have made itself
Awaiting(stage, w, mine) == [stage |-> stage, wait |-> w, mine |-> mine, tick |-> 0]

MemoryInit ==
  /\ ledger = << >> /\ driverPromise = 0 /\ driver = 0 /\ drivers = << >>
  /\ coordinators = [k \in Keys |-> 0] /\ creations = << >>
  /\ operations = << >> /\ closing = FALSE /\ closed = FALSE /\ handled = {}
  /\ lane = [l \in Lanes |-> Idle] /\ faults = 0

IsOpen == ~closed /\ ~closing

\* the driver a creation awaits: the promise in flight, or a new one
Shared(p) == IF p # 0 THEN p ELSE Len(drivers) + 1

\* ensureDriver, up to its await
ensureDriver(p) ==
  /\ drivers' = IF p > Len(drivers) THEN Append(drivers, "pending") ELSE drivers
  /\ driverPromise' = IF driver # 0 THEN driverPromise ELSE p

\* the session's start asks for the driver before any operation (validateDescriptors)
Validates(l) ==
  /\ lane[l].stage = "idle" /\ IsOpen /\ driver = 0
  /\ LET p == Shared(driverPromise)
     IN /\ ensureDriver(p)
        /\ lane' = [lane EXCEPT ![l] = Awaiting("driver", p, FALSE)]
  /\ UNCHANGED <<ledger, driver, coordinators, creations, operations, closing, closed, handled, faults>>

\* an operation starts: it joins the coordinator of its key, or makes one
Call(l, k) ==
  /\ lane[l].stage = "idle" /\ IsOpen
  /\ IF coordinators[k] # 0
     THEN /\ lane' = [lane EXCEPT ![l] = Awaiting("await", coordinators[k], FALSE)]
          /\ UNCHANGED <<driverPromise, drivers, coordinators, creations>>
     ELSE LET c == Len(creations) + 1
              p == IF driver # 0 THEN driver ELSE Shared(driverPromise)
          IN /\ ensureDriver(p)
             /\ creations' = Append(creations, [key |-> k, on |-> p, state |-> "pending"])
             /\ coordinators' = [coordinators EXCEPT ![k] = c]
             /\ lane' = [lane EXCEPT ![l] = Awaiting("await", c, TRUE)]
  /\ UNCHANGED <<ledger, driver, operations, closing, closed, handled, faults>>

\* the factory answers
DriverSettles(p) ==
  /\ drivers[p] = "pending"
  /\ \/ /\ drivers' = [drivers EXCEPT ![p] = "ready"] /\ UNCHANGED faults
     \/ /\ faults < MaxFaults /\ faults' = faults + 1
        /\ drivers' = [drivers EXCEPT ![p] = "failed"]
  /\ UNCHANGED <<ledger, driverPromise, driver, coordinators, creations, operations,
                 closing, closed, handled, lane>>

\* mutant: a failed wait forgets whichever promise is there now
ForgetsAny(p) == 0
\* a failed wait forgets the promise it waited for, and no later one
Forgets(p) == IF driverPromise = p THEN 0 ELSE driverPromise

\* ensureDriver after its await, and the creation that called it
CreationSettles(c) ==
  LET made == creations[c]
      ready == drivers[made.on] \in {"ready", "closed"}
  IN /\ made.state = "pending" /\ drivers[made.on] # "pending"
     /\ creations' = [creations EXCEPT ![c].state = IF ready THEN "open" ELSE "failed"]
     /\ driver' = IF ready THEN made.on ELSE driver
     /\ driverPromise' = IF ready THEN driverPromise ELSE Forgets(made.on)
     /\ UNCHANGED <<ledger, drivers, coordinators, operations, closing, closed, handled, lane, faults>>

\* ... and the start that called it
Validated(l) ==
  LET p == lane[l].wait
      ready == drivers[p] \in {"ready", "closed"}
  IN /\ lane[l].stage = "driver" /\ drivers[p] # "pending"
     /\ driver' = IF ready THEN p ELSE driver
     /\ driverPromise' = IF ready THEN driverPromise ELSE Forgets(p)
     /\ lane' = [lane EXCEPT ![l] = Idle]
     /\ UNCHANGED <<ledger, drivers, coordinators, creations, operations, closing, closed, handled, faults>>

\* the operation learns that its coordinator is there and enters it ...
Enter(l) ==
  /\ lane[l].stage = "await" /\ creations[lane[l].wait].state = "open"
  /\ lane' = [lane EXCEPT ![l].stage = "inside"]
  /\ UNCHANGED <<ledger, driverPromise, driver, drivers, coordinators, creations,
                 operations, closing, closed, handled, faults>>

\* ... or that it failed or is closed; the maker of a failed one removes it
Refused(l) ==
  LET c == lane[l].wait
      k == creations[c].key
  IN /\ lane[l].stage = "await" /\ creations[c].state \in {"failed", "closed"}
     /\ coordinators' = IF creations[c].state = "failed" /\ lane[l].mine /\ coordinators[k] = c
                        THEN [coordinators EXCEPT ![k] = 0] ELSE coordinators
     /\ lane' = [lane EXCEPT ![l] = Idle]
     /\ UNCHANGED <<ledger, driverPromise, driver, drivers, creations, operations,
                    closing, closed, handled, faults>>

\* the coordinator appends its row and waits for the driver to finalize
Commits(l, row) ==
  /\ lane[l].stage = "inside"
  /\ ledger' = Append(ledger, row)
  /\ lane' = [lane EXCEPT ![l].stage = "committed", ![l].tick = Len(ledger)]
  /\ UNCHANGED <<driverPromise, driver, drivers, coordinators, creations, operations,
                 closing, closed, handled, faults>>

\* the driver fails: before the row, or after it with the outcome unknown
Fails(l) ==
  /\ lane[l].stage \in {"inside", "committed"}
  /\ faults < MaxFaults /\ faults' = faults + 1
  /\ lane' = [lane EXCEPT ![l] = Idle]
  /\ UNCHANGED <<ledger, driverPromise, driver, drivers, coordinators, creations,
                 operations, closing, closed, handled>>

\* mutant: the head is the one the row was appended under
HeadAtAppend(tick) == SubSeq(ledger, 1, tick)
\* the head an operation is journalled with: the ledger's at its end
RecordedHead(tick) == ledger

\* the receipt is back: the operation joins the journal, in order of completion
Finishes(l, request) ==
  /\ lane[l].stage = "committed"
  /\ operations' = Append(operations, [request |-> request, tick |-> lane[l].tick,
                                       row |-> ledger[lane[l].tick + 1],
                                       head |-> RecordedHead(lane[l].tick)])
  /\ lane' = [lane EXCEPT ![l] = Idle]
  /\ UNCHANGED <<ledger, driverPromise, driver, drivers, coordinators, creations,
                 closing, closed, handled, faults>>

------------------------------------------------------------------------------
\* close: the coordinators in the order they were made, then the driver
BeginClose ==
  /\ IsOpen
  /\ closing' = TRUE /\ handled' = {}
  /\ UNCHANGED <<ledger, driverPromise, driver, drivers, coordinators, creations,
                 operations, closed, lane, faults>>

Held == {coordinators[k] : k \in Keys} \ {0}
ToClose == Held \ handled

CloseFails ==
  /\ closing' = FALSE
  /\ UNCHANGED <<ledger, driverPromise, driver, drivers, coordinators, creations,
                 operations, closed, handled, lane>>

CloseCoordinator ==
  LET c == Min(ToClose)
  IN /\ closing /\ ~closed /\ ToClose # {} /\ creations[c].state # "pending"
     /\ \/ /\ creations[c].state \in {"open", "closed"}
           /\ creations' = [creations EXCEPT ![c].state = "closed"]
           /\ handled' = handled \cup {c}
           /\ UNCHANGED <<ledger, driverPromise, driver, drivers, coordinators,
                          operations, closing, closed, lane, faults>>
        \/ /\ creations[c].state = "open" /\ faults < MaxFaults /\ faults' = faults + 1
           /\ CloseFails
        \/ /\ creations[c].state = "failed" /\ UNCHANGED faults /\ CloseFails

\* mutant: closed once the driver has been asked, whatever it answered
ClosedAnyway(ok) == TRUE
\* #closed is set only behind every close that succeeded
ClosedWhen(ok) == ok

\* the driver in use, else the one on its way
LastDriver == IF driver # 0 THEN driver ELSE driverPromise
LastFailed == LastDriver # 0 /\ drivers[LastDriver] = "failed"

CloseDriver ==
  /\ closing /\ ~closed /\ ToClose = {}
  /\ LastDriver # 0 => drivers[LastDriver] # "pending"
  /\ \E ok \in BOOLEAN :
       /\ ok => ~LastFailed
       /\ ~ok => LastFailed \/ (LastDriver # 0 /\ faults < MaxFaults)
       /\ faults' = IF ok \/ LastFailed THEN faults ELSE faults + 1
       /\ drivers' = IF ok /\ LastDriver # 0 THEN [drivers EXCEPT ![LastDriver] = "closed"] ELSE drivers
       /\ closed' = ClosedWhen(ok)
       /\ closing' = ok
  /\ UNCHANGED <<ledger, driverPromise, driver, coordinators, creations, operations,
                 handled, lane>>

------------------------------------------------------------------------------
\* The session never holds two drivers: the overlapping operations that find
\* none share one promise, and a failed wait does not drop a later promise
\* (ensureDriver).
OneDriver == Cardinality({p \in DOMAIN drivers : drivers[p] \in {"pending", "ready"}}) <= 1

\* A runtime that says it is closed has closed what it made: every coordinator
\* and the driver.  A close that failed on the way leaves it open (close).
ClosedReleasesAll ==
  closed => /\ \A c \in DOMAIN creations : creations[c].state \in {"closed", "failed"}
            /\ \A p \in DOMAIN drivers : drivers[p] \in {"closed", "failed"}

\* What the runtime opens it has once, and has released when it is closed.
DriversAreReleased == OneDriver /\ ClosedReleasesAll
==============================================================================
