-------------------------- MODULE Recording_proofs --------------------------
(* Theorems about Recording and the memory runtime it drives, for any lanes, *)
(* keys, programs and answers, and any number of failures; and about the     *)
(* times of a ledger, for any clock, any number of rows and any batches.     *)
EXTENDS Recording, Ledger, FiniteSetTheorems, SequenceTheorems, TLAPS

-----------------------------------------------------------------------------
(* The drivers and coordinators of the memory runtime.                       *)

DriverStates == {"pending", "ready", "failed", "closed"}
CreationStates == {"pending", "open", "failed", "closed"}
Creation == [key : Keys, on : Nat \ {0}, state : CreationStates]
Stages == {"idle", "driver", "await", "inside", "committed"}
LaneState == [stage : Stages, wait : Nat, mine : BOOLEAN, tick : Nat]

RuntimeTypeOK ==
  /\ drivers \in Seq(DriverStates)
  /\ driverPromise \in 0..Len(drivers)
  /\ driver \in 0..Len(drivers)
  /\ creations \in Seq(Creation)
  /\ coordinators \in [Keys -> 0..Len(creations)]
  /\ closing \in BOOLEAN
  /\ closed \in BOOLEAN
  /\ lane \in [Lanes -> LaneState]

\* What is awaited was asked for.
AwaitedExist ==
  /\ \A c \in 1..Len(creations) : creations[c].on <= Len(drivers)
  /\ \A l \in Lanes :
       /\ lane[l].stage = "driver" => lane[l].wait \in 1..Len(drivers)
       /\ lane[l].stage = "await" => lane[l].wait \in 1..Len(creations)

\* A driver that did not fail is the one in use, or while none is known to be
\* in use the one the promise stands for.
LiveDriverIsLast ==
  \A p \in 1..Len(drivers) : drivers[p] # "failed" => p = LastDriver

\* A coordinator that is open, or may come to be, is the one of its key.
LiveCreationIsHeld ==
  \A c \in 1..Len(creations) :
    creations[c].state \in {"pending", "open"} => coordinators[creations[c].key] = c

\* While a close is under way, and behind it, what it has been through is closed.
HandledIsClosed ==
  closing \/ closed =>
    \A c \in handled \cap 1..Len(creations) : creations[c].state = "closed"

\* What a close that succeeded leaves, with the driver whose state it has read.
ClosedIsReleased ==
  closed => /\ \A c \in 1..Len(creations) : creations[c].state \in {"closed", "failed"}
            /\ \A p \in 1..Len(drivers) : drivers[p] \in {"closed", "failed"}

RuntimeInv ==
  /\ RuntimeTypeOK
  /\ AwaitedExist
  /\ LiveDriverIsLast
  /\ LiveCreationIsHeld
  /\ HandledIsClosed
  /\ ClosedIsReleased

USE ProgramsAssumption

LEMMA CreationTypes ==
  ASSUME RuntimeTypeOK, NEW c \in 1..Len(creations)
  PROVE  /\ creations[c] \in Creation
         /\ creations[c].key \in Keys
         /\ creations[c].on \in Nat \ {0}
         /\ creations[c].state \in CreationStates
<1>1. creations[c] \in Creation
  BY ElementOfSeq DEF RuntimeTypeOK
<1> QED BY <1>1 DEF Creation

LEMMA IdleType == Idle \in LaneState
BY DEF Idle, LaneState, Stages

LEMMA DriversExtended ==
  ASSUME RuntimeInv, ~closed,
         NEW p, ensureDriver(p),
         \/ driver = 0 /\ p = Shared(driverPromise)
         \/ driver # 0 /\ p = driver
  PROVE  /\ drivers' \in Seq(DriverStates)
         /\ Len(drivers') >= Len(drivers)
         /\ driverPromise' \in 0..Len(drivers')
         /\ driver \in 0..Len(drivers')
         /\ p \in 1..Len(drivers')
         /\ driver' = driver => LiveDriverIsLast'
<1>1. /\ drivers \in Seq(DriverStates) /\ Len(drivers) \in Nat
      /\ driverPromise \in 0..Len(drivers) /\ driver \in 0..Len(drivers)
  BY DEF RuntimeInv, RuntimeTypeOK
<1>2. CASE p > Len(drivers)
  <2>1. driver = 0 /\ driverPromise = 0 /\ p = Len(drivers) + 1
    BY <1>1, <1>2 DEF Shared
  <2>2. /\ drivers' = Append(drivers, "pending") /\ driverPromise' = p
        /\ Len(drivers') = Len(drivers) + 1
        /\ \A q \in 1..Len(drivers) : drivers'[q] = drivers[q] /\ drivers[q] = "failed"
    BY <1>1, <1>2, <2>1 DEF ensureDriver, RuntimeInv, LiveDriverIsLast, LastDriver
  <2> QED BY <1>1, <2>1, <2>2 DEF LiveDriverIsLast, LastDriver, DriverStates
<1>3. CASE ~(p > Len(drivers))
  BY <1>1, <1>3 DEF Shared, ensureDriver, RuntimeInv, LiveDriverIsLast, LastDriver
<1> QED BY <1>2, <1>3

LEMMA ValidatesKeeps ==
  ASSUME RuntimeInv, NEW l \in Lanes, Validates(l)
  PROVE  RuntimeInv'
<1> DEFINE p == Shared(driverPromise)
<1>1. /\ ~closed /\ ~closing /\ driver = 0 /\ ensureDriver(p)
      /\ lane' = [lane EXCEPT ![l] = Awaiting("driver", p, FALSE)]
      /\ driver' = driver /\ coordinators' = coordinators /\ creations' = creations
      /\ closing' = closing /\ closed' = closed /\ handled' = handled
  BY DEF Validates, IsOpen
<1>2. /\ drivers' \in Seq(DriverStates) /\ Len(drivers') >= Len(drivers)
      /\ driverPromise' \in 0..Len(drivers') /\ driver \in 0..Len(drivers')
      /\ p \in 1..Len(drivers') /\ LiveDriverIsLast'
  BY <1>1, DriversExtended
<1>3. Len(drivers) \in Nat /\ Len(drivers') \in Nat
  BY <1>2 DEF RuntimeInv, RuntimeTypeOK
<1> HIDE DEF p
<1>4. RuntimeTypeOK'
  <2>1. Awaiting("driver", p, FALSE) \in LaneState
    BY <1>2, <1>3 DEF Awaiting, LaneState, Stages
  <2> QED BY <1>1, <1>2, <1>3, <2>1 DEF RuntimeInv, RuntimeTypeOK
<1>5. AwaitedExist'
  <2>1. \A c \in 1..Len(creations) : creations[c].on <= Len(drivers) /\ creations[c].on \in Nat
    BY CreationTypes DEF RuntimeInv, AwaitedExist
  <2> QED BY <1>1, <1>2, <1>3, <2>1 DEF RuntimeInv, RuntimeTypeOK, AwaitedExist, LaneState, Awaiting
<1>6. LiveCreationIsHeld' /\ HandledIsClosed' /\ ClosedIsReleased'
  BY <1>1 DEF RuntimeInv, LiveCreationIsHeld, HandledIsClosed, ClosedIsReleased
<1> QED BY <1>2, <1>4, <1>5, <1>6 DEF RuntimeInv

LEMMA CallKeeps ==
  ASSUME RuntimeInv, NEW l \in Lanes, NEW k \in Keys, Call(l, k)
  PROVE  RuntimeInv'
<1>1. /\ ~closed /\ ~closing
      /\ driver' = driver /\ closing' = closing /\ closed' = closed /\ handled' = handled
  BY DEF Call, IsOpen
<1>2. /\ Len(creations) \in Nat /\ coordinators \in [Keys -> 0..Len(creations)]
      /\ Len(drivers) \in Nat
  BY DEF RuntimeInv, RuntimeTypeOK
<1>3. CASE coordinators[k] # 0
  <2>1. /\ lane' = [lane EXCEPT ![l] = Awaiting("await", coordinators[k], FALSE)]
        /\ driverPromise' = driverPromise /\ drivers' = drivers
        /\ coordinators' = coordinators /\ creations' = creations
    BY <1>3 DEF Call
  <2>2. coordinators[k] \in 1..Len(creations)
    BY <1>2, <1>3
  <2>3. RuntimeTypeOK'
    <3>1. Awaiting("await", coordinators[k], FALSE) \in LaneState
      BY <1>2, <2>2 DEF Awaiting, LaneState, Stages
    <3> QED BY <1>1, <2>1, <2>2, <3>1 DEF RuntimeInv, RuntimeTypeOK
  <2>4. AwaitedExist'
    BY <1>1, <2>1, <2>2 DEF RuntimeInv, RuntimeTypeOK, AwaitedExist, LaneState, Awaiting
  <2>5. LiveDriverIsLast' /\ LiveCreationIsHeld' /\ HandledIsClosed' /\ ClosedIsReleased'
    BY <1>1, <2>1 DEF RuntimeInv, LiveDriverIsLast, LastDriver, LiveCreationIsHeld,
                      HandledIsClosed, ClosedIsReleased
  <2> QED BY <2>3, <2>4, <2>5 DEF RuntimeInv
<1>4. CASE coordinators[k] = 0
  <2> DEFINE c == Len(creations) + 1
             p == IF driver # 0 THEN driver ELSE Shared(driverPromise)
             new == [key |-> k, on |-> p, state |-> "pending"]
  <2>1. /\ ensureDriver(p)
        /\ creations' = Append(creations, new)
        /\ coordinators' = [coordinators EXCEPT ![k] = c]
        /\ lane' = [lane EXCEPT ![l] = Awaiting("await", c, TRUE)]
    BY <1>4 DEF Call
  <2>2. /\ drivers' \in Seq(DriverStates) /\ Len(drivers') >= Len(drivers)
        /\ driverPromise' \in 0..Len(drivers') /\ driver \in 0..Len(drivers')
        /\ p \in 1..Len(drivers') /\ LiveDriverIsLast'
    BY <1>1, <2>1, DriversExtended
  <2>3. Len(drivers') \in Nat
    BY <2>2
  <2> HIDE DEF p
  <2>4. new \in Creation
    BY <2>2, <2>3 DEF Creation, CreationStates
  <2>5. /\ creations' \in Seq(Creation) /\ Len(creations') = c /\ creations'[c] = new
        /\ \A d \in 1..Len(creations) : creations'[d] = creations[d]
    BY <2>1, <2>4 DEF RuntimeInv, RuntimeTypeOK
  <2> HIDE DEF new
  <2>6. RuntimeTypeOK'
    <3>1. coordinators' \in [Keys -> 0..c]
      BY <1>2, <2>1
    <3>2. lane' \in [Lanes -> LaneState]
      <4>1. Awaiting("await", c, TRUE) \in LaneState
        BY <1>2 DEF Awaiting, LaneState, Stages
      <4> QED BY <2>1, <4>1 DEF RuntimeInv, RuntimeTypeOK
    <3> QED BY <1>1, <2>2, <2>5, <3>1, <3>2 DEF RuntimeInv, RuntimeTypeOK
  <2>7. AwaitedExist'
    <3>1. \A d \in 1..Len(creations) : creations[d].on <= Len(drivers) /\ creations[d].on \in Nat
      BY CreationTypes DEF RuntimeInv, AwaitedExist
    <3>2. \A d \in 1..c : creations'[d].on <= Len(drivers')
      <4>1. new.on = p
        BY DEF new
      <4>2. creations'[c].on <= Len(drivers')
        BY <2>2, <2>3, <2>5, <4>1
      <4>3. \A d \in 1..Len(creations) : creations'[d].on <= Len(drivers')
        BY <1>2, <2>2, <2>3, <2>5, <3>1
      <4> QED BY <1>2, <4>2, <4>3
    <3>3. \A m \in Lanes : /\ lane'[m].stage = "driver" => lane'[m].wait \in 1..Len(drivers')
                           /\ lane'[m].stage = "await" => lane'[m].wait \in 1..c
      BY <1>2, <2>1, <2>2, <2>3 DEF RuntimeInv, RuntimeTypeOK, AwaitedExist, LaneState, Awaiting
    <3> QED BY <2>5, <3>2, <3>3 DEF AwaitedExist
  <2>8. LiveCreationIsHeld'
    <3>1. \A d \in 1..Len(creations) : creations[d].key \in Keys
      BY CreationTypes DEF RuntimeInv
    <3> QED BY <1>2, <1>4, <2>1, <2>5, <3>1 DEF RuntimeInv, LiveCreationIsHeld, new
  <2>9. HandledIsClosed' /\ ClosedIsReleased'
    BY <1>1 DEF HandledIsClosed, ClosedIsReleased
  <2> QED BY <2>2, <2>6, <2>7, <2>8, <2>9 DEF RuntimeInv
<1> QED BY <1>2, <1>3, <1>4

LEMMA DriverSettlesKeeps ==
  ASSUME RuntimeInv, NEW p \in DOMAIN drivers, DriverSettles(p)
  PROVE  RuntimeInv'
<1>1. /\ driverPromise' = driverPromise /\ driver' = driver /\ creations' = creations
      /\ coordinators' = coordinators /\ closing' = closing /\ closed' = closed
      /\ handled' = handled /\ lane' = lane
  BY DEF DriverSettles
<1>2. /\ drivers \in Seq(DriverStates) /\ p \in 1..Len(drivers) /\ drivers[p] = "pending"
  BY DEF DriverSettles, RuntimeInv, RuntimeTypeOK
<1>3. PICK s \in {"ready", "failed"} : drivers' = [drivers EXCEPT ![p] = s]
  BY DEF DriverSettles
<1>4. /\ drivers' \in Seq(DriverStates) /\ Len(drivers') = Len(drivers)
      /\ \A q \in 1..Len(drivers) : q # p => drivers'[q] = drivers[q]
  BY <1>2, <1>3 DEF DriverStates
<1>5. ~closed
  BY <1>2 DEF RuntimeInv, ClosedIsReleased
<1>6. RuntimeTypeOK' /\ AwaitedExist'
  BY <1>1, <1>4 DEF RuntimeInv, RuntimeTypeOK, AwaitedExist
<1>7. LiveDriverIsLast'
  BY <1>1, <1>2, <1>4 DEF RuntimeInv, LiveDriverIsLast, LastDriver
<1>8. LiveCreationIsHeld' /\ HandledIsClosed' /\ ClosedIsReleased'
  BY <1>1, <1>5 DEF RuntimeInv, LiveCreationIsHeld, HandledIsClosed, ClosedIsReleased
<1> QED BY <1>6, <1>7, <1>8 DEF RuntimeInv

Up(p) == drivers[p] \in {"ready", "closed"}

\* A driver that came up is taken into use; one that failed is forgotten,
\* unless another is on its way by then.
LEMMA DriverAwaited ==
  ASSUME RuntimeInv, NEW p \in 1..Len(drivers), drivers[p] # "pending", drivers' = drivers,
         driver' = IF Up(p) THEN p ELSE driver,
         driverPromise' = IF Up(p) THEN driverPromise ELSE Forgets(p)
  PROVE  /\ driverPromise' \in 0..Len(drivers)
         /\ driver' \in 0..Len(drivers)
         /\ LiveDriverIsLast'
<1>1. /\ drivers \in Seq(DriverStates) /\ Len(drivers) \in Nat
      /\ driverPromise \in 0..Len(drivers) /\ driver \in 0..Len(drivers)
  BY DEF RuntimeInv, RuntimeTypeOK
<1>2. drivers[p] \in DriverStates
  BY <1>1, ElementOfSeq
<1>3. CASE Up(p)
  BY <1>1, <1>3 DEF RuntimeInv, LiveDriverIsLast, LastDriver, Up
<1>4. CASE ~Up(p)
  <2>1. drivers[p] = "failed"
    BY <1>2, <1>4 DEF DriverStates, Up
  <2> QED BY <1>1, <1>4, <2>1 DEF RuntimeInv, LiveDriverIsLast, LastDriver, Forgets
<1> QED BY <1>3, <1>4

LEMMA CreationSettlesKeeps ==
  ASSUME RuntimeInv, NEW c \in DOMAIN creations, CreationSettles(c)
  PROVE  RuntimeInv'
<1> DEFINE p == creations[c].on
<1>1. /\ c \in 1..Len(creations) /\ creations \in Seq(Creation) /\ Len(creations) \in Nat
      /\ creations[c] \in Creation /\ p \in Nat \ {0} /\ p <= Len(drivers)
      /\ Len(drivers) \in Nat
  BY CreationTypes DEF RuntimeInv, RuntimeTypeOK, AwaitedExist
<1>2. /\ drivers' = drivers /\ coordinators' = coordinators /\ closing' = closing
      /\ closed' = closed /\ handled' = handled /\ lane' = lane
      /\ creations[c].state = "pending" /\ drivers[p] # "pending"
      /\ driver' = IF Up(p) THEN p ELSE driver
      /\ driverPromise' = IF Up(p) THEN driverPromise ELSE Forgets(p)
  BY DEF CreationSettles, Up
<1>3. PICK s \in {"open", "failed"} : creations' = [creations EXCEPT ![c].state = s]
  BY DEF CreationSettles
<1>4. /\ creations' \in Seq(Creation) /\ Len(creations') = Len(creations)
      /\ \A d \in 1..Len(creations) :
           /\ creations'[d].key = creations[d].key /\ creations'[d].on = creations[d].on
           /\ d # c => creations'[d].state = creations[d].state
  <2>1. [creations[c] EXCEPT !.state = s] \in Creation
    BY <1>1 DEF Creation, CreationStates
  <2>2. creations' = [creations EXCEPT ![c] = [creations[c] EXCEPT !.state = s]]
    BY <1>3
  <2>3. creations' \in Seq(Creation) /\ Len(creations') = Len(creations)
    BY <1>1, <2>1, <2>2
  <2>4. ASSUME NEW d \in 1..Len(creations)
        PROVE  /\ creations'[d].key = creations[d].key /\ creations'[d].on = creations[d].on
               /\ d # c => creations'[d].state = creations[d].state
    <3>1. CASE d = c
      BY <1>1, <2>2, <3>1 DEF Creation
    <3>2. CASE d # c
      BY <1>1, <2>2, <3>2
    <3> QED BY <3>1, <3>2
  <2> QED BY <2>3, <2>4
<1>5. ~closed
  BY <1>1, <1>2 DEF RuntimeInv, ClosedIsReleased
<1>6. /\ driverPromise' \in 0..Len(drivers) /\ driver' \in 0..Len(drivers) /\ LiveDriverIsLast'
  BY <1>1, <1>2, DriverAwaited
<1>7. RuntimeTypeOK' /\ AwaitedExist'
  BY <1>2, <1>4, <1>6 DEF RuntimeInv, RuntimeTypeOK, AwaitedExist
<1>8. LiveCreationIsHeld'
  BY <1>1, <1>2, <1>4 DEF RuntimeInv, LiveCreationIsHeld
<1>9. HandledIsClosed' /\ ClosedIsReleased'
  BY <1>1, <1>2, <1>4, <1>5 DEF RuntimeInv, HandledIsClosed, ClosedIsReleased
<1> QED BY <1>6, <1>7, <1>8, <1>9 DEF RuntimeInv

LEMMA ValidatedKeeps ==
  ASSUME RuntimeInv, NEW l \in Lanes, Validated(l)
  PROVE  RuntimeInv'
<1> DEFINE p == lane[l].wait
<1>1. p \in 1..Len(drivers)
  BY DEF Validated, RuntimeInv, AwaitedExist
<1>2. /\ drivers' = drivers /\ creations' = creations /\ coordinators' = coordinators
      /\ closing' = closing /\ closed' = closed /\ handled' = handled
      /\ lane' = [lane EXCEPT ![l] = Idle] /\ drivers[p] # "pending"
      /\ driver' = IF Up(p) THEN p ELSE driver
      /\ driverPromise' = IF Up(p) THEN driverPromise ELSE Forgets(p)
  BY DEF Validated, Up
<1>3. /\ driverPromise' \in 0..Len(drivers) /\ driver' \in 0..Len(drivers) /\ LiveDriverIsLast'
  BY <1>1, <1>2, DriverAwaited
<1>4. /\ lane' \in [Lanes -> LaneState]
      /\ \A m \in Lanes : m # l => lane'[m] = lane[m]
      /\ lane'[l].stage = "idle"
  BY <1>2, IdleType DEF RuntimeInv, RuntimeTypeOK, Idle
<1>5. RuntimeTypeOK'
  BY <1>2, <1>3, <1>4 DEF RuntimeInv, RuntimeTypeOK
<1>7. AwaitedExist'
  <2>1. drivers' = drivers /\ creations' = creations
    BY <1>2
  <2>2. lane'[l].stage = "idle" /\ \A m \in Lanes : m # l => lane'[m] = lane[m]
    BY <1>4
  <2>3. AwaitedExist
    BY DEF RuntimeInv
  <2> QED BY <2>1, <2>2, <2>3 DEF AwaitedExist
<1>6. LiveCreationIsHeld' /\ HandledIsClosed' /\ ClosedIsReleased'
  BY <1>2 DEF RuntimeInv, LiveCreationIsHeld, HandledIsClosed, ClosedIsReleased
<1> QED BY <1>3, <1>5, <1>6, <1>7 DEF RuntimeInv

\* A lane that goes on inside its operation, or leaves it.
LEMMA LaneKeeps ==
  ASSUME RuntimeInv, NEW l \in Lanes,
         lane' \in [Lanes -> LaneState],
         lane'[l].stage \notin {"driver", "await"},
         \A m \in Lanes : m # l => lane'[m] = lane[m],
         UNCHANGED <<driverPromise, driver, drivers, coordinators, creations,
                     closing, closed, handled>>
  PROVE  RuntimeInv'
<1>1. RuntimeTypeOK' /\ AwaitedExist'
  BY DEF RuntimeInv, RuntimeTypeOK, AwaitedExist
<1>2. LiveDriverIsLast' /\ LiveCreationIsHeld' /\ HandledIsClosed' /\ ClosedIsReleased'
  BY DEF RuntimeInv, LiveDriverIsLast, LastDriver, LiveCreationIsHeld, HandledIsClosed,
         ClosedIsReleased
<1> QED BY <1>1, <1>2 DEF RuntimeInv

LEMMA LaneStepKeeps ==
  ASSUME RuntimeInv, NEW l \in Lanes,
         \/ Enter(l)
         \/ Fails(l)
         \/ OutOfScope(l)
         \/ \E row : Commits(l, row)
         \/ \E request : Finishes(l, request),
         Len(ledger) \in Nat
  PROVE  RuntimeInv'
<1>1. lane \in [Lanes -> LaneState] /\ lane[l] \in LaneState
  BY DEF RuntimeInv, RuntimeTypeOK
<1>2. UNCHANGED <<driverPromise, driver, drivers, coordinators, creations,
                  closing, closed, handled>>
  BY DEF Enter, Fails, OutOfScope, Commits, Finishes
<1>3. \/ lane' = [lane EXCEPT ![l] = Idle]
      \/ lane' = [lane EXCEPT ![l].stage = "inside"]
      \/ lane' = [lane EXCEPT ![l].stage = "committed", ![l].tick = Len(ledger)]
  BY DEF Enter, Fails, OutOfScope, Commits, Finishes
<1>4. /\ lane' \in [Lanes -> LaneState]
      /\ lane'[l].stage \notin {"driver", "await"}
      /\ \A m \in Lanes : m # l => lane'[m] = lane[m]
  <2>1. CASE lane' = [lane EXCEPT ![l] = Idle]
    BY <1>1, <2>1, IdleType DEF Idle
  <2>2. CASE lane' = [lane EXCEPT ![l].stage = "inside"]
    BY <1>1, <2>2 DEF LaneState, Stages
  <2>3. CASE lane' = [lane EXCEPT ![l].stage = "committed", ![l].tick = Len(ledger)]
    <3>1. \A m \in Lanes : m # l => lane'[m] = lane[m]
      BY <1>1, <2>3
    <3>2. lane'[l] = [lane[l] EXCEPT !.stage = "committed", !.tick = Len(ledger)]
      BY <1>1, <2>3
    <3>3. lane'[l] \in LaneState /\ lane'[l].stage = "committed"
      BY <1>1, <3>2 DEF LaneState, Stages
    <3>4. lane' = [m \in Lanes |-> lane'[m]]
      BY <1>1, <2>3
    <3> QED BY <1>1, <3>1, <3>3, <3>4
  <2> QED BY <1>3, <2>1, <2>2, <2>3
<1> QED BY <1>2, <1>4, LaneKeeps

\* Only a creation that failed is removed, and only from its own key.
LEMMA RefusedKeeps ==
  ASSUME RuntimeInv, NEW l \in Lanes, Refused(l)
  PROVE  RuntimeInv'
<1> DEFINE c == lane[l].wait
           k == creations[c].key
<1>1. c \in 1..Len(creations)
  BY DEF Refused, RuntimeInv, AwaitedExist
<1>2. k \in Keys
  BY <1>1, CreationTypes DEF RuntimeInv
<1>3. /\ driverPromise' = driverPromise /\ driver' = driver /\ drivers' = drivers
      /\ creations' = creations /\ closing' = closing /\ closed' = closed /\ handled' = handled
      /\ lane' = [lane EXCEPT ![l] = Idle]
  BY DEF Refused
<1>4. \/ coordinators' = coordinators
      \/ /\ creations[c].state = "failed" /\ coordinators[k] = c
         /\ coordinators' = [coordinators EXCEPT ![k] = 0]
  BY DEF Refused
<1>5. /\ lane' \in [Lanes -> LaneState]
      /\ \A m \in Lanes : m # l => lane'[m] = lane[m]
      /\ lane'[l].stage = "idle"
  BY <1>3, IdleType DEF RuntimeInv, RuntimeTypeOK, Idle
<1> HIDE DEF c, k
<1>6. Len(creations) \in Nat /\ coordinators \in [Keys -> 0..Len(creations)]
  BY DEF RuntimeInv, RuntimeTypeOK
<1>7. coordinators' \in [Keys -> 0..Len(creations)]
  BY <1>4, <1>6
<1>8. RuntimeTypeOK'
  BY <1>3, <1>5, <1>7 DEF RuntimeInv, RuntimeTypeOK
<1>9. AwaitedExist'
  BY <1>3, <1>5 DEF RuntimeInv, AwaitedExist
<1>10. LiveCreationIsHeld'
  <2> SUFFICES ASSUME NEW d \in 1..Len(creations), creations[d].state \in {"pending", "open"}
               PROVE  coordinators'[creations[d].key] = d
    BY <1>3 DEF LiveCreationIsHeld
  <2>1. coordinators[creations[d].key] = d /\ creations[d].key \in Keys
    BY CreationTypes DEF RuntimeInv, LiveCreationIsHeld
  <2> QED BY <1>2, <1>4, <1>6, <2>1
<1>11. LiveDriverIsLast' /\ HandledIsClosed' /\ ClosedIsReleased'
  BY <1>3 DEF RuntimeInv, LiveDriverIsLast, LastDriver, HandledIsClosed, ClosedIsReleased
<1> QED BY <1>8, <1>9, <1>10, <1>11 DEF RuntimeInv

LEMMA BeginCloseKeeps ==
  ASSUME RuntimeInv, BeginClose
  PROVE  RuntimeInv'
BY DEF BeginClose, IsOpen, RuntimeInv, RuntimeTypeOK, AwaitedExist, LiveDriverIsLast, LastDriver,
       LiveCreationIsHeld, HandledIsClosed, ClosedIsReleased

LEMMA CloseCoordinatorKeeps ==
  ASSUME RuntimeInv, CloseCoordinator
  PROVE  RuntimeInv'
<1> DEFINE c == Min(ToClose)
<1>1. /\ driverPromise' = driverPromise /\ driver' = driver /\ drivers' = drivers
      /\ coordinators' = coordinators /\ closed' = closed /\ lane' = lane
      /\ closing /\ ~closed
  BY DEF CloseCoordinator, CloseFails
<1>2. \/ /\ creations[c].state \in {"open", "closed"}
         /\ creations' = [creations EXCEPT ![c].state = "closed"]
         /\ handled' = handled \cup {c} /\ closing' = closing
      \/ creations' = creations /\ handled' = handled /\ closing' = FALSE
  BY DEF CloseCoordinator, CloseFails
<1> HIDE DEF c
<1>3. /\ creations \in Seq(Creation) /\ Len(creations) \in Nat
  BY DEF RuntimeInv, RuntimeTypeOK
<1>4. CASE creations' = creations /\ handled' = handled /\ closing' = FALSE
  BY <1>1, <1>4 DEF RuntimeInv, RuntimeTypeOK, AwaitedExist, LiveDriverIsLast, LastDriver,
                    LiveCreationIsHeld, HandledIsClosed, ClosedIsReleased
<1>5. CASE /\ creations[c].state \in {"open", "closed"}
           /\ creations' = [creations EXCEPT ![c].state = "closed"]
           /\ handled' = handled \cup {c} /\ closing' = closing
  <2>1. \A d \in 1..Len(creations) : creations[d] \in Creation
    BY <1>3, ElementOfSeq
  <2>2. /\ creations' \in Seq(Creation) /\ Len(creations') = Len(creations)
        /\ \A d \in 1..Len(creations) :
             /\ creations'[d].key = creations[d].key /\ creations'[d].on = creations[d].on
             /\ creations'[d].state = IF d = c THEN "closed" ELSE creations[d].state
    <3>1. CASE c \in 1..Len(creations)
      BY <1>3, <1>5, <2>1, <3>1 DEF Creation, CreationStates
    <3>2. CASE c \notin 1..Len(creations)
      <4>1. creations' = creations
        BY <1>3, <1>5, <3>2
      <4> QED BY <1>3, <3>2, <4>1
    <3> QED BY <3>1, <3>2
  <2>3. RuntimeTypeOK' /\ AwaitedExist'
    BY <1>1, <1>5, <2>2 DEF RuntimeInv, RuntimeTypeOK, AwaitedExist
  <2>4. LiveDriverIsLast'
    BY <1>1 DEF RuntimeInv, LiveDriverIsLast, LastDriver
  <2>5. LiveCreationIsHeld'
    BY <1>1, <2>2 DEF RuntimeInv, LiveCreationIsHeld
  <2>6. HandledIsClosed' /\ ClosedIsReleased'
    BY <1>1, <1>5, <2>2 DEF RuntimeInv, HandledIsClosed, ClosedIsReleased
  <2> QED BY <2>3, <2>4, <2>5, <2>6 DEF RuntimeInv
<1> QED BY <1>2, <1>4, <1>5

\* Behind the last coordinator every creation is closed or has failed, and the
\* one driver that is left is the one that is asked.
LEMMA CloseDriverKeeps ==
  ASSUME RuntimeInv, CloseDriver
  PROVE  RuntimeInv'
<1>1. /\ driverPromise' = driverPromise /\ driver' = driver /\ creations' = creations
      /\ coordinators' = coordinators /\ handled' = handled /\ lane' = lane
      /\ closing /\ ~closed /\ ToClose = {}
      /\ LastDriver # 0 => drivers[LastDriver] # "pending"
  BY DEF CloseDriver
<1>2. PICK ok \in BOOLEAN :
        /\ ok => ~LastFailed
        /\ drivers' = IF ok /\ LastDriver # 0 THEN [drivers EXCEPT ![LastDriver] = "closed"]
                      ELSE drivers
        /\ closed' = ok /\ closing' = ok
  BY DEF CloseDriver, ClosedWhen
<1>3. /\ drivers \in Seq(DriverStates) /\ Len(drivers) \in Nat
      /\ LastDriver \in 0..Len(drivers) /\ LastDriver' = LastDriver
  BY <1>1 DEF RuntimeInv, RuntimeTypeOK, LastDriver
<1>4. /\ drivers' \in Seq(DriverStates) /\ Len(drivers') = Len(drivers)
      /\ \A p \in 1..Len(drivers) :
           drivers'[p] = IF ok /\ p = LastDriver THEN "closed" ELSE drivers[p]
  BY <1>2, <1>3 DEF DriverStates
<1>5. RuntimeTypeOK' /\ AwaitedExist'
  BY <1>1, <1>2, <1>4 DEF RuntimeInv, RuntimeTypeOK, AwaitedExist
<1>6. LiveDriverIsLast'
  BY <1>1, <1>3, <1>4 DEF RuntimeInv, LiveDriverIsLast
<1>7. LiveCreationIsHeld'
  BY <1>1 DEF RuntimeInv, LiveCreationIsHeld
<1>8. HandledIsClosed'
  BY <1>1 DEF RuntimeInv, HandledIsClosed
<1>9. ClosedIsReleased'
  <2> SUFFICES ASSUME ok
               PROVE  /\ \A c \in 1..Len(creations) : creations[c].state \in {"closed", "failed"}
                      /\ \A p \in 1..Len(drivers) : drivers'[p] \in {"closed", "failed"}
    BY <1>1, <1>2, <1>4 DEF ClosedIsReleased
  <2>1. \A p \in 1..Len(drivers) : drivers'[p] \in {"closed", "failed"}
    BY <1>4 DEF RuntimeInv, LiveDriverIsLast
  <2>2. ASSUME NEW c \in 1..Len(creations), creations[c].state \in {"pending", "open"}
        PROVE  FALSE
    <3>1. coordinators[creations[c].key] = c /\ creations[c].key \in Keys
      BY <2>2, CreationTypes DEF RuntimeInv, LiveCreationIsHeld
    <3>2. c \in Held
      BY <3>1 DEF Held
    <3>3. c \in handled
      BY <1>1, <3>2 DEF ToClose
    <3> QED BY <1>1, <2>2, <3>3 DEF RuntimeInv, HandledIsClosed
  <2>3. \A c \in 1..Len(creations) : creations[c].state \in {"closed", "failed"}
    BY <2>2, CreationTypes DEF RuntimeInv, CreationStates
  <2> QED BY <2>1, <2>3
<1> QED BY <1>5, <1>6, <1>7, <1>8, <1>9 DEF RuntimeInv
-----------------------------------------------------------------------------
(* The journals of a recorded run, and what a replay has taken of them.      *)

Readable == Answers \cup {None}
EventTypes == {"Sent", "Resolved", "store", "recall", "ToolStarted", "ToolResolved",
               "AgentCrashed"}
LedgerRow == [etype : EventTypes, lane : Lanes, step : Nat, val : Readable]
Slot == [question : [step : Nat, about : Readable], answer : Readable]
Operation == [request : [kind : StepKinds, lane : Lanes, step : Nat, val : Readable],
              tick : Nat, row : LedgerRow, head : Seq(LedgerRow)]
Artifact == [provider : Seq(Slot), memory : Seq(Operation), head : Seq(LedgerRow),
             read : [Lanes -> Readable]]

SessionTypeOK ==
  /\ ledger \in Seq(LedgerRow)
  /\ operations \in Seq(Operation)
  /\ program \in Programs
  /\ at \in [Lanes -> Nat]
  /\ asking \in [Lanes -> Nat]
  /\ value \in [Lanes -> Readable]
  /\ slots \in Seq(Slot)
  /\ errors \in BOOLEAN
  /\ artifact \in Seq(Artifact) /\ Len(artifact) <= 1
  /\ taken \in Nat
  /\ cursor \in Nat
  /\ \A l \in Lanes : at[l] <= Len(Steps(l))

\* What the run so far has of each journal: the recording, once there is one.
RunRows == IF IsLive THEN ledger ELSE Recorded.head
RunSlots == IF IsLive THEN slots ELSE Recorded.provider
RunOperations == IF IsLive THEN operations ELSE Recorded.memory

\* A lane that waits is at the step it waits in.
InMemory(l) == IsLive /\ lane[l].stage # "idle"
WaitsInStep ==
  \A l \in Lanes :
    /\ asking[l] # 0 => /\ ~IsDone(l) /\ Step(l) = "reply" /\ ~InMemory(l)
                        /\ asking[l] \in 1..Len(RunSlots)
    /\ InMemory(l) => ~IsDone(l)
    /\ InMemory(l) /\ lane[l].stage # "driver" => Step(l) \in {"store", "recall"}
    /\ InMemory(l) /\ lane[l].stage = "committed" =>
         lane[l].tick < Len(ledger) /\ ledger[lane[l].tick + 1].lane = l

\* The value lane l has read behind the first n rows.
ReadBehind(log, n, l, v) ==
  \/ v = None /\ \A i \in 1..n : log[i].lane # l
  \/ \E i \in 1..n : /\ log[i].lane = l /\ log[i].val = v
                     /\ \A j \in 1..n : j > i => log[j].lane # l

\* What a lane has read is in the ledger.
ValuesAreRows ==
  /\ \A l \in Lanes : ReadBehind(ledger, Len(ledger), l, value[l])
  /\ ~IsLive => \A l \in Lanes : ReadBehind(Recorded.head, Len(Recorded.head), l, Recorded.read[l])

\* An operation of the journal has the row of the lane that asked for it.
OperationRows ==
  \A i \in 1..Len(RunOperations) : RunOperations[i].row.lane = RunOperations[i].request.lane

SessionInv == SessionTypeOK /\ WaitsInStep /\ ValuesAreRows /\ OperationRows

\* A lane that has called a tool is at that step, and in no memory.
ToolInv ==
  /\ tool \in [Lanes -> [at : {"none", "called", "back"}, result : Readable]]
  /\ \A l \in Lanes : tool[l].at # "none" => ~IsDone(l) /\ Step(l) = "tool" /\ ~InMemory(l)
-----------------------------------------------------------------------------
LEMMA ProgramTypes ==
  ASSUME SessionTypeOK, NEW l \in Lanes
  PROVE  /\ Steps(l) \in Seq(StepKinds)
         /\ Len(Steps(l)) \in Nat
         /\ at[l] \in Nat
         /\ program.key[l] \in Keys
         /\ ~IsDone(l) => at[l] < Len(Steps(l)) /\ Step(l) \in StepKinds
<1>1. program \in [steps : [Lanes -> Seq(StepKinds)], key : [Lanes -> Keys],
                     lacks : SUBSET Keys, overlap : BOOLEAN]
  BY ProgramsAssumption DEF SessionTypeOK
<1>2. Steps(l) \in Seq(StepKinds) /\ program.key[l] \in Keys
  BY <1>1 DEF Steps
<1>3. at[l] \in Nat /\ at[l] <= Len(Steps(l)) /\ Len(Steps(l)) \in Nat
  BY <1>2 DEF SessionTypeOK
<1>4. ASSUME ~IsDone(l) PROVE at[l] < Len(Steps(l)) /\ Step(l) \in StepKinds
  <2>1. at[l] + 1 \in 1..Len(Steps(l))
    BY <1>3, <1>4 DEF IsDone
  <2> QED BY <1>2, <1>3, <2>1, ElementOfSeq DEF Step
<1> QED BY <1>2, <1>3, <1>4

LEMMA RunTypes ==
  ASSUME SessionTypeOK
  PROVE  /\ RunRows \in Seq(LedgerRow)
         /\ RunSlots \in Seq(Slot)
         /\ RunOperations \in Seq(Operation)
         /\ ~IsLive => Recorded \in Artifact
<1>1. ASSUME ~IsLive PROVE Recorded \in Artifact
  <2>1. artifact \in Seq(Artifact) /\ artifact # << >>
    BY <1>1 DEF SessionTypeOK, IsLive
  <2>2. 1 \in 1..Len(artifact)
    BY <2>1
  <2> QED BY <2>1, <2>2, ElementOfSeq DEF Recorded
<1> QED BY <1>1 DEF SessionTypeOK, RunRows, RunSlots, RunOperations, Artifact

LEMMA RowTypes ==
  ASSUME NEW log \in Seq(LedgerRow), NEW i \in 1..Len(log)
  PROVE  /\ log[i] \in LedgerRow
         /\ log[i].etype \in EventTypes
         /\ log[i].lane \in Lanes
         /\ log[i].step \in Nat
         /\ log[i].val \in Readable
<1>1. log[i] \in LedgerRow
  BY ElementOfSeq
<1> QED BY <1>1 DEF LedgerRow

LEMMA SlotTypes ==
  ASSUME NEW given \in Seq(Slot), NEW i \in 1..Len(given)
  PROVE  given[i] \in Slot /\ given[i].answer \in Readable
<1>1. given[i] \in Slot
  BY ElementOfSeq
<1> QED BY <1>1 DEF Slot

\* A row more is what its own lane reads, and nothing to the others.
LEMMA ReadBehindAppend ==
  ASSUME NEW S, NEW log \in Seq(S), NEW r \in S, NEW l, NEW v,
         r.lane = l => v = r.val,
         r.lane # l => ReadBehind(log, Len(log), l, v)
  PROVE  ReadBehind(Append(log, r), Len(Append(log, r)), l, v)
<1> DEFINE n == Len(log)
           m == Append(log, r)
<1>1. /\ n \in Nat /\ Len(m) = n + 1 /\ m[n + 1] = r
      /\ \A i \in 1..n : m[i] = log[i]
  OBVIOUS
<1> HIDE DEF m, n
<1>2. CASE r.lane = l
  BY <1>1, <1>2 DEF ReadBehind
<1>3. CASE r.lane # l
  <2>1. CASE v = None /\ \A i \in 1..n : log[i].lane # l
    BY <1>1, <1>3, <2>1 DEF ReadBehind
  <2>2. ASSUME NEW i \in 1..n, log[i].lane = l, log[i].val = v,
               \A j \in 1..n : j > i => log[j].lane # l
        PROVE  ReadBehind(m, n + 1, l, v)
    <3>1. i \in 1..(n + 1) /\ m[i].lane = l /\ m[i].val = v
      BY <1>1, <2>2
    <3>2. \A j \in 1..(n + 1) : j > i => m[j].lane # l
      BY <1>1, <1>3, <2>2
    <3> QED BY <3>1, <3>2 DEF ReadBehind
  <2> QED BY <1>1, <1>3, <2>1, <2>2 DEF ReadBehind, n
<1> QED BY <1>2, <1>3 DEF m

LEMMA ReadBehindUnique ==
  ASSUME NEW log, NEW n \in Nat, NEW l, NEW v, NEW w,
         ReadBehind(log, n, l, v), ReadBehind(log, n, l, w)
  PROVE  v = w
BY DEF ReadBehind

LEMMA ReadBehindPrefix ==
  ASSUME NEW log, NEW other, NEW n \in Nat, \A i \in 1..n : log[i] = other[i],
         NEW l, NEW v, ReadBehind(log, n, l, v)
  PROVE  ReadBehind(other, n, l, v)
BY DEF ReadBehind

LEMMA RowAppended ==
  ASSUME SessionInv,
         NEW r \in LedgerRow, ledger' = Append(ledger, r),
         value' \in [Lanes -> Readable],
         value'[r.lane] = r.val,
         \A l \in Lanes : l # r.lane => value'[l] = value[l]
  PROVE  /\ ledger' \in Seq(LedgerRow)
         /\ Len(ledger) \in Nat
         /\ Len(ledger') = Len(ledger) + 1
         /\ ledger'[Len(ledger) + 1] = r
         /\ \A i \in 1..Len(ledger) : ledger'[i] = ledger[i]
         /\ \A l \in Lanes : ReadBehind(ledger', Len(ledger'), l, value'[l])
<1>1. ledger \in Seq(LedgerRow)
  BY DEF SessionInv, SessionTypeOK
<1>2. /\ ledger' \in Seq(LedgerRow)
      /\ Len(ledger) \in Nat
      /\ Len(ledger') = Len(ledger) + 1
      /\ ledger'[Len(ledger) + 1] = r
      /\ \A i \in 1..Len(ledger) : ledger'[i] = ledger[i]
  BY <1>1
<1>3. ASSUME NEW l \in Lanes
      PROVE  ReadBehind(ledger', Len(ledger'), l, value'[l])
  <2> DEFINE v == value'[l]
  <2>1. r.lane = l => v = r.val
    OBVIOUS
  <2>2. r.lane # l => ReadBehind(ledger, Len(ledger), l, v)
    BY DEF SessionInv, ValuesAreRows
  <2> HIDE DEF v
  <2>3. ReadBehind(Append(ledger, r), Len(Append(ledger, r)), l, v)
    BY <1>1, <2>1, <2>2, ReadBehindAppend
  <2>4. ReadBehind(ledger', Len(ledger'), l, v)
    BY <2>3
  <2> QED BY <2>4 DEF v
<1> QED BY <1>2, <1>3

LEMMA AsksKeepsSession ==
  ASSUME RuntimeInv, SessionInv, NEW l \in Lanes, Asks(l)
  PROVE  SessionInv'
<1> DEFINE r == Row("Sent", l, value[l])
           q == [question |-> Question(l), answer |-> None]
<1>1. /\ IsLive /\ ~IsDone(l) /\ Step(l) = "reply" /\ asking[l] = 0 /\ lane[l].stage = "idle"
      /\ ledger' = Append(ledger, r) /\ asking' = [asking EXCEPT ![l] = Len(slots) + 1]
      /\ slots' = Append(slots, q)
      /\ lane' = lane /\ operations' = operations /\ program' = program /\ at' = at
      /\ value' = value /\ errors' = errors /\ artifact' = artifact /\ taken' = taken
      /\ cursor' = cursor
  BY DEF Asks, Resumes, CanGo, MayRun, Free, memoryRest, Reserved
<1>2. value[l] \in Readable /\ at[l] \in Nat /\ value \in [Lanes -> Readable]
  BY DEF SessionInv, SessionTypeOK
<1>3. r \in LedgerRow /\ r.lane = l /\ r.val = value[l]
  BY <1>2 DEF Row, LedgerRow, EventTypes
<1>4. q \in Slot
  BY <1>2 DEF Slot, Question, Readable
<1> HIDE DEF r, q
<1>5. /\ ledger' \in Seq(LedgerRow) /\ Len(ledger) \in Nat /\ Len(ledger') = Len(ledger) + 1
      /\ \A i \in 1..Len(ledger) : ledger'[i] = ledger[i]
      /\ \A m \in Lanes : ReadBehind(ledger', Len(ledger'), m, value'[m])
  <2>1. value' \in [Lanes -> Readable] /\ value'[r.lane] = r.val
        /\ \A m \in Lanes : m # r.lane => value'[m] = value[m]
    BY <1>1, <1>2, <1>3
  <2> QED BY <1>1, <1>3, <2>1, RowAppended
<1>6. slots \in Seq(Slot) /\ slots' \in Seq(Slot) /\ Len(slots') = Len(slots) + 1
      /\ Len(slots) \in Nat
  BY <1>1, <1>4 DEF SessionInv, SessionTypeOK
<1>7. SessionTypeOK'
  BY <1>1, <1>5, <1>6 DEF SessionInv, SessionTypeOK, Steps
<1>8. WaitsInStep'
  <2> SUFFICES ASSUME NEW m \in Lanes
               PROVE  /\ asking'[m] # 0 => /\ ~IsDone(m) /\ Step(m) = "reply" /\ ~InMemory(m)
                                           /\ asking'[m] \in 1..Len(slots')
                      /\ InMemory(m) => ~IsDone(m)
                      /\ InMemory(m) /\ lane[m].stage # "driver" => Step(m) \in {"store", "recall"}
                      /\ InMemory(m) /\ lane[m].stage = "committed" =>
                           lane[m].tick < Len(ledger') /\ ledger'[lane[m].tick + 1].lane = m
    BY <1>1 DEF WaitsInStep, IsDone, Step, Steps, InMemory, IsLive, RunSlots
  <2>1. /\ asking[m] # 0 => /\ ~IsDone(m) /\ Step(m) = "reply" /\ ~InMemory(m)
                            /\ asking[m] \in 1..Len(slots)
        /\ InMemory(m) => ~IsDone(m)
        /\ InMemory(m) /\ lane[m].stage # "driver" => Step(m) \in {"store", "recall"}
        /\ InMemory(m) /\ lane[m].stage = "committed" =>
             lane[m].tick < Len(ledger) /\ ledger[lane[m].tick + 1].lane = m
    BY <1>1 DEF SessionInv, WaitsInStep, RunSlots
  <2>2. lane[m].tick \in Nat
    BY DEF RuntimeInv, RuntimeTypeOK, LaneState
  <2>3. asking'[m] = IF m = l THEN Len(slots) + 1 ELSE asking[m]
    BY <1>1 DEF SessionInv, SessionTypeOK
  <2>4. ~InMemory(l)
    BY <1>1 DEF InMemory
  <2> QED BY <1>1, <1>5, <1>6, <2>1, <2>2, <2>3, <2>4
<1>9. ValuesAreRows'
  BY <1>1, <1>5 DEF ValuesAreRows, IsLive
<1>10. OperationRows'
  BY <1>1 DEF SessionInv, OperationRows, RunOperations, IsLive
<1> QED BY <1>7, <1>8, <1>9, <1>10 DEF SessionInv

LEMMA ArrivesKeepsSession ==
  ASSUME RuntimeInv, SessionInv, NEW l \in Lanes, Arrives(l)
  PROVE  SessionInv'
<1>1. /\ IsLive /\ asking[l] # 0
      /\ ledger' = ledger /\ lane' = lane /\ operations' = operations /\ program' = program
      /\ at' = at /\ asking' = asking /\ value' = value /\ errors' = errors
      /\ artifact' = artifact /\ taken' = taken /\ cursor' = cursor
  BY DEF Arrives, memoryVars, replayVars
<1>2. PICK a \in Answers : slots' = [slots EXCEPT ![asking[l]].answer = a]
  BY DEF Arrives
<1>3. slots \in Seq(Slot) /\ asking[l] \in 1..Len(slots)
  BY <1>1 DEF SessionInv, SessionTypeOK, WaitsInStep, RunSlots
<1>4. slots' \in Seq(Slot) /\ Len(slots') = Len(slots)
  <2>1. slots[asking[l]] \in Slot
    BY <1>3, ElementOfSeq
  <2>2. [slots[asking[l]] EXCEPT !.answer = a] \in Slot
    BY <2>1 DEF Slot, Readable
  <2> QED BY <1>2, <1>3, <2>2
<1>5. SessionTypeOK'
  BY <1>1, <1>4 DEF SessionInv, SessionTypeOK, Steps
<1>6. WaitsInStep'
  BY <1>1, <1>4 DEF SessionInv, WaitsInStep, IsDone, Step, Steps, InMemory, IsLive, RunSlots
<1>7. ValuesAreRows' /\ OperationRows'
  BY <1>1 DEF SessionInv, ValuesAreRows, OperationRows, RunOperations, IsLive
<1> QED BY <1>5, <1>6, <1>7 DEF SessionInv

LEMMA AnsweredKeepsSession ==
  ASSUME RuntimeInv, SessionInv, NEW l \in Lanes, Answered(l)
  PROVE  SessionInv'
<1> DEFINE a == slots[asking[l]].answer
           r == Row("Resolved", l, a)
<1>1. /\ IsLive /\ ~IsDone(l) /\ asking[l] # 0
      /\ ledger' = Append(ledger, r) /\ asking' = [asking EXCEPT ![l] = 0]
      /\ value' = [value EXCEPT ![l] = a] /\ at' = [at EXCEPT ![l] = @ + 1]
      /\ slots' = slots /\ lane' = lane /\ operations' = operations /\ program' = program
      /\ errors' = errors /\ artifact' = artifact /\ taken' = taken /\ cursor' = cursor
  BY DEF Answered, Applied, Moves, Resumes, CanGo, MayRun, memoryRest
<1>2. asking[l] \in 1..Len(slots) /\ ~InMemory(l) /\ slots \in Seq(Slot)
  BY <1>1 DEF SessionInv, SessionTypeOK, WaitsInStep, RunSlots
<1>3. a \in Readable
  BY <1>2, SlotTypes
<1>4. value \in [Lanes -> Readable] /\ at \in [Lanes -> Nat] /\ asking \in [Lanes -> Nat]
  BY DEF SessionInv, SessionTypeOK
<1>5. r \in LedgerRow /\ r.lane = l /\ r.val = a
  BY <1>3, <1>4 DEF Row, LedgerRow, EventTypes
<1> HIDE DEF r, a
<1>6. /\ ledger' \in Seq(LedgerRow) /\ Len(ledger) \in Nat /\ Len(ledger') = Len(ledger) + 1
      /\ \A i \in 1..Len(ledger) : ledger'[i] = ledger[i]
      /\ \A m \in Lanes : ReadBehind(ledger', Len(ledger'), m, value'[m])
  <2>1. value' \in [Lanes -> Readable] /\ value'[r.lane] = r.val
        /\ \A m \in Lanes : m # r.lane => value'[m] = value[m]
    BY <1>1, <1>3, <1>4, <1>5
  <2> QED BY <1>1, <1>5, <2>1, RowAppended
<1>7. \A m \in Lanes : /\ at'[m] = IF m = l THEN at[m] + 1 ELSE at[m]
                       /\ asking'[m] = IF m = l THEN 0 ELSE asking[m]
  BY <1>1, <1>4
<1>8. SessionTypeOK'
  <2>1. \A m \in Lanes : at'[m] <= Len(Steps(m))
    BY <1>1, <1>4, <1>7, ProgramTypes DEF SessionInv, SessionTypeOK
  <2> QED BY <1>1, <1>3, <1>4, <1>6, <2>1 DEF SessionInv, SessionTypeOK, Steps
<1>9. WaitsInStep'
  <2> SUFFICES ASSUME NEW m \in Lanes, m # l
               PROVE  /\ asking[m] # 0 => /\ ~IsDone(m) /\ Step(m) = "reply" /\ ~InMemory(m)
                                          /\ asking[m] \in 1..Len(slots)
                      /\ InMemory(m) => ~IsDone(m)
                      /\ InMemory(m) /\ lane[m].stage # "driver" => Step(m) \in {"store", "recall"}
                      /\ InMemory(m) /\ lane[m].stage = "committed" =>
                           lane[m].tick < Len(ledger') /\ ledger'[lane[m].tick + 1].lane = m
    <3>1. asking'[l] = 0 /\ ~InMemory(l)'
      BY <1>1, <1>2, <1>7 DEF InMemory, IsLive
    <3>2. ASSUME NEW m \in Lanes, m # l
          PROVE  /\ asking'[m] = asking[m] /\ IsDone(m)' = IsDone(m) /\ Step(m)' = Step(m)
                 /\ InMemory(m)' = InMemory(m)
      BY <1>1, <1>7, <3>2 DEF IsDone, Step, Steps, InMemory, IsLive
    <3>3. RunSlots' = slots
      BY <1>1 DEF RunSlots, IsLive
    <3> QED BY <1>1, <3>1, <3>2, <3>3 DEF WaitsInStep
  <2>1. /\ asking[m] # 0 => /\ ~IsDone(m) /\ Step(m) = "reply" /\ ~InMemory(m)
                            /\ asking[m] \in 1..Len(slots)
        /\ InMemory(m) => ~IsDone(m)
        /\ InMemory(m) /\ lane[m].stage # "driver" => Step(m) \in {"store", "recall"}
        /\ InMemory(m) /\ lane[m].stage = "committed" =>
             lane[m].tick < Len(ledger) /\ ledger[lane[m].tick + 1].lane = m
    BY <1>1 DEF SessionInv, WaitsInStep, RunSlots
  <2>2. lane[m].tick \in Nat
    BY DEF RuntimeInv, RuntimeTypeOK, LaneState
  <2> QED BY <1>6, <2>1, <2>2
<1>10. ValuesAreRows'
  BY <1>1, <1>6 DEF ValuesAreRows, IsLive
<1>11. OperationRows'
  BY <1>1 DEF SessionInv, OperationRows, RunOperations, IsLive
<1> QED BY <1>8, <1>9, <1>10, <1>11 DEF SessionInv

\* A lane outside of the memory whose row says what it has read, and which is
\* at one of its steps, or at their end.
LEMMA RowKeepsSession ==
  ASSUME RuntimeInv, SessionInv, NEW l \in Lanes, asking[l] = 0,
         NEW r \in LedgerRow, r.lane = l, ledger' = Append(ledger, r),
         value' = [value EXCEPT ![l] = r.val],
         NEW n \in 0..Len(Steps(l)), at' = [at EXCEPT ![l] = n],
         \A m \in Lanes : m # l => lane'[m] = lane[m], ~InMemory(l)',
         UNCHANGED <<program, asking, slots, operations, errors, artifact, taken, cursor>>
  PROVE  SessionInv'
<1>1. /\ value \in [Lanes -> Readable] /\ at \in [Lanes -> Nat] /\ r.val \in Readable
      /\ n \in Nat /\ n <= Len(Steps(l))
  BY ProgramTypes DEF SessionInv, SessionTypeOK, LedgerRow
<1>2. /\ ledger' \in Seq(LedgerRow) /\ Len(ledger) \in Nat /\ Len(ledger') = Len(ledger) + 1
      /\ \A i \in 1..Len(ledger) : ledger'[i] = ledger[i]
      /\ \A m \in Lanes : ReadBehind(ledger', Len(ledger'), m, value'[m])
  <2>1. value' \in [Lanes -> Readable] /\ value'[r.lane] = r.val
        /\ \A m \in Lanes : m # r.lane => value'[m] = value[m]
    BY <1>1
  <2> QED BY <2>1, RowAppended
<1>3. \A m \in Lanes : at'[m] = IF m = l THEN n ELSE at[m]
  BY <1>1
<1>4. SessionTypeOK'
  <2>1. at' \in [Lanes -> Nat] /\ \A m \in Lanes : at'[m] <= Len(Steps(m))
    BY <1>1, <1>3 DEF SessionInv, SessionTypeOK
  <2> QED BY <1>1, <1>2, <2>1 DEF SessionInv, SessionTypeOK, Steps
<1>5. WaitsInStep'
  <2>1. ASSUME NEW m \in Lanes, m # l
        PROVE  /\ asking'[m] # 0 => /\ ~IsDone(m)' /\ Step(m)' = "reply" /\ ~InMemory(m)'
                                    /\ asking'[m] \in 1..Len(RunSlots)'
               /\ InMemory(m)' => ~IsDone(m)'
               /\ InMemory(m)' /\ lane'[m].stage # "driver" => Step(m)' \in {"store", "recall"}
               /\ InMemory(m)' /\ lane'[m].stage = "committed" =>
                    lane'[m].tick < Len(ledger') /\ ledger'[lane'[m].tick + 1].lane = m
    <3>1. lane'[m] = lane[m] /\ lane[m].tick \in Nat
      BY <2>1 DEF RuntimeInv, RuntimeTypeOK, LaneState
    <3>2. /\ IsDone(m)' = IsDone(m) /\ Step(m)' = Step(m) /\ InMemory(m)' = InMemory(m)
          /\ RunSlots' = RunSlots /\ asking' = asking
      BY <1>3, <2>1, <3>1 DEF IsDone, Step, Steps, InMemory, IsLive, RunSlots, Recorded
    <3>3. /\ asking[m] # 0 => /\ ~IsDone(m) /\ Step(m) = "reply" /\ ~InMemory(m)
                              /\ asking[m] \in 1..Len(RunSlots)
          /\ InMemory(m) => ~IsDone(m)
          /\ InMemory(m) /\ lane[m].stage # "driver" => Step(m) \in {"store", "recall"}
          /\ InMemory(m) /\ lane[m].stage = "committed" =>
               lane[m].tick < Len(ledger) /\ ledger[lane[m].tick + 1].lane = m
      BY DEF SessionInv, WaitsInStep
    <3> QED BY <1>2, <3>1, <3>2, <3>3
  <2> QED BY <2>1 DEF WaitsInStep
<1>6. ValuesAreRows' /\ OperationRows'
  <2>1. /\ Recorded' = Recorded /\ IsLive' = IsLive /\ RunOperations' = RunOperations
    BY DEF RunOperations, IsLive, Recorded
  <2> QED BY <1>2, <2>1 DEF SessionInv, ValuesAreRows, OperationRows
<1> QED BY <1>4, <1>5, <1>6 DEF SessionInv

LEMMA CrashKeepsSession ==
  ASSUME RuntimeInv, SessionInv, NEW l \in Lanes, asking[l] = 0, Contained(l), value' = value,
         \A m \in Lanes : m # l => lane'[m] = lane[m], ~InMemory(l)',
         UNCHANGED <<program, asking, slots, operations, errors, artifact, taken, cursor>>
  PROVE  SessionInv'
<1> DEFINE r == Row("AgentCrashed", l, value[l])
           n == Len(Steps(l))
<1>1. /\ value \in [Lanes -> Readable] /\ at \in [Lanes -> Nat] /\ n \in 0..Len(Steps(l))
  BY ProgramTypes DEF SessionInv, SessionTypeOK
<1>2. ledger' = Append(ledger, r) /\ at' = [at EXCEPT ![l] = n]
  BY DEF Contained
<1>3. r \in LedgerRow /\ r.lane = l /\ r.val = value[l]
  BY <1>1 DEF Row, LedgerRow, EventTypes
<1> HIDE DEF r, n
<1>4. value' = [value EXCEPT ![l] = r.val]
  BY <1>1, <1>3
<1> QED BY <1>1, <1>2, <1>3, <1>4, RowKeepsSession

\* A lane that goes on in its memory step, or leaves it, without a row.
LEMMA LaneKeepsSession ==
  ASSUME RuntimeInv, SessionInv, NEW l \in Lanes, IsLive, ~IsDone(l), asking[l] = 0,
         UNCHANGED <<ledger, operations, program, asking, value, slots, artifact, taken, cursor>>,
         errors' \in BOOLEAN,
         \A m \in Lanes : m # l => lane'[m] = lane[m],
         \/ /\ Moves(l) /\ lane'[l].stage = "idle"
         \/ /\ at' = at
            /\ lane'[l].stage = "driver" \/ Step(l) \in {"store", "recall"}
            /\ lane'[l].stage # "committed"
  PROVE  SessionInv'
<1>1. at \in [Lanes -> Nat]
  BY DEF SessionInv, SessionTypeOK
<1>2. \/ /\ at' = [at EXCEPT ![l] = at[l] + 1] /\ lane'[l].stage = "idle"
      \/ /\ at' = at
         /\ lane'[l].stage = "driver" \/ Step(l) \in {"store", "recall"}
         /\ lane'[l].stage # "committed"
  BY DEF Moves
<1>3. \A m \in Lanes : m # l => at'[m] = at[m] /\ lane'[m] = lane[m]
  BY <1>1, <1>2
<1>4. SessionTypeOK'
  <2>1. at' \in [Lanes -> Nat] /\ \A m \in Lanes : at'[m] <= Len(Steps(m))
    <3>1. at[l] + 1 <= Len(Steps(l)) /\ at[l] + 1 \in Nat
      BY <1>1, ProgramTypes DEF SessionInv
    <3> QED BY <1>1, <1>2, <3>1 DEF SessionInv, SessionTypeOK
  <2> QED BY <2>1 DEF SessionInv, SessionTypeOK, Steps
<1>5. WaitsInStep'
  <2>1. ASSUME NEW m \in Lanes, m # l
        PROVE  /\ asking'[m] # 0 => /\ ~IsDone(m)' /\ Step(m)' = "reply" /\ ~InMemory(m)'
                                    /\ asking'[m] \in 1..Len(RunSlots)'
               /\ InMemory(m)' => ~IsDone(m)'
               /\ InMemory(m)' /\ lane'[m].stage # "driver" => Step(m)' \in {"store", "recall"}
               /\ InMemory(m)' /\ lane'[m].stage = "committed" =>
                    lane'[m].tick < Len(ledger') /\ ledger'[lane'[m].tick + 1].lane = m
    BY <1>3, <2>1 DEF SessionInv, WaitsInStep, IsDone, Step, Steps, InMemory, IsLive, RunSlots
  <2>2. asking'[l] = 0
    OBVIOUS
  <2>3. InMemory(l)' => /\ ~IsDone(l)' /\ lane'[l].stage # "committed"
                        /\ lane'[l].stage # "driver" => Step(l)' \in {"store", "recall"}
    BY <1>2 DEF IsDone, Step, Steps, InMemory, IsLive
  <2> QED BY <2>1, <2>2, <2>3 DEF WaitsInStep
<1>6. ValuesAreRows' /\ OperationRows'
  BY DEF SessionInv, ValuesAreRows, OperationRows, RunOperations, IsLive
<1> QED BY <1>4, <1>5, <1>6 DEF SessionInv

LEMMA MemoryStartsKeepsSession ==
  ASSUME RuntimeInv, SessionInv, NEW l \in Lanes, MemoryStarts(l)
  PROVE  SessionInv'
<1>1. /\ IsLive /\ ~IsDone(l) /\ asking[l] = 0 /\ lane[l].stage = "idle"
      /\ Step(l) \notin {"reply", "tool"}
      /\ UNCHANGED <<program, asking, value, slots, artifact, taken, cursor>>
  BY DEF MemoryStarts, Resumes, CanGo, MayRun, Free
<1>2. Step(l) \in StepKinds
  BY <1>1, ProgramTypes DEF SessionInv
<1>3. /\ UNCHANGED <<ledger, operations>> /\ errors' \in BOOLEAN
      /\ \A m \in Lanes : m # l => lane'[m] = lane[m]
      /\ \/ Moves(l) /\ lane'[l].stage = "idle"
         \/ /\ at' = at
            /\ lane'[l].stage = "driver" \/ Step(l) \in {"store", "recall"}
            /\ lane'[l].stage # "committed"
  <2>0. lane \in [Lanes -> LaneState] /\ errors \in BOOLEAN
    BY DEF RuntimeInv, RuntimeTypeOK, SessionInv, SessionTypeOK
  <2>1. CASE Step(l) = "validate" /\ Validates(l) /\ UNCHANGED <<at, errors>>
    <3>1. lane' = [lane EXCEPT ![l] = Awaiting("driver", Shared(driverPromise), FALSE)]
          /\ ledger' = ledger /\ operations' = operations
      BY <2>1 DEF Validates
    <3>2. lane'[l].stage = "driver" /\ \A m \in Lanes : m # l => lane'[m] = lane[m]
      BY <2>0, <3>1 DEF Awaiting
    <3> QED BY <2>0, <2>1, <3>1, <3>2
  <2>2. CASE /\ Step(l) = "validate" /\ IsOpen /\ driver # 0
             /\ Moves(l) /\ UNCHANGED <<memoryVars, errors>>
    BY <1>1, <2>0, <2>2 DEF memoryVars
  <2>3. CASE Step(l) # "validate" /\ Call(l, program.key[l]) /\ UNCHANGED <<at, errors>>
    <3>1. PICK c \in {coordinators[program.key[l]], Len(creations) + 1}, m \in BOOLEAN :
             lane' = [lane EXCEPT ![l] = Awaiting("await", c, m)]
      BY <2>3 DEF Call
    <3>2. lane'[l].stage = "await" /\ \A m2 \in Lanes : m2 # l => lane'[m2] = lane[m2]
      BY <2>0, <3>1 DEF Awaiting
    <3>3. ledger' = ledger /\ operations' = operations
      BY <2>3 DEF Call
    <3> QED BY <1>1, <1>2, <2>0, <2>3, <3>2, <3>3 DEF StepKinds
  <2>4. CASE ~IsOpen /\ Moves(l) /\ errors' = TRUE /\ UNCHANGED memoryVars
    BY <1>1, <2>4 DEF memoryVars
  <2> QED BY <2>1, <2>2, <2>3, <2>4 DEF MemoryStarts
<1> QED BY <1>1, <1>3, LaneKeepsSession

LEMMA CommitsKeepsSession ==
  ASSUME RuntimeInv, SessionInv, NEW l \in Lanes, IsLive, lane[l].stage = "inside",
         NEW v \in Reads(l), Commits(l, Row(Step(l), l, v)), value' = [value EXCEPT ![l] = v],
         UNCHANGED <<at, errors, program, asking, slots, artifact, taken, cursor>>
  PROVE  SessionInv'
<1> DEFINE r == Row(Step(l), l, v)
<1>1. /\ ~IsDone(l) /\ Step(l) \in {"store", "recall"} /\ asking[l] = 0
  BY DEF SessionInv, WaitsInStep, InMemory
<1>2. /\ value \in [Lanes -> Readable] /\ at \in [Lanes -> Nat] /\ lane \in [Lanes -> LaneState]
  BY DEF SessionInv, SessionTypeOK, RuntimeInv, RuntimeTypeOK
<1>3. v \in Readable
  BY <1>2 DEF Reads, Readable
<1>4. r \in LedgerRow /\ r.lane = l /\ r.val = v
  BY <1>1, <1>2, <1>3 DEF Row, LedgerRow, EventTypes
<1>5. /\ ledger' = Append(ledger, r) /\ operations' = operations
      /\ lane' = [lane EXCEPT ![l].stage = "committed", ![l].tick = Len(ledger)]
  BY DEF Commits
<1> HIDE DEF r
<1>6. /\ ledger' \in Seq(LedgerRow) /\ Len(ledger) \in Nat /\ Len(ledger') = Len(ledger) + 1
      /\ ledger'[Len(ledger) + 1] = r
      /\ \A i \in 1..Len(ledger) : ledger'[i] = ledger[i]
      /\ \A m \in Lanes : ReadBehind(ledger', Len(ledger'), m, value'[m])
  <2>1. value' \in [Lanes -> Readable] /\ value'[r.lane] = r.val
        /\ \A m \in Lanes : m # r.lane => value'[m] = value[m]
    BY <1>2, <1>3, <1>4
  <2> QED BY <1>4, <1>5, <2>1, RowAppended
<1>7. /\ \A m \in Lanes : m # l => lane'[m] = lane[m]
      /\ lane'[l].stage = "committed" /\ lane'[l].tick = Len(ledger)
  BY <1>2, <1>5
<1>8. SessionTypeOK'
  BY <1>2, <1>3, <1>5, <1>6 DEF SessionInv, SessionTypeOK, Steps
<1>9. WaitsInStep'
  <2>1. ASSUME NEW m \in Lanes, m # l
        PROVE  /\ asking'[m] # 0 => /\ ~IsDone(m)' /\ Step(m)' = "reply" /\ ~InMemory(m)'
                                    /\ asking'[m] \in 1..Len(RunSlots)'
               /\ InMemory(m)' => ~IsDone(m)'
               /\ InMemory(m)' /\ lane'[m].stage # "driver" => Step(m)' \in {"store", "recall"}
               /\ InMemory(m)' /\ lane'[m].stage = "committed" =>
                    lane'[m].tick < Len(ledger') /\ ledger'[lane'[m].tick + 1].lane = m
    <3>1. lane'[m] = lane[m] /\ lane[m].tick \in Nat
      BY <1>2, <1>7, <2>1 DEF LaneState
    <3>2. /\ IsDone(m)' = IsDone(m) /\ Step(m)' = Step(m) /\ InMemory(m)' = InMemory(m)
          /\ RunSlots' = RunSlots /\ asking' = asking
      BY <3>1 DEF IsDone, Step, Steps, InMemory, IsLive, RunSlots
    <3>3. /\ asking[m] # 0 => /\ ~IsDone(m) /\ Step(m) = "reply" /\ ~InMemory(m)
                              /\ asking[m] \in 1..Len(RunSlots)
          /\ InMemory(m) => ~IsDone(m)
          /\ InMemory(m) /\ lane[m].stage # "driver" => Step(m) \in {"store", "recall"}
          /\ InMemory(m) /\ lane[m].stage = "committed" =>
               lane[m].tick < Len(ledger) /\ ledger[lane[m].tick + 1].lane = m
      BY DEF SessionInv, WaitsInStep
    <3> QED BY <1>6, <3>1, <3>2, <3>3
  <2>2. asking'[l] = 0
    BY <1>1
  <2>3. ~IsDone(l)' /\ Step(l)' \in {"store", "recall"}
    BY <1>1 DEF IsDone, Step, Steps
  <2>4. lane'[l].tick < Len(ledger') /\ ledger'[lane'[l].tick + 1].lane = l
    BY <1>4, <1>6, <1>7
  <2> QED BY <2>1, <2>2, <2>3, <2>4 DEF WaitsInStep
<1>10. ValuesAreRows'
  BY <1>6 DEF ValuesAreRows, IsLive
<1>11. OperationRows'
  BY <1>5 DEF SessionInv, OperationRows, RunOperations, IsLive
<1> QED BY <1>8, <1>9, <1>10, <1>11 DEF SessionInv

\* The journal gets the row that the lane itself appended.
LEMMA FinishesKeepsSession ==
  ASSUME RuntimeInv, SessionInv, NEW l \in Lanes, IsLive,
         Finishes(l, Request(l, Given(l))), Moves(l),
         UNCHANGED <<program, asking, value, errors, slots, artifact, taken, cursor>>
  PROVE  SessionInv'
<1> DEFINE op == [request |-> Request(l, Given(l)), tick |-> lane[l].tick,
                  row |-> ledger[lane[l].tick + 1], head |-> ledger]
<1>1. /\ lane[l].stage = "committed" /\ operations' = Append(operations, op)
      /\ lane' = [lane EXCEPT ![l] = Idle] /\ ledger' = ledger
      /\ at' = [at EXCEPT ![l] = @ + 1]
  BY DEF Finishes, RecordedHead, Moves
<1>2. /\ ~IsDone(l) /\ Step(l) \in {"store", "recall"} /\ asking[l] = 0
      /\ lane[l].tick < Len(ledger) /\ ledger[lane[l].tick + 1].lane = l
  BY <1>1 DEF SessionInv, WaitsInStep, InMemory
<1>3. /\ value \in [Lanes -> Readable] /\ at \in [Lanes -> Nat] /\ lane \in [Lanes -> LaneState]
      /\ ledger \in Seq(LedgerRow) /\ operations \in Seq(Operation) /\ lane[l].tick \in Nat
  BY DEF SessionInv, SessionTypeOK, RuntimeInv, RuntimeTypeOK, LaneState
<1>4. Given(l) \in Readable
  BY <1>3 DEF Given, Readable
<1>5. Request(l, Given(l)) \in [kind : StepKinds, lane : Lanes, step : Nat, val : Readable]
  BY <1>2, <1>3, <1>4 DEF Request, StepKinds
<1>6. Request(l, Given(l)).lane = l
  BY DEF Request
<1>7. ledger[lane[l].tick + 1] \in LedgerRow
  <2>1. lane[l].tick + 1 \in 1..Len(ledger)
    BY <1>2, <1>3
  <2> QED BY <1>3, <2>1, ElementOfSeq
<1>8. op \in Operation /\ op.row.lane = op.request.lane
  BY <1>2, <1>3, <1>5, <1>6, <1>7 DEF Operation
<1> HIDE DEF op
<1>9. /\ operations' \in Seq(Operation) /\ Len(operations') = Len(operations) + 1
      /\ Len(operations) \in Nat /\ operations'[Len(operations) + 1] = op
      /\ \A i \in 1..Len(operations) : operations'[i] = operations[i]
  BY <1>1, <1>3, <1>8
<1>10. /\ \A m \in Lanes : m # l => lane'[m] = lane[m] /\ at'[m] = at[m]
       /\ lane'[l].stage = "idle" /\ at'[l] = at[l] + 1
  BY <1>1, <1>3 DEF Idle
<1>11. SessionTypeOK'
  <2>1. at' \in [Lanes -> Nat] /\ \A m \in Lanes : at'[m] <= Len(Steps(m))
    <3>1. at[l] + 1 <= Len(Steps(l)) /\ at[l] + 1 \in Nat
      BY <1>2, ProgramTypes DEF SessionInv
    <3> QED BY <1>1, <1>3, <1>10, <3>1 DEF SessionInv, SessionTypeOK
  <2> QED BY <1>1, <1>9, <2>1 DEF SessionInv, SessionTypeOK, Steps
<1>12. WaitsInStep'
  <2>1. ASSUME NEW m \in Lanes, m # l
        PROVE  /\ asking'[m] # 0 => /\ ~IsDone(m)' /\ Step(m)' = "reply" /\ ~InMemory(m)'
                                    /\ asking'[m] \in 1..Len(RunSlots)'
               /\ InMemory(m)' => ~IsDone(m)'
               /\ InMemory(m)' /\ lane'[m].stage # "driver" => Step(m)' \in {"store", "recall"}
               /\ InMemory(m)' /\ lane'[m].stage = "committed" =>
                    lane'[m].tick < Len(ledger') /\ ledger'[lane'[m].tick + 1].lane = m
    <3>1. lane'[m] = lane[m] /\ at'[m] = at[m]
      BY <1>10, <2>1
    <3> QED BY <1>1, <3>1 DEF SessionInv, WaitsInStep, IsDone, Step, Steps, InMemory, IsLive, RunSlots
  <2>2. asking'[l] = 0 /\ ~InMemory(l)'
    BY <1>2, <1>10 DEF InMemory
  <2> QED BY <2>1, <2>2 DEF WaitsInStep
<1>13. ValuesAreRows'
  BY <1>1 DEF SessionInv, ValuesAreRows, IsLive
<1>14. OperationRows'
  <2>1. RunOperations' = operations' /\ RunOperations = operations
    BY DEF RunOperations, IsLive
  <2> QED BY <1>8, <1>9, <2>1 DEF SessionInv, OperationRows
<1> QED BY <1>11, <1>12, <1>13, <1>14 DEF SessionInv

LEMMA MemoryGoesOnKeepsSession ==
  ASSUME RuntimeInv, SessionInv, NEW l \in Lanes, MemoryGoesOn(l)
  PROVE  SessionInv'
<1>1. /\ IsLive /\ lane[l].stage # "idle"
      /\ UNCHANGED <<program, asking, slots, artifact, taken, cursor>>
  BY DEF MemoryGoesOn, replayVars
<1>2. ~IsDone(l) /\ asking[l] = 0 /\ (lane[l].stage # "driver" => Step(l) \in {"store", "recall"})
  BY <1>1 DEF SessionInv, WaitsInStep, InMemory
<1>3. lane \in [Lanes -> LaneState] /\ errors \in BOOLEAN /\ Idle.stage = "idle"
  BY DEF RuntimeInv, RuntimeTypeOK, SessionInv, SessionTypeOK, Idle
<1>4. CASE Validated(l) /\ Moves(l) /\ UNCHANGED value /\ errors' = (errors \/ driver' = 0)
  <2>1. lane' = [lane EXCEPT ![l] = Idle] /\ ledger' = ledger /\ operations' = operations
    BY <1>4 DEF Validated
  <2>2. errors' \in BOOLEAN
    BY <1>4
  <2>3. lane'[l].stage = "idle" /\ \A m \in Lanes : m # l => lane'[m] = lane[m]
    BY <1>3, <2>1
  <2> QED BY <1>1, <1>2, <1>4, <2>1, <2>2, <2>3, LaneKeepsSession
<1>5. CASE Enter(l) /\ UNCHANGED <<at, value, errors>>
  <2>1. /\ lane[l].stage = "await" /\ lane' = [lane EXCEPT ![l].stage = "inside"]
        /\ ledger' = ledger /\ operations' = operations
    BY <1>5 DEF Enter
  <2>2. lane'[l].stage = "inside" /\ \A m \in Lanes : m # l => lane'[m] = lane[m]
    BY <1>3, <2>1 DEF LaneState
  <2> QED BY <1>1, <1>2, <1>3, <1>5, <2>1, <2>2, LaneKeepsSession
<1>6. CASE \E v \in Reads(l) : /\ InScope(l) /\ Commits(l, Row(Step(l), l, v))
                               /\ value' = [value EXCEPT ![l] = v]
                               /\ UNCHANGED <<at, errors>>
  <2>1. lane[l].stage = "inside"
    BY <1>6 DEF Commits
  <2> QED BY <1>1, <1>6, <2>1, CommitsKeepsSession
<1>7. CASE Finishes(l, Request(l, Given(l))) /\ Moves(l) /\ UNCHANGED <<value, errors>>
  BY <1>1, <1>7, FinishesKeepsSession
<1>8. CASE /\ Refused(l) \/ (InScope(l) /\ Fails(l))
           /\ Moves(l) /\ errors' = TRUE /\ UNCHANGED value
  <2>1. lane' = [lane EXCEPT ![l] = Idle] /\ ledger' = ledger /\ operations' = operations
    BY <1>8 DEF Refused, Fails
  <2>2. lane'[l].stage = "idle" /\ \A m \in Lanes : m # l => lane'[m] = lane[m]
    BY <1>3, <2>1
  <2> QED BY <1>1, <1>2, <1>8, <2>1, <2>2, LaneKeepsSession
<1>9. CASE OutOfScope(l) /\ UNCHANGED value
  <2>1. lane' = [lane EXCEPT ![l] = Idle] /\ operations' = operations
    BY <1>9 DEF OutOfScope
  <2>2. lane'[l].stage = "idle" /\ \A m \in Lanes : m # l => lane'[m] = lane[m]
    BY <1>3, <2>1
  <2>3. CASE Contained(l) /\ UNCHANGED errors
    BY <1>1, <1>2, <1>9, <2>1, <2>2, <2>3, CrashKeepsSession DEF InMemory
  <2>4. CASE Moves(l) /\ errors' = TRUE /\ UNCHANGED ledger
    BY <1>1, <1>2, <1>9, <2>1, <2>2, <2>4, LaneKeepsSession
  <2> QED BY <1>9, <2>3, <2>4 DEF OutOfScope
<1> QED BY <1>4, <1>5, <1>6, <1>7, <1>8, <1>9 DEF MemoryGoesOn

\* What the runtime does by itself leaves the lanes and the journals alone.
LEMMA FrameKeepsSession ==
  ASSUME SessionInv,
         UNCHANGED <<ledger, operations, lane, program, at, asking, value, slots, artifact,
                     taken, cursor>>,
         errors' \in BOOLEAN
  PROVE  SessionInv'
<1>1. SessionTypeOK'
  BY DEF SessionInv, SessionTypeOK, Steps
<1>2. WaitsInStep'
  <2>1. /\ \A m \in Lanes : /\ IsDone(m)' = IsDone(m) /\ Step(m)' = Step(m)
                            /\ InMemory(m)' = InMemory(m)
        /\ RunSlots' = RunSlots /\ asking' = asking /\ lane' = lane /\ ledger' = ledger
    BY DEF IsDone, Step, Steps, InMemory, IsLive, RunSlots, Recorded
  <2> QED BY <2>1 DEF SessionInv, WaitsInStep
<1>3. ValuesAreRows' /\ OperationRows'
  <2>1. /\ ledger' = ledger /\ value' = value /\ Recorded' = Recorded /\ IsLive' = IsLive
        /\ RunOperations' = RunOperations
    BY DEF RunOperations, IsLive, Recorded
  <2> QED BY <2>1 DEF SessionInv, ValuesAreRows, OperationRows
<1> QED BY <1>1, <1>2, <1>3 DEF SessionInv

\* The tools change nothing but the ledger and their own lane.
LEMMA ToolStepKeepsSession ==
  ASSUME RuntimeInv, SessionInv, ToolInv, ToolStep
  PROVE  SessionInv'
<1>1. /\ UNCHANGED <<program, asking, slots, artifact, taken, cursor, operations, lane>>
      /\ value \in [Lanes -> Readable] /\ at \in [Lanes -> Nat] /\ errors \in BOOLEAN
  BY DEF ToolStep, ToolCalled, ToolReturns, ToolAnswered, ToolFailed, memoryRest, memoryVars,
         replayVars, SessionInv, SessionTypeOK
<1>2. ASSUME NEW l \in Lanes, Step(l) = "tool"
      PROVE  asking[l] = 0
  BY <1>2 DEF SessionInv, WaitsInStep
<1>3. ASSUME NEW l \in Lanes, ToolCalled(l) PROVE SessionInv'
  <2> DEFINE r == Row("ToolStarted", l, value[l])
  <2>1. /\ ~IsDone(l) /\ Step(l) = "tool" /\ asking[l] = 0 /\ lane[l].stage = "idle"
        /\ ledger' = Append(ledger, r) /\ at' = at /\ value' = value /\ errors' = errors
    BY <1>3 DEF ToolCalled, Resumes, CanGo, MayRun, Free
  <2>2. r \in LedgerRow /\ r.lane = l /\ r.val = value[l]
    BY <1>1 DEF Row, LedgerRow, EventTypes
  <2>3. at[l] \in 0..Len(Steps(l)) /\ at' = [at EXCEPT ![l] = at[l]]
    BY <1>1, <2>1, ProgramTypes DEF SessionInv, SessionTypeOK
  <2> HIDE DEF r
  <2>4. value' = [value EXCEPT ![l] = r.val] /\ ~InMemory(l)'
    BY <1>1, <2>1, <2>2 DEF InMemory
  <2> QED BY <1>1, <2>1, <2>2, <2>3, <2>4, RowKeepsSession
<1>4. ASSUME NEW l \in Lanes, ToolReturns(l) PROVE SessionInv'
  <2>1. UNCHANGED <<ledger, at, value, errors>>
    BY <1>4 DEF ToolReturns, memoryVars
  <2> QED BY <1>1, <2>1, FrameKeepsSession
<1>5. ASSUME NEW l \in Lanes, ToolAnswered(l) PROVE SessionInv'
  <2> DEFINE r == Row("ToolResolved", l, tool[l].result)
  <2>1. /\ ~IsDone(l) /\ Step(l) = "tool" /\ ~InMemory(l) /\ tool[l].result \in Readable
    BY <1>5 DEF ToolAnswered, ToolInv
  <2>2. /\ ledger' = Append(ledger, r) /\ at' = [at EXCEPT ![l] = at[l] + 1]
        /\ value' = [value EXCEPT ![l] = tool[l].result] /\ errors' = errors
    BY <1>5 DEF ToolAnswered, Moves
  <2>3. r \in LedgerRow /\ r.lane = l /\ r.val = tool[l].result
    BY <1>1, <2>1 DEF Row, LedgerRow, EventTypes
  <2>4. at[l] + 1 \in 0..Len(Steps(l))
    BY <1>1, <2>1, ProgramTypes DEF SessionInv
  <2> HIDE DEF r
  <2>5. asking[l] = 0 /\ ~InMemory(l)'
    BY <1>1, <1>2, <2>1 DEF InMemory, IsLive
  <2>6. value' = [value EXCEPT ![l] = r.val]
    BY <2>2, <2>3
  <2> QED BY <1>1, <2>2, <2>3, <2>4, <2>5, <2>6, RowKeepsSession
<1>6. ASSUME NEW l \in Lanes, ToolFailed(l) PROVE SessionInv'
  <2>1. /\ ~IsDone(l) /\ Step(l) = "tool" /\ ~InMemory(l) /\ value' = value
        /\ \A m \in Lanes : m # l => lane'[m] = lane[m]
    BY <1>1, <1>6 DEF ToolFailed, ToolInv
  <2>2. asking[l] = 0 /\ ~InMemory(l)'
    BY <1>1, <1>2, <2>1 DEF InMemory, IsLive
  <2>3. CASE Contained(l) /\ UNCHANGED errors
    BY <1>1, <2>1, <2>2, <2>3, CrashKeepsSession
  <2>4. CASE IsLive /\ Moves(l) /\ errors' = TRUE /\ UNCHANGED ledger
    <3>1. lane'[l].stage = "idle"
      BY <2>2, <2>4, <1>1 DEF InMemory, IsLive
    <3> QED BY <1>1, <2>1, <2>2, <2>4, <3>1, LaneKeepsSession
  <2>5. CASE UNCHANGED <<ledger, at, errors>>
    BY <1>1, <2>1, <2>5, FrameKeepsSession
  <2> QED BY <1>6, <2>3, <2>4, <2>5 DEF ToolFailed
<1> QED BY <1>3, <1>4, <1>5, <1>6 DEF ToolStep

LEMMA RuntimeFrame ==
  ASSUME Runtime
  PROVE  /\ IsLive
         /\ UNCHANGED <<ledger, operations, lane, program, at, asking, value, slots, artifact,
                        taken, cursor, ready, verdict>>
         /\ errors' = (errors \/ (closing /\ ~closing'))
BY DEF Runtime, replayVars, DriverSettles, CreationSettles, BeginClose, CloseCoordinator,
       CloseFails, CloseDriver

LEMMA RuntimeKeepsSession ==
  ASSUME SessionInv, Runtime
  PROVE  SessionInv'
<1>1. errors' \in BOOLEAN
  BY RuntimeFrame
<1> QED BY <1>1, RuntimeFrame, FrameKeepsSession

LEMMA RecordsKeepsSession ==
  ASSUME SessionInv, Records
  PROVE  /\ SessionInv'
         /\ IsLive /\ ~IsLive' /\ RunRows' = ledger /\ RunSlots' = slots
         /\ RunOperations' = operations
<1> DEFINE a == [provider |-> slots, memory |-> operations, head |-> ledger, read |-> value]
<1>1. /\ IsLive /\ artifact' = <<a>>
      /\ at' = AtStart /\ asking' = AtStart /\ value' = NoValue /\ slots' = << >>
      /\ ledger' = << >> /\ operations' = << >>
      /\ UNCHANGED <<lane, program, errors, taken, cursor>>
  BY DEF Records
<1>2. a \in Artifact
  BY DEF SessionInv, SessionTypeOK, Artifact
<1>3. artifact' \in Seq(Artifact) /\ Len(artifact') = 1 /\ artifact' # << >> /\ artifact'[1] = a
  BY <1>1, <1>2
<1>4. ~IsLive' /\ Recorded' = a
  BY <1>3 DEF IsLive, Recorded
<1>5. RunRows' = ledger /\ RunSlots' = slots /\ RunOperations' = operations
      /\ Recorded'.head = ledger /\ Recorded'.read = value
  BY <1>4 DEF RunRows, RunSlots, RunOperations
<1> HIDE DEF a
<1>6. SessionTypeOK'
  <2>1. /\ ledger' \in Seq(LedgerRow) /\ operations' \in Seq(Operation) /\ slots' \in Seq(Slot)
        /\ at' \in [Lanes -> Nat] /\ asking' \in [Lanes -> Nat] /\ value' \in [Lanes -> Readable]
    BY <1>1 DEF AtStart, NoValue, Readable
  <2>2. \A l \in Lanes : at'[l] <= Len(Steps(l))
    BY <1>1, ProgramTypes DEF SessionInv, AtStart
  <2> QED BY <1>1, <1>3, <2>1, <2>2 DEF SessionInv, SessionTypeOK, Steps
<1>7. WaitsInStep'
  BY <1>1, <1>4 DEF WaitsInStep, AtStart, InMemory
<1>8. ValuesAreRows'
  <2>1. \A l \in Lanes : ReadBehind(ledger', Len(ledger'), l, value'[l])
    BY <1>1 DEF NoValue, ReadBehind
  <2>2. \A l \in Lanes : ReadBehind(ledger, Len(ledger), l, value[l])
    BY DEF SessionInv, ValuesAreRows
  <2> QED BY <1>5, <2>1, <2>2 DEF ValuesAreRows
<1>9. OperationRows'
  BY <1>1, <1>5 DEF SessionInv, OperationRows, RunOperations
<1> QED BY <1>1, <1>4, <1>5, <1>6, <1>7, <1>8, <1>9 DEF SessionInv

\* A step of the replay that takes a row from the ledger it repeats, or none.
LEMMA ReplayKeepsSession ==
  ASSUME SessionInv, ~IsLive, NEW l \in Lanes, ~IsDone(l),
         UNCHANGED <<program, slots, operations, errors, artifact>>,
         \/ UNCHANGED <<ledger, value>>
         \/ \E r \in LedgerRow : r.lane = l /\ ledger' = Append(ledger, r)
                                 /\ value' = [value EXCEPT ![l] = r.val],
         \/ at' = at /\ asking' = asking
         \/ /\ at' = at /\ Step(l) = "reply"
            /\ \E n \in 1..Len(Recorded.provider) : asking' = [asking EXCEPT ![l] = n]
         \/ Moves(l) /\ (asking' = [asking EXCEPT ![l] = 0] \/ (asking' = asking /\ asking[l] = 0)),
         taken' \in Nat, cursor' \in Nat
  PROVE  SessionInv'
<1>1. /\ value \in [Lanes -> Readable] /\ at \in [Lanes -> Nat] /\ asking \in [Lanes -> Nat]
      /\ ledger \in Seq(LedgerRow)
  BY DEF SessionInv, SessionTypeOK
<1>2. ~IsLive' /\ Recorded' = Recorded /\ RunSlots' = Recorded.provider
      /\ RunSlots = Recorded.provider /\ RunOperations' = RunOperations
  BY DEF IsLive, Recorded, RunSlots, RunOperations
<1>3. Recorded \in Artifact /\ Recorded.provider \in Seq(Slot)
  BY RunTypes DEF SessionInv, Artifact
<1>4. /\ ledger' \in Seq(LedgerRow) /\ value' \in [Lanes -> Readable]
      /\ \A m \in Lanes : ReadBehind(ledger', Len(ledger'), m, value'[m])
  <2>1. CASE UNCHANGED <<ledger, value>>
    BY <1>1, <2>1 DEF SessionInv, ValuesAreRows
  <2>2. ASSUME NEW r \in LedgerRow, r.lane = l, ledger' = Append(ledger, r),
               value' = [value EXCEPT ![l] = r.val]
        PROVE  /\ ledger' \in Seq(LedgerRow) /\ value' \in [Lanes -> Readable]
               /\ \A m \in Lanes : ReadBehind(ledger', Len(ledger'), m, value'[m])
    <3>1. r.val \in Readable
      BY DEF LedgerRow
    <3>2. value' \in [Lanes -> Readable] /\ value'[r.lane] = r.val
          /\ \A m \in Lanes : m # r.lane => value'[m] = value[m]
      BY <1>1, <2>2, <3>1
    <3> QED BY <2>2, <3>2, RowAppended
  <2> QED BY <2>1, <2>2
<1>5. /\ at' \in [Lanes -> Nat] /\ asking' \in [Lanes -> Nat]
      /\ \A m \in Lanes : m # l => at'[m] = at[m] /\ asking'[m] = asking[m]
      /\ at'[l] <= Len(Steps(l))
      /\ asking'[l] # 0 => at'[l] = at[l] /\ Step(l) = "reply" /\ asking'[l] \in 1..Len(RunSlots)
  <2>1. at[l] + 1 <= Len(Steps(l)) /\ at[l] + 1 \in Nat /\ at[l] <= Len(Steps(l)) /\ at[l] \in Nat
    BY ProgramTypes DEF SessionInv, SessionTypeOK
  <2>2. asking[l] # 0 => Step(l) = "reply" /\ asking[l] \in 1..Len(RunSlots)
    BY DEF SessionInv, WaitsInStep
  <2>3. CASE at' = at /\ asking' = asking
    BY <1>1, <2>1, <2>2, <2>3
  <2>4. CASE /\ at' = at /\ Step(l) = "reply"
             /\ \E n \in 1..Len(Recorded.provider) : asking' = [asking EXCEPT ![l] = n]
    <3>1. PICK n \in 1..Len(RunSlots) : asking' = [asking EXCEPT ![l] = n]
      BY <1>2, <2>4
    <3>2. n \in Nat
      BY <1>2, <1>3, <3>1
    <3> QED BY <1>1, <2>1, <2>4, <3>1, <3>2
  <2>5. CASE Moves(l) /\ (asking' = [asking EXCEPT ![l] = 0] \/ (asking' = asking /\ asking[l] = 0))
    <3>1. at' = [at EXCEPT ![l] = at[l] + 1]
      BY <2>5 DEF Moves
    <3>2. at' \in [Lanes -> Nat] /\ at'[l] = at[l] + 1 /\ \A m \in Lanes : m # l => at'[m] = at[m]
      BY <1>1, <2>1, <3>1
    <3>3. /\ asking' \in [Lanes -> Nat] /\ asking'[l] = 0
          /\ \A m \in Lanes : m # l => asking'[m] = asking[m]
      BY <1>1, <2>5
    <3> QED BY <2>1, <3>2, <3>3
  <2> QED BY <2>3, <2>4, <2>5
<1>6. SessionTypeOK'
  BY <1>4, <1>5 DEF SessionInv, SessionTypeOK, Steps
<1>7. WaitsInStep'
  <2>1. \A m \in Lanes : ~InMemory(m)'
    BY <1>2 DEF InMemory
  <2>2. ASSUME NEW m \in Lanes, asking'[m] # 0
        PROVE  ~IsDone(m)' /\ Step(m)' = "reply" /\ asking'[m] \in 1..Len(RunSlots)'
    <3>1. IsDone(m)' = IsDone(m) /\ Step(m)' = Step(m)
      BY <1>5, <2>2 DEF IsDone, Step, Steps
    <3> QED BY <1>2, <1>5, <2>2, <3>1 DEF SessionInv, WaitsInStep
  <2> QED BY <2>1, <2>2 DEF WaitsInStep
<1>8. ValuesAreRows'
  BY <1>2, <1>4 DEF SessionInv, ValuesAreRows
<1>9. OperationRows'
  BY <1>2 DEF SessionInv, OperationRows
<1> QED BY <1>6, <1>7, <1>8, <1>9 DEF SessionInv

LEMMA ReplayStepKeepsSession ==
  ASSUME SessionInv, ReplayStep
  PROVE  SessionInv'
<1>1. UNCHANGED <<program, slots, operations, errors, artifact>> /\ UNCHANGED memoryRest
  BY DEF ReplayStep, memoryRest
<1>2. taken \in Nat /\ cursor \in Nat /\ at \in [Lanes -> Nat] /\ value \in [Lanes -> Readable]
  BY DEF SessionInv, SessionTypeOK
<1>3. ASSUME NEW l \in Lanes, ReplayAsks(l) PROVE SessionInv'
  <2>1. ~IsLive /\ ~IsDone(l) /\ Step(l) = "reply" /\ asking[l] = 0
    BY <1>3 DEF ReplayAsks, Resumes, CanGo, MayRun, Free
  <2>2. CASE Refuses
    BY <1>1, <1>2, <2>1, <2>2, ReplayKeepsSession DEF Refuses
  <2>3. CASE /\ taken < Len(Recorded.provider)
             /\ taken' = taken + 1 /\ asking' = [asking EXCEPT ![l] = taken + 1]
             /\ ledger' = Append(ledger, Row("Sent", l, value[l]))
             /\ UNCHANGED <<at, value, cursor, verdict>>
    <3>1. Row("Sent", l, value[l]) \in LedgerRow /\ Row("Sent", l, value[l]).lane = l
      BY <1>2 DEF Row, LedgerRow, EventTypes
    <3>2. value' = [value EXCEPT ![l] = Row("Sent", l, value[l]).val]
      BY <1>2, <2>3 DEF Row
    <3>3. Len(Recorded.provider) \in Nat
      BY <2>1, RunTypes DEF SessionInv, Artifact
    <3>4. taken + 1 \in 1..Len(Recorded.provider)
      BY <1>2, <2>3, <3>3
    <3>5. \E r \in LedgerRow : r.lane = l /\ ledger' = Append(ledger, r)
                              /\ value' = [value EXCEPT ![l] = r.val]
      BY <2>3, <3>1, <3>2
    <3>6. \E n \in 1..Len(Recorded.provider) : asking' = [asking EXCEPT ![l] = n]
      BY <2>3, <3>4
    <3>7. taken' \in Nat /\ cursor' \in Nat /\ at' = at
      BY <1>2, <2>3
    <3> QED BY <1>1, <2>1, <3>5, <3>6, <3>7, ReplayKeepsSession
  <2> QED BY <1>3, <2>2, <2>3 DEF ReplayAsks
<1>4. ASSUME NEW l \in Lanes, ReplayAnswered(l) PROVE SessionInv'
  <2> DEFINE a == Recorded.provider[asking[l]].answer
             r == Row("Resolved", l, a)
  <2>1. /\ ~IsLive /\ ~IsDone(l) /\ asking[l] # 0
        /\ value' = [value EXCEPT ![l] = a] /\ ledger' = Append(ledger, r)
        /\ asking' = [asking EXCEPT ![l] = 0] /\ Moves(l) /\ UNCHANGED <<taken, cursor>>
    BY <1>4 DEF ReplayAnswered, Applied, Resumes, CanGo, MayRun
  <2>2. asking[l] \in 1..Len(Recorded.provider) /\ Recorded.provider \in Seq(Slot)
    BY <2>1, RunTypes DEF SessionInv, WaitsInStep, RunSlots, Artifact
  <2>3. a \in Readable
    BY <2>2, SlotTypes
  <2>4. r \in LedgerRow /\ r.lane = l /\ r.val = a
    BY <1>2, <2>3 DEF Row, LedgerRow, EventTypes
  <2> HIDE DEF a, r
  <2>5. value' = [value EXCEPT ![l] = r.val]
    BY <2>1, <2>4
  <2> QED BY <1>1, <1>2, <2>1, <2>4, <2>5, ReplayKeepsSession
<1>5. ASSUME NEW l \in Lanes, ReplayMemory(l) PROVE SessionInv'
  <2> DEFINE op == Recorded.memory[cursor + 1]
  <2>1. ~IsLive /\ ~IsDone(l) /\ Step(l) # "reply"
    BY <1>5 DEF ReplayMemory, Resumes, CanGo, MayRun
  <2>2. asking[l] = 0
    BY <2>1 DEF SessionInv, WaitsInStep
  <2>3. CASE Refuses
    BY <1>1, <1>2, <2>1, <2>3, ReplayKeepsSession DEF Refuses
  <2>4. CASE /\ cursor < Len(Recorded.memory) /\ op.request = Request(l, Given(l))
             /\ cursor' = cursor + 1 /\ ledger' = Append(ledger, op.row)
             /\ value' = [value EXCEPT ![l] = op.row.val]
             /\ Moves(l) /\ UNCHANGED <<asking, taken, verdict>>
    <3>1. Recorded.memory \in Seq(Operation) /\ RunOperations = Recorded.memory
      BY <2>1, RunTypes DEF SessionInv, Artifact, RunOperations
    <3>2. cursor + 1 \in 1..Len(Recorded.memory)
      BY <1>2, <2>4, <3>1
    <3>3. op \in Operation /\ op.row.lane = op.request.lane
      BY <3>1, <3>2, ElementOfSeq DEF SessionInv, OperationRows
    <3>4. op.row \in LedgerRow /\ op.row.lane = l
      BY <2>4, <3>3 DEF Operation, Request
    <3>5. \E r \in LedgerRow : r.lane = l /\ ledger' = Append(ledger, r)
                              /\ value' = [value EXCEPT ![l] = r.val]
      BY <2>4, <3>4
    <3>6. taken' \in Nat /\ cursor' \in Nat /\ asking' = asking
      BY <1>2, <2>4
    <3> QED BY <1>1, <2>1, <2>2, <2>4, <3>5, <3>6, ReplayKeepsSession
  <2> QED BY <1>5, <2>3, <2>4 DEF ReplayMemory, Appends
<1>6. ASSUME NEW l \in Lanes, ReplayValidates(l) PROVE SessionInv'
  <2>1. /\ ~IsLive /\ ~IsDone(l) /\ Step(l) = "validate" /\ Moves(l)
        /\ UNCHANGED <<ledger, asking, value, taken, cursor, verdict>>
    BY <1>6 DEF ReplayValidates, Resumes, CanGo, MayRun
  <2>2. asking[l] = 0
    BY <2>1 DEF SessionInv, WaitsInStep
  <2> QED BY <1>1, <1>2, <2>1, <2>2, ReplayKeepsSession
<1>7. ASSUME ReplayEnds PROVE SessionInv'
  <2>1. UNCHANGED <<ledger, operations, lane, program, at, asking, value, slots, artifact,
                    taken, cursor, errors>>
    BY <1>1, <1>7 DEF ReplayEnds, memoryRest
  <2>2. errors' \in BOOLEAN
    BY <2>1 DEF SessionInv, SessionTypeOK
  <2> QED BY <2>1, <2>2, FrameKeepsSession
<1> QED BY <1>3, <1>4, <1>5, <1>6, <1>7 DEF ReplayStep

-----------------------------------------------------------------------------
(* The theorems about any recorded run and its replay.                       *)

\* A replay is accepted under the head of the recording.
VerdictIsEarned == verdict = "replayed" => ~IsLive /\ ledger = Recorded.head

RecordingInv == RuntimeInv /\ SessionInv /\ ToolInv /\ VerdictIsEarned

LEMMA RuntimeFrameKeeps ==
  ASSUME RuntimeInv,
         UNCHANGED <<driverPromise, driver, drivers, coordinators, creations, closing, closed,
                     handled, lane>>
  PROVE  RuntimeInv'
BY DEF RuntimeInv, RuntimeTypeOK, AwaitedExist, LiveDriverIsLast, LastDriver, LiveCreationIsHeld,
       HandledIsClosed, ClosedIsReleased

LEMMA RuntimeStepKeeps ==
  ASSUME RuntimeInv, SessionInv, [Next]_vars
  PROVE  RuntimeInv'
<1>0. Len(ledger) \in Nat
  BY DEF SessionInv, SessionTypeOK
<1>1. ASSUME NEW l \in Lanes, Asks(l) \/ Arrives(l) \/ Answered(l) PROVE RuntimeInv'
  BY <1>1, RuntimeFrameKeeps DEF Asks, Arrives, Answered, memoryRest, memoryVars
<1>2. ASSUME NEW l \in Lanes, MemoryStarts(l) PROVE RuntimeInv'
  <2>1. program.key[l] \in Keys
    BY ProgramTypes DEF SessionInv
  <2>2. CASE Validates(l)
    BY <2>2, ValidatesKeeps
  <2>3. CASE Call(l, program.key[l])
    BY <2>1, <2>3, CallKeeps
  <2>4. CASE UNCHANGED memoryVars
    BY <2>4, RuntimeFrameKeeps DEF memoryVars
  <2> QED BY <1>2, <2>2, <2>3, <2>4 DEF MemoryStarts
<1>3. ASSUME NEW l \in Lanes, MemoryGoesOn(l) PROVE RuntimeInv'
  <2>1. CASE Validated(l)
    BY <2>1, ValidatedKeeps
  <2>2. CASE Refused(l)
    BY <2>2, RefusedKeeps
  <2>3. CASE \/ Enter(l) \/ Fails(l) \/ OutOfScope(l) \/ (\E row : Commits(l, row))
             \/ (\E request : Finishes(l, request))
    BY <1>0, <2>3, LaneStepKeeps
  <2> QED BY <1>3, <2>1, <2>2, <2>3 DEF MemoryGoesOn
<1>4. ASSUME Runtime PROVE RuntimeInv'
  BY <1>4, DriverSettlesKeeps, CreationSettlesKeeps, BeginCloseKeeps, CloseCoordinatorKeeps,
     CloseDriverKeeps DEF Runtime
<1>5. ASSUME Records PROVE RuntimeInv'
  BY <1>5, RuntimeFrameKeeps DEF Records
<1>6. ASSUME ReplayStep PROVE RuntimeInv'
  BY <1>6, RuntimeFrameKeeps DEF ReplayStep, memoryRest
<1>7. ASSUME UNCHANGED vars PROVE RuntimeInv'
  BY <1>7, RuntimeFrameKeeps DEF vars, memoryVars
<1>8. ASSUME ToolStep PROVE RuntimeInv'
  BY <1>8, RuntimeFrameKeeps DEF ToolStep, ToolCalled, ToolReturns, ToolAnswered, ToolFailed,
                                 memoryRest, memoryVars
<1> QED BY <1>1, <1>2, <1>3, <1>4, <1>5, <1>6, <1>7, <1>8 DEF Next

LEMMA SessionStepKeeps ==
  ASSUME RuntimeInv, SessionInv, ToolInv, [Next]_vars
  PROVE  SessionInv'
<1>1. ASSUME UNCHANGED vars PROVE SessionInv'
  <2>1. errors' \in BOOLEAN
    BY <1>1 DEF SessionInv, SessionTypeOK, vars
  <2> QED BY <1>1, <2>1, FrameKeepsSession DEF vars, memoryVars
<1> QED BY <1>1, AsksKeepsSession, ArrivesKeepsSession, AnsweredKeepsSession,
           MemoryStartsKeepsSession, MemoryGoesOnKeepsSession, ToolStepKeepsSession,
           RuntimeKeepsSession, RecordsKeepsSession, ReplayStepKeepsSession DEF Next

LEMMA ToolInvStep ==
  ASSUME RuntimeInv, SessionInv, ToolInv, [Next]_vars
  PROVE  ToolInv'
<1>1. /\ at \in [Lanes -> Nat] /\ lane \in [Lanes -> LaneState]
      /\ tool \in [Lanes -> [at : {"none", "called", "back"}, result : Readable]]
  BY DEF SessionInv, SessionTypeOK, RuntimeInv, RuntimeTypeOK, ToolInv
<1>2. ASSUME tool' = tool, program' = program, artifact' = artifact,
             \A l \in Lanes : tool[l].at # "none" => at'[l] = at[l] /\ lane'[l] = lane[l]
      PROVE  ToolInv'
  <2>1. ASSUME NEW l \in Lanes, tool'[l].at # "none"
        PROVE  ~IsDone(l)' /\ Step(l)' = "tool" /\ ~InMemory(l)'
    BY <1>2, <2>1 DEF ToolInv, IsDone, Step, Steps, InMemory, IsLive
  <2> QED BY <1>2, <2>1 DEF ToolInv
<1>3. ASSUME NEW l \in Lanes, tool[l].at = "none", tool' = tool, program' = program,
             artifact' = artifact,
             \A m \in Lanes : m # l => at'[m] = at[m] /\ lane'[m] = lane[m]
      PROVE  ToolInv'
  BY <1>2, <1>3
<1>4. ASSUME NEW l \in Lanes, NEW n, at' = [at EXCEPT ![l] = n]
      PROVE  \A m \in Lanes : m # l => at'[m] = at[m]
  BY <1>1, <1>4
<1>5. ASSUME NEW l \in Lanes, Asks(l) \/ Arrives(l) PROVE ToolInv'
  BY <1>2, <1>5 DEF Asks, Arrives, memoryRest, memoryVars
<1>6. ASSUME NEW l \in Lanes, Answered(l) PROVE ToolInv'
  <2>1. Step(l) = "reply"
    BY <1>6 DEF Answered, SessionInv, WaitsInStep
  <2>2. tool[l].at = "none"
    BY <2>1 DEF ToolInv
  <2> QED BY <1>3, <1>4, <1>6, <2>2 DEF Answered, Applied, Moves, memoryRest
<1>7. ASSUME NEW l \in Lanes, MemoryStarts(l) PROVE ToolInv'
  <2>1. tool[l].at = "none" /\ tool' = tool /\ program' = program /\ artifact' = artifact
    BY <1>7 DEF MemoryStarts, Free
  <2>2. at' = at \/ Moves(l)
    BY <1>7 DEF MemoryStarts
  <2>3. \A m \in Lanes : m # l => lane'[m] = lane[m]
    BY <1>1, <1>7 DEF MemoryStarts, Validates, Call, memoryVars
  <2> QED BY <1>3, <1>4, <2>1, <2>2, <2>3 DEF Moves
<1>8. ASSUME NEW l \in Lanes, MemoryGoesOn(l) PROVE ToolInv'
  <2>1. IsLive /\ lane[l].stage # "idle" /\ tool' = tool /\ program' = program
        /\ artifact' = artifact
    BY <1>8 DEF MemoryGoesOn
  <2>2. tool[l].at = "none"
    BY <2>1 DEF ToolInv, InMemory
  <2>3. at' = at \/ Moves(l) \/ Contained(l)
    BY <1>8 DEF MemoryGoesOn, OutOfScope
  <2>4. \A m \in Lanes : m # l => lane'[m] = lane[m]
    BY <1>1, <1>8 DEF MemoryGoesOn, OutOfScope, Validated, Enter, Commits, Finishes, Refused, Fails
  <2> QED BY <1>3, <1>4, <2>1, <2>2, <2>3, <2>4 DEF Moves, Contained
<1>9. ASSUME Runtime PROVE ToolInv'
  BY <1>2, <1>9, RuntimeFrame DEF Runtime
<1>10. ASSUME Records PROVE ToolInv'
  <2>1. \A l \in Lanes : tool[l].at = "none"
    BY <1>10 DEF Records, AllDone, ToolInv
  <2> QED BY <1>10, <2>1 DEF Records, ToolInv
<1>11. ASSUME NEW l \in Lanes, ToolCalled(l) PROVE ToolInv'
  <2>1. /\ ~IsDone(l) /\ Step(l) = "tool" /\ lane[l].stage = "idle"
        /\ tool' = [tool EXCEPT ![l].at = "called"]
        /\ UNCHANGED <<lane, program, at, artifact>>
    BY <1>11 DEF ToolCalled, Resumes, CanGo, MayRun, Free, memoryRest
  <2>2. \A m \in Lanes : m # l => tool'[m] = tool[m]
    BY <1>1, <2>1
  <2>3. tool' \in [Lanes -> [at : {"none", "called", "back"}, result : Readable]]
    BY <1>1, <2>1
  <2> QED BY <2>1, <2>2, <2>3 DEF ToolInv, IsDone, Step, Steps, InMemory, IsLive
<1>12. ASSUME NEW l \in Lanes, ToolReturns(l) PROVE ToolInv'
  <2>1. PICK a \in Answers \cup {None} :
           tool' = [tool EXCEPT ![l] = [at |-> "back", result |-> a]]
    BY <1>12 DEF ToolReturns
  <2>2. tool[l].at = "called" /\ UNCHANGED <<lane, program, at, artifact>>
    BY <1>12 DEF ToolReturns, memoryVars
  <2>3. \A m \in Lanes : m # l => tool'[m] = tool[m]
    BY <1>1, <2>1
  <2>4. tool' \in [Lanes -> [at : {"none", "called", "back"}, result : Readable]]
    BY <1>1, <2>1 DEF Readable
  <2> QED BY <2>2, <2>3, <2>4 DEF ToolInv, IsDone, Step, Steps, InMemory, IsLive
<1>13. ASSUME NEW l \in Lanes, ToolAnswered(l) \/ ToolFailed(l) PROVE ToolInv'
  <2>1. /\ tool' = [tool EXCEPT ![l] = NoTool] /\ UNCHANGED <<lane, program, artifact>>
        /\ at' = at \/ Moves(l) \/ Contained(l)
    BY <1>13 DEF ToolAnswered, ToolFailed, memoryRest
  <2>2. \A m \in Lanes : m # l => tool'[m] = tool[m] /\ at'[m] = at[m]
    BY <1>1, <1>4, <2>1 DEF Moves, Contained
  <2>3. tool' \in [Lanes -> [at : {"none", "called", "back"}, result : Readable]]
        /\ tool'[l].at = "none"
    BY <1>1, <2>1 DEF Readable, NoTool
  <2> QED BY <2>1, <2>2, <2>3 DEF ToolInv, IsDone, Step, Steps, InMemory, IsLive
<1>14. ASSUME ReplayStep PROVE ToolInv'
  <2>1. UNCHANGED <<lane, program, artifact, tool>>
    BY <1>14 DEF ReplayStep, memoryRest
  <2>2. ASSUME NEW l \in Lanes,
               ReplayAsks(l) \/ ReplayAnswered(l) \/ ReplayMemory(l) \/ ReplayValidates(l)
        PROVE  ToolInv'
    <3>1. Step(l) # "tool" /\ (at' = at \/ Moves(l))
      BY <2>2 DEF ReplayAsks, ReplayAnswered, ReplayMemory, ReplayValidates, Applied, Refuses,
                  SessionInv, WaitsInStep
    <3>2. tool[l].at = "none"
      BY <3>1 DEF ToolInv
    <3> QED BY <1>3, <1>4, <2>1, <3>1, <3>2 DEF Moves
  <2>3. ASSUME ReplayEnds PROVE ToolInv'
    BY <1>2, <2>1, <2>3 DEF ReplayEnds
  <2> QED BY <1>14, <2>2, <2>3 DEF ReplayStep
<1>15. ASSUME UNCHANGED vars PROVE ToolInv'
  BY <1>2, <1>15 DEF vars, memoryVars
<1> QED BY <1>5, <1>6, <1>7, <1>8, <1>9, <1>10, <1>11, <1>12, <1>13, <1>14, <1>15
        DEF Next, ToolStep

LEMMA VerdictStep ==
  ASSUME SessionInv, VerdictIsEarned, [Next]_vars
  PROVE  VerdictIsEarned'
<1>1. ASSUME NEW l \in Lanes,
             Asks(l) \/ Arrives(l) \/ Answered(l) \/ MemoryStarts(l) \/ MemoryGoesOn(l)
      PROVE  IsLive /\ verdict' = verdict
  BY <1>1 DEF Asks, Arrives, Answered, MemoryStarts, MemoryGoesOn, replayVars
<1>2. ASSUME Runtime \/ Records PROVE IsLive /\ verdict' = verdict
  BY <1>2, RuntimeFrame DEF Records
<1>3. ASSUME ReplayStep PROVE VerdictIsEarned'
  <2>1. ~IsLive' /\ ~IsLive /\ Recorded' = Recorded
    BY <1>3 DEF ReplayStep, ReplayAsks, ReplayAnswered, ReplayMemory, ReplayValidates, ReplayEnds,
                IsLive, Recorded
  <2>2. ASSUME NEW l \in Lanes,
               ReplayAsks(l) \/ ReplayAnswered(l) \/ ReplayMemory(l) \/ ReplayValidates(l)
        PROVE  verdict' # "replayed"
    BY <2>2 DEF ReplayAsks, ReplayAnswered, ReplayMemory, ReplayValidates, Refuses, Resumes, CanGo
  <2>3. ASSUME ReplayEnds, verdict' = "replayed" PROVE ledger' = Recorded.head
    BY <2>3 DEF ReplayEnds, SameHead
  <2> QED BY <1>3, <2>1, <2>2, <2>3 DEF VerdictIsEarned, ReplayStep
<1>4. ASSUME UNCHANGED vars PROVE VerdictIsEarned'
  BY <1>4 DEF VerdictIsEarned, IsLive, Recorded, vars, memoryVars
<1>5. ASSUME NEW l \in Lanes, ToolCalled(l) \/ ToolAnswered(l) \/ ToolFailed(l)
      PROVE  verdict' # "replayed"
  BY <1>5 DEF ToolCalled, ToolAnswered, ToolFailed, Resumes, CanGo
<1>6. ASSUME NEW l \in Lanes, ToolReturns(l) PROVE VerdictIsEarned'
  BY <1>6 DEF ToolReturns, VerdictIsEarned, IsLive, Recorded, memoryVars, replayVars
<1> QED BY <1>1, <1>2, <1>3, <1>4, <1>5, <1>6 DEF Next, ToolStep, VerdictIsEarned

LEMMA RecordingInit == Init => RecordingInv
<1> SUFFICES ASSUME Init PROVE RecordingInv
  OBVIOUS
<1>1. RuntimeInv
  <2>1. /\ driverPromise = 0 /\ driver = 0 /\ drivers = << >> /\ creations = << >>
        /\ coordinators = [k \in Keys |-> 0] /\ closing = FALSE /\ closed = FALSE
        /\ lane = [l \in Lanes |-> Idle]
    BY DEF Init, MemoryInit
  <2>2. RuntimeTypeOK
    <3>1. drivers \in Seq(DriverStates) /\ creations \in Seq(Creation)
          /\ Len(drivers) = 0 /\ Len(creations) = 0
      BY <2>1
    <3>2. coordinators \in [Keys -> 0..Len(creations)] /\ lane \in [Lanes -> LaneState]
      BY <2>1, <3>1, IdleType
    <3>3. driverPromise \in 0..Len(drivers) /\ driver \in 0..Len(drivers)
      BY <2>1, <3>1
    <3>4. closing \in BOOLEAN /\ closed \in BOOLEAN
      BY <2>1, Zenon
    <3> QED BY <3>1, <3>2, <3>3, <3>4 DEF RuntimeTypeOK
  <2>3. AwaitedExist
    BY <2>1 DEF AwaitedExist, Idle
  <2>4. LiveDriverIsLast /\ LiveCreationIsHeld /\ HandledIsClosed /\ ClosedIsReleased
    BY <2>1 DEF LiveDriverIsLast, LiveCreationIsHeld, HandledIsClosed, ClosedIsReleased
  <2> QED BY <2>2, <2>3, <2>4 DEF RuntimeInv
<1>2. SessionTypeOK
  <2>1. /\ ledger = << >> /\ operations = << >> /\ slots = << >> /\ artifact = << >>
        /\ at = AtStart /\ asking = AtStart /\ value = NoValue /\ errors = FALSE
        /\ taken = 0 /\ cursor = 0 /\ program \in Programs
    BY DEF Init, MemoryInit
  <2>2. program \in [steps : [Lanes -> Seq(StepKinds)], key : [Lanes -> Keys],
                       lacks : SUBSET Keys, overlap : BOOLEAN]
    BY <2>1, ProgramsAssumption
  <2>3. \A l \in Lanes : at[l] <= Len(Steps(l))
    BY <2>1, <2>2 DEF AtStart, Steps
  <2>4. /\ at \in [Lanes -> Nat] /\ asking \in [Lanes -> Nat] /\ value \in [Lanes -> Readable]
    BY <2>1 DEF AtStart, NoValue, Readable
  <2>5. /\ ledger \in Seq(LedgerRow) /\ operations \in Seq(Operation) /\ slots \in Seq(Slot)
        /\ artifact \in Seq(Artifact) /\ Len(artifact) <= 1
    BY <2>1
  <2> QED BY <2>1, <2>3, <2>4, <2>5 DEF SessionTypeOK
<1>4. ToolInv
  BY DEF Init, ToolInv, NoTool, Readable
<1>3. WaitsInStep /\ ValuesAreRows /\ OperationRows /\ VerdictIsEarned
  BY DEF Init, MemoryInit, WaitsInStep, ValuesAreRows, ReadBehind, OperationRows, RunOperations,
         IsLive, InMemory, AtStart, NoValue, Idle, VerdictIsEarned
<1> QED BY <1>1, <1>2, <1>3, <1>4 DEF RecordingInv, SessionInv

\* The invariant of every recording and replay: what the memory runtime holds,
\* what the lanes wait for, and that what they read is in the ledger.
THEOREM Invariance == Spec => []RecordingInv
<1>1. RecordingInv /\ [Next]_vars => RecordingInv'
  BY RuntimeStepKeeps, SessionStepKeeps, ToolInvStep, VerdictStep DEF RecordingInv
<1> QED BY <1>1, RecordingInit, PTL DEF Spec

\* The runtime holds at most one driver that is not released, and none, nor a
\* coordinator, behind a close that succeeded (ensureDriver and close).
THEOREM Released == Spec => []DriversAreReleased
<1>1. RuntimeInv => DriversAreReleased
  <2> SUFFICES ASSUME RuntimeInv PROVE DriversAreReleased
    OBVIOUS
  <2>1. OneDriver
    <3> DEFINE S == {p \in DOMAIN drivers : drivers[p] \in {"pending", "ready"}}
    <3>1. S \in SUBSET {LastDriver}
      BY DEF RuntimeInv, RuntimeTypeOK, LiveDriverIsLast
    <3>2. IsFiniteSet({LastDriver}) /\ Cardinality({LastDriver}) = 1
      BY FS_Singleton
    <3>3. Cardinality(S) <= 1
      BY <3>1, <3>2, FS_Subset
    <3> QED BY <3>3 DEF OneDriver
  <2>2. ClosedReleasesAll
    BY DEF ClosedReleasesAll, RuntimeInv, RuntimeTypeOK, ClosedIsReleased
  <2> QED BY <2>1, <2>2 DEF DriversAreReleased
<1> QED BY <1>1, Invariance, PTL DEF RecordingInv

\* A replay that is accepted has read in every lane what the recorded run read,
\* overlapping or not: the values are a function of the ledger, and the heads
\* of the two ledgers are compared.
THEOREM ReplaysFaithfully == Spec => []ReplayIsFaithful
<1>1. RecordingInv => ReplayIsFaithful
  <2> SUFFICES ASSUME RecordingInv, verdict = "replayed" PROVE value = Recorded.read
    BY DEF ReplayIsFaithful
  <2>1. ~IsLive /\ ledger = Recorded.head /\ ledger \in Seq(LedgerRow)
    BY DEF RecordingInv, VerdictIsEarned, SessionInv, SessionTypeOK
  <2>2. value \in [Lanes -> Readable] /\ Recorded.read \in [Lanes -> Readable]
    BY <2>1, RunTypes DEF RecordingInv, SessionInv, SessionTypeOK, Artifact
  <2>3. ASSUME NEW l \in Lanes PROVE value[l] = Recorded.read[l]
    <3>1. /\ ReadBehind(ledger, Len(ledger), l, value[l])
          /\ ReadBehind(ledger, Len(ledger), l, Recorded.read[l])
      BY <2>1 DEF RecordingInv, SessionInv, ValuesAreRows
    <3>2. Len(ledger) \in Nat
      BY <2>1
    <3> QED BY <3>1, <3>2, ReadBehindUnique
  <2> QED BY <2>2, <2>3
<1> QED BY <1>1, Invariance, PTL
-----------------------------------------------------------------------------
(* A run whose lanes do not overlap, of which none crashed, and a replay     *)
(* that the tools have answered so far as they answered the run.             *)

Calls == {"Sent", "ToolStarted"}
Results == {"Resolved", "ToolResolved"}
KindOf(etype) == IF etype \in {"Sent", "Resolved"} THEN "reply"
                 ELSE IF etype \in {"ToolStarted", "ToolResolved"} THEN "tool" ELSE etype

Busy(l) == asking[l] # 0 \/ tool[l].at # "none" \/ InMemory(l)
\* Lane l waits for the result of a call of this type.
WaitsFor(l, etype) == \/ asking[l] # 0 /\ etype = "Sent"
                      \/ tool[l].at # "none" /\ etype = "ToolStarted"
Reached(l) == IF IsLive THEN at[l] ELSE Len(Steps(l))

\* A lane starts behind the ones before it.
OneBehindTheOther ==
  \A l \in Lanes : at[l] > 0 \/ Busy(l) => \A m \in Lanes : m < l => IsDone(m)

Precedes(r, s) ==
  \/ r.lane < s.lane
  \/ r.lane = s.lane /\ r.step < s.step
  \/ r.lane = s.lane /\ r.step = s.step /\ r.etype \in Calls /\ s.etype \in Results

RowsInOrder == \A i, j \in 1..Len(RunRows) : i < j => Precedes(RunRows[i], RunRows[j])

\* The row a lane waits behind is the last one.
RowsReached ==
  \A i \in 1..Len(RunRows) :
    \/ RunRows[i].step < Reached(RunRows[i].lane)
    \/ /\ IsLive /\ i = Len(RunRows) /\ RunRows[i].step = at[RunRows[i].lane]
       /\ \/ WaitsFor(RunRows[i].lane, RunRows[i].etype)
          \/ lane[RunRows[i].lane].stage = "committed"

RowOf(i, l, k, etype) == RunRows[i].lane = l /\ RunRows[i].step = k /\ RunRows[i].etype = etype

\* A question is the last row of the run only while it is waited for.
LastIsAnswered ==
  \A i \in 1..Len(RunRows) : RunRows[i].etype = "Sent" /\ i = Len(RunRows) =>
    IsLive /\ asking[RunRows[i].lane] # 0

RowsFitSteps ==
  \A i \in 1..Len(RunRows) :
    Steps(RunRows[i].lane)[RunRows[i].step + 1] = KindOf(RunRows[i].etype)

StepsHaveRows ==
  \A l \in Lanes : \A k \in 0..(Reached(l) - 1) :
    LET kind == Steps(l)[k + 1]
    IN /\ kind = "reply" => \E i \in 1..(Len(RunRows) - 1) : RowOf(i, l, k, "Sent")
       /\ kind \in {"store", "recall"} => \E i \in 1..Len(RunRows) : RowOf(i, l, k, kind)
       /\ kind = "tool" => \E i \in 1..Len(RunRows) : RowOf(i, l, k, "ToolStarted")

\* What is asked, stored or given to a tool is what the lane has read last.
RowsSayWhatIsRead ==
  \A i \in 1..Len(RunRows) : RunRows[i].etype \in {"Sent", "store", "ToolStarted"} =>
    ReadBehind(RunRows, i - 1, RunRows[i].lane, RunRows[i].val)

\* How many of the first n rows are of the given types.
Count(log, n, etypes) == Cardinality({i \in 1..n : log[i].etype \in etypes})
Sent(log, n) == Count(log, n, {"Sent"})
Stored(log, n) == Count(log, n, {"store", "recall"})

\* The n-th question is the one of the n-th Sent row, and its answer is the
\* row behind it.
SlotsAreRows ==
  /\ Len(RunSlots) = Sent(RunRows, Len(RunRows))
  /\ \A i \in 1..Len(RunRows) : RunRows[i].etype = "Sent" =>
       LET slot == RunSlots[Sent(RunRows, i)]
       IN /\ slot.question = [step |-> RunRows[i].step, about |-> RunRows[i].val]
          /\ i < Len(RunRows) => /\ RowOf(i + 1, RunRows[i].lane, RunRows[i].step, "Resolved")
                              /\ RunRows[i + 1].val = slot.answer

\* The row of an operation that is not finished yet.
Unfinished(i) ==
  IsLive /\ i = Len(ledger) /\ \E l \in Lanes : lane[l].stage = "committed"

Journalled(i) ==
  [request |-> [kind |-> RunRows[i].etype, lane |-> RunRows[i].lane, step |-> RunRows[i].step,
                val |-> IF RunRows[i].etype = "recall" THEN None ELSE RunRows[i].val],
   tick |-> i - 1, row |-> RunRows[i], head |-> SubSeq(RunRows, 1, i)]

OperationsAreRows ==
  /\ Len(RunOperations) = IF Unfinished(Len(RunRows)) THEN Stored(RunRows, Len(RunRows)) - 1
                   ELSE Stored(RunRows, Len(RunRows))
  /\ \A i \in 1..Len(RunRows) :
       RunRows[i].etype \in {"store", "recall"} /\ ~Unfinished(i) =>
         RunOperations[Stored(RunRows, i)] = Journalled(i)

\* A lane that waits is behind the row it waits for.
BehindItsRow ==
  IsLive => \A l \in Lanes :
    /\ asking[l] # 0 => /\ asking[l] = Len(slots) /\ Len(ledger) > 0
                        /\ RowOf(Len(ledger), l, at[l], "Sent")
    /\ tool[l].at # "none" => Len(ledger) > 0 /\ RowOf(Len(ledger), l, at[l], "ToolStarted")
    /\ lane[l].stage = "committed" =>
         /\ lane[l].tick = Len(ledger) - 1 /\ Len(ledger) > 0
         /\ RowOf(Len(ledger), l, at[l], Step(l))
         /\ ledger[Len(ledger)].val = value[l]

\* Until a tool has failed the replay has the first rows of the recording: those
\* of the steps its lanes are through, and of the call a lane waits on.
ReplayIsPrefix ==
  ~IsLive /\ verdict # "failed" =>
    /\ Len(ledger) <= Len(RunRows)
    /\ \A i \in 1..Len(ledger) : ledger[i] = RunRows[i]
    /\ \A i \in 1..Len(RunRows) :
         i <= Len(ledger) <=> \/ RunRows[i].step < at[RunRows[i].lane]
                              \/ /\ RunRows[i].step = at[RunRows[i].lane]
                                 /\ WaitsFor(RunRows[i].lane, RunRows[i].etype)
    /\ taken = Sent(RunRows, Len(ledger))
    /\ cursor = Stored(RunRows, Len(ledger))
    /\ \A l \in Lanes : asking[l] # 0 =>
         asking[l] = taken /\ Len(ledger) > 0 /\ RowOf(Len(ledger), l, at[l], "Sent")

NothingTaken == IsLive => taken = 0 /\ cursor = 0
NotRefused == verdict # "refused"

RunInv ==
  /\ OneBehindTheOther
  /\ RowsInOrder
  /\ RowsReached
  /\ LastIsAnswered
  /\ RowsFitSteps
  /\ StepsHaveRows
  /\ RowsSayWhatIsRead
  /\ SlotsAreRows
  /\ OperationsAreRows
  /\ BehindItsRow
  /\ ReplayIsPrefix
  /\ NothingTaken
  /\ NotRefused

NoneCrashed == \A i \in 1..Len(RunRows) : RunRows[i].etype # "AgentCrashed"
AnsweredAlike == ~IsLive => ToolsAnswerAlike

SequentialInv ==
  ~program.overlap /\ ~errors /\ NoneCrashed /\ AnsweredAlike => RunInv

-----------------------------------------------------------------------------
LEMMA CountTypes ==
  ASSUME NEW log, NEW n \in Nat, NEW K
  PROVE  /\ IsFiniteSet({i \in 1..n : log[i].etype \in K})
         /\ Count(log, n, K) \in Nat
         /\ Count(log, 0, K) = 0
<1>1. IsFiniteSet(1..n)
  BY FS_Interval
<1>2. {i \in 1..n : log[i].etype \in K} \in SUBSET (1..n)
  OBVIOUS
<1>3. IsFiniteSet({i \in 1..n : log[i].etype \in K})
  BY <1>1, <1>2, FS_Subset
<1>4. {i \in 1..0 : log[i].etype \in K} = {}
  OBVIOUS
<1> QED BY <1>3, <1>4, FS_CardinalityType, FS_EmptySet DEF Count

LEMMA CountStep ==
  ASSUME NEW log, NEW n \in Nat, NEW K
  PROVE  Count(log, n + 1, K) = IF log[n + 1].etype \in K THEN Count(log, n, K) + 1
                                ELSE Count(log, n, K)
<1> DEFINE A == {i \in 1..n : log[i].etype \in K}
           B == {i \in 1..(n + 1) : log[i].etype \in K}
<1>1. IsFiniteSet(A)
  BY CountTypes
<1>2. CASE log[n + 1].etype \in K
  <2>1. B = A \cup {n + 1} /\ n + 1 \notin A
    BY <1>2
  <2>2. Cardinality(A \cup {n + 1}) = Cardinality(A) + 1
    BY <1>1, <2>1, FS_AddElement
  <2> QED BY <1>2, <2>1, <2>2 DEF Count
<1>3. CASE log[n + 1].etype \notin K
  <2>1. B = A
    BY <1>3
  <2> QED BY <1>3, <2>1 DEF Count
<1> QED BY <1>2, <1>3

LEMMA CountPrefix ==
  ASSUME NEW log, NEW other, NEW n \in Nat, \A i \in 1..n : log[i] = other[i], NEW K
  PROVE  Count(log, n, K) = Count(other, n, K)
<1>1. {i \in 1..n : log[i].etype \in K} = {i \in 1..n : other[i].etype \in K}
  OBVIOUS
<1> QED BY <1>1 DEF Count

LEMMA CountGrows ==
  ASSUME NEW log, NEW m \in Nat, NEW n \in Nat, m < n, NEW K
  PROVE  /\ Count(log, m, K) <= Count(log, n, K)
         /\ log[n].etype \in K => Count(log, m, K) + 1 <= Count(log, n, K)
<1>1. \A p \in Nat : Count(log, p, K) \in Nat
  BY CountTypes
<1>2. n - 1 \in Nat /\ (n - 1) + 1 = n /\ m <= n - 1
  OBVIOUS
<1>3. Count(log, m, K) <= Count(log, n - 1, K)
  <2>1. {i \in 1..m : log[i].etype \in K} \in SUBSET {i \in 1..(n - 1) : log[i].etype \in K}
    BY <1>2
  <2>2. IsFiniteSet({i \in 1..(n - 1) : log[i].etype \in K})
    BY <1>2, CountTypes
  <2> QED BY <2>1, <2>2, FS_Subset DEF Count
<1>4. Count(log, (n - 1) + 1, K) = IF log[(n - 1) + 1].etype \in K THEN Count(log, n - 1, K) + 1
                                   ELSE Count(log, n - 1, K)
  BY <1>2, CountStep
<1>5. /\ Count(log, m, K) \in Nat /\ Count(log, n - 1, K) \in Nat
  BY <1>1, <1>2
<1> QED BY <1>2, <1>3, <1>4, <1>5

\* A row more leaves what the rows before it say.
LEMMA AppendedRow ==
  ASSUME SessionInv, IsLive, artifact' = artifact,
         NEW r \in LedgerRow, ledger' = Append(ledger, r)
  PROVE  /\ RunRows = ledger /\ RunRows' = ledger' /\ IsLive'
         /\ Len(ledger) \in Nat /\ Len(ledger') = Len(ledger) + 1
         /\ ledger'[Len(ledger) + 1] = r
         /\ \A i \in 1..Len(ledger) :
              /\ ledger'[i] = ledger[i]
              /\ Sent(ledger', i) = Sent(ledger, i)
              /\ Stored(ledger', i) = Stored(ledger, i)
              /\ Journalled(i)' = Journalled(i)
              /\ \A l, v : ReadBehind(ledger, i - 1, l, v) => ReadBehind(ledger', i - 1, l, v)
         /\ \A l, v : ReadBehind(ledger, Len(ledger), l, v) => ReadBehind(ledger', Len(ledger), l, v)
         /\ Sent(ledger, Len(ledger)) \in Nat
         /\ Stored(ledger, Len(ledger)) \in Nat
         /\ Sent(ledger', Len(ledger) + 1) =
              IF r.etype = "Sent" THEN Sent(ledger, Len(ledger)) + 1 ELSE Sent(ledger, Len(ledger))
         /\ Stored(ledger', Len(ledger) + 1) =
              IF r.etype \in {"store", "recall"} THEN Stored(ledger, Len(ledger)) + 1
              ELSE Stored(ledger, Len(ledger))
<1>1. ledger \in Seq(LedgerRow) /\ ledger' \in Seq(LedgerRow) /\ IsLive'
  BY DEF SessionInv, SessionTypeOK, IsLive
<1>2. RunRows = ledger /\ RunRows' = ledger'
  BY <1>1 DEF RunRows
<1>3. /\ Len(ledger) \in Nat /\ Len(ledger') = Len(ledger) + 1
      /\ ledger'[Len(ledger) + 1] = r
      /\ \A i \in 1..Len(ledger) : ledger'[i] = ledger[i]
  BY <1>1
<1> DEFINE n == Len(ledger)
<1>4. PICK log : log = ledger'
  OBVIOUS
<1>5. \A i \in 1..n : log[i] = ledger[i]
  BY <1>3, <1>4
<1>6. ASSUME NEW i \in 0..n, NEW K PROVE Count(log, i, K) = Count(ledger, i, K)
  <2>1. i \in Nat /\ \A j \in 1..i : log[j] = ledger[j]
    BY <1>3, <1>5
  <2> QED BY <2>1, CountPrefix, ZenonT(40)
<1>7. ASSUME NEW i \in 1..n PROVE SubSeq(log, 1, i) = SubSeq(ledger, 1, i)
  <2>1. i \in Nat /\ i <= Len(log) /\ i <= Len(ledger) /\ log \in Seq(LedgerRow)
    BY <1>1, <1>3, <1>4
  <2> QED BY <1>1, <1>5, <2>1
<1>8. ASSUME NEW i \in 1..n
      PROVE  /\ log[i] = ledger[i]
             /\ Sent(log, i) = Sent(ledger, i)
             /\ Stored(log, i) = Stored(ledger, i)
             /\ Journalled(i)' = Journalled(i)
             /\ \A l, v : ReadBehind(ledger, i - 1, l, v) => ReadBehind(log, i - 1, l, v)
  <2>1. Journalled(i)' = Journalled(i)
    BY <1>2, <1>4, <1>5, <1>7 DEF Journalled
  <2>2. ASSUME NEW l, NEW v, ReadBehind(ledger, i - 1, l, v) PROVE ReadBehind(log, i - 1, l, v)
    <3>1. i - 1 \in Nat /\ \A j \in 1..(i - 1) : ledger[j] = log[j]
      BY <1>3, <1>5
    <3> QED BY <2>2, <3>1, ReadBehindPrefix
  <2> QED BY <1>3, <1>5, <1>6, <2>1, <2>2 DEF Sent, Stored
<1>9. \A l, v : ReadBehind(ledger, n, l, v) => ReadBehind(log, n, l, v)
  BY <1>3, <1>5, ReadBehindPrefix
<1>10. Sent(ledger, n) \in Nat /\ Stored(ledger, n) \in Nat
  BY <1>3, CountTypes DEF Sent, Stored
<1>11. /\ Sent(log, n + 1) = IF r.etype = "Sent" THEN Sent(ledger, n) + 1 ELSE Sent(ledger, n)
       /\ Stored(log, n + 1) = IF r.etype \in {"store", "recall"} THEN Stored(ledger, n) + 1
                               ELSE Stored(ledger, n)
  <2>1. log[n + 1] = r
    BY <1>3, <1>4
  <2>2. Count(log, n, {"Sent"}) = Count(ledger, n, {"Sent"})
        /\ Count(log, n, {"store", "recall"}) = Count(ledger, n, {"store", "recall"})
    BY <1>3, <1>6
  <2>3. /\ Count(log, n + 1, {"Sent"}) =
             IF log[n + 1].etype \in {"Sent"} THEN Count(log, n, {"Sent"}) + 1
             ELSE Count(log, n, {"Sent"})
        /\ Count(log, n + 1, {"store", "recall"}) =
             IF log[n + 1].etype \in {"store", "recall"} THEN Count(log, n, {"store", "recall"}) + 1
             ELSE Count(log, n, {"store", "recall"})
    BY <1>3, CountStep
  <2> QED BY <2>1, <2>2, <2>3 DEF Sent, Stored
<1> QED BY <1>1, <1>2, <1>3, <1>4, <1>8, <1>9, <1>10, <1>11

\* It is this lane's turn: the ones before it are through.
Turn(l) == ~IsDone(l) /\ \A m \in Lanes : m < l => IsDone(m)

LEMMA TurnIsAlone ==
  ASSUME SessionInv, ToolInv, OneBehindTheOther, NEW l \in Lanes, Turn(l)
  PROVE  /\ \A m \in Lanes : m # l => ~Busy(m)
         /\ \A m \in Lanes : l < m => at[m] = 0
         /\ \A m \in Lanes : m < l => at[m] = Len(Steps(m))
<1>1. \A m \in Lanes : m \in Nat /\ at[m] \in Nat
  BY LanesAssumption DEF SessionInv, SessionTypeOK
<1>2. \A m \in Lanes : Busy(m) => ~IsDone(m)
  BY DEF Busy, SessionInv, WaitsInStep, ToolInv
<1> QED BY <1>1, <1>2 DEF OneBehindTheOther, Turn, IsDone

LEMMA BusyHasTurn ==
  ASSUME SessionInv, ToolInv, OneBehindTheOther, NEW l \in Lanes, Busy(l)
  PROVE  Turn(l)
BY DEF Turn, Busy, SessionInv, WaitsInStep, ToolInv, OneBehindTheOther

\* The rows so far are those of earlier steps, but for the one the lane waits
\* behind.
LEMMA RowsBefore ==
  ASSUME SessionInv, ToolInv, RunInv, IsLive, NEW l \in Lanes, Turn(l), NEW i \in 1..Len(ledger),
         i = Len(ledger) => /\ asking[l] = 0 /\ tool[l].at = "none"
                            /\ lane[l].stage # "committed",
         NEW r, r.lane = l, r.step = at[l]
  PROVE  /\ Precedes(ledger[i], r)
         /\ ledger[i].step < at[ledger[i].lane]
<1>1. RunRows = ledger /\ ledger \in Seq(LedgerRow)
  BY DEF RunRows, SessionInv, SessionTypeOK
<1>2. ledger[i].lane \in Lanes /\ ledger[i].step \in Nat
  BY <1>1, RowTypes
<1>3. \A m \in Lanes : m \in Nat /\ at[m] \in Nat
  BY LanesAssumption DEF SessionInv, SessionTypeOK
<1>4. /\ \A m \in Lanes : m # l => ~Busy(m)
      /\ \A m \in Lanes : l < m => at[m] = 0
  BY TurnIsAlone DEF RunInv
<1>5. ledger[i].step < at[ledger[i].lane]
  BY <1>1, <1>2, <1>4 DEF RunInv, RowsReached, Reached, Busy, InMemory, WaitsFor
<1> QED BY <1>2, <1>3, <1>4, <1>5 DEF Precedes

\* Nothing is unfinished while no lane waits for its receipt.
LEMMA LiveRun ==
  ASSUME SessionInv, IsLive
  PROVE  /\ RunRows = ledger /\ RunSlots = slots /\ RunOperations = operations
         /\ \A l \in Lanes : Reached(l) = at[l]
BY DEF RunRows, RunSlots, RunOperations, Reached

\* A row that fits the step of its lane is appended, and its slot is kept.
LEMMA RowKeeps ==
  ASSUME SessionInv, RunInv, IsLive, artifact' = artifact, program' = program,
         operations' = operations,
         NEW r \in LedgerRow, ledger' = Append(ledger, r),
         \A i \in 1..Len(ledger) : Precedes(ledger[i], r),
         Steps(r.lane)[r.step + 1] = KindOf(r.etype),
         r.etype \in {"Sent", "store", "ToolStarted"} => r.val = value[r.lane],
         Len(slots') = IF r.etype = "Sent" THEN Len(slots) + 1 ELSE Len(slots),
         \A j \in 1..Len(slots) : slots'[j] = slots[j],
         r.etype = "Sent" =>
           slots'[Len(slots) + 1].question = [step |-> r.step, about |-> r.val],
         Len(ledger) > 0 /\ ledger[Len(ledger)].etype = "Sent" =>
           /\ r.lane = ledger[Len(ledger)].lane /\ r.step = ledger[Len(ledger)].step
           /\ r.etype = "Resolved" /\ r.val = slots[Len(slots)].answer,
         \A l \in Lanes : lane[l].stage # "committed",
         (\E l \in Lanes : lane'[l].stage = "committed") <=> r.etype \in {"store", "recall"},
         \/ at' = at
         \/ /\ at' = [at EXCEPT ![r.lane] = at[r.lane] + 1] /\ r.step = at[r.lane]
            /\ Len(ledger) > 0
            /\ \/ ledger[Len(ledger)].etype = "Sent"
               \/ RowOf(Len(ledger), r.lane, r.step, "ToolStarted") /\ RunRows = ledger
  PROVE  /\ RowsInOrder' /\ RowsFitSteps' /\ StepsHaveRows' /\ RowsSayWhatIsRead'
         /\ SlotsAreRows' /\ OperationsAreRows'
<1> DEFINE n == Len(ledger)
<1>1. /\ r.lane \in Lanes /\ r.step \in Nat
      /\ r.etype \in EventTypes
      /\ \A i \in 1..n : ledger[i].lane \in Lanes
  BY RowTypes DEF SessionInv, SessionTypeOK, LedgerRow
<1>2. /\ slots \in Seq(Slot) /\ Len(slots) \in Nat /\ at \in [Lanes -> Nat]
  BY DEF SessionInv, SessionTypeOK
<1>3. /\ RunRows = ledger /\ RunSlots = slots /\ RunOperations = operations
      /\ \A m \in Lanes : Reached(m) = at[m]
  BY LiveRun
<1>4. /\ IsLive' /\ RunRows' = ledger' /\ RunSlots' = slots' /\ RunOperations' = operations
      /\ \A m \in Lanes : Reached(m)' = at'[m] /\ Steps(m)' = Steps(m)
  BY DEF IsLive, RunRows, RunSlots, RunOperations, Reached, Steps
<1>5. /\ n \in Nat /\ Len(ledger') = n + 1 /\ ledger'[n + 1] = r
      /\ \A i \in 1..n :
           /\ ledger'[i] = ledger[i]
           /\ Sent(ledger', i) = Sent(ledger, i)
           /\ Stored(ledger', i) = Stored(ledger, i)
           /\ Journalled(i)' = Journalled(i)
           /\ \A m, v : ReadBehind(ledger, i - 1, m, v) => ReadBehind(ledger', i - 1, m, v)
      /\ \A m, v : ReadBehind(ledger, n, m, v) => ReadBehind(ledger', n, m, v)
      /\ Sent(ledger, n) \in Nat /\ Stored(ledger, n) \in Nat
      /\ Sent(ledger', n + 1) = IF r.etype = "Sent" THEN Sent(ledger, n) + 1 ELSE Sent(ledger, n)
      /\ Stored(ledger', n + 1) = IF r.etype \in {"store", "recall"} THEN Stored(ledger, n) + 1
                                  ELSE Stored(ledger, n)
  BY AppendedRow
<1>6. RowsInOrder'
  <2>1. \A i, j \in 1..n : i < j => Precedes(ledger[i], ledger[j])
    BY <1>3 DEF RunInv, RowsInOrder
  <2>2. ASSUME NEW i \in 1..(n + 1), NEW j \in 1..(n + 1), i < j
        PROVE  Precedes(ledger'[i], ledger'[j])
    <3>1. i \in 1..n /\ ledger'[i] = ledger[i]
      BY <1>5, <2>2
    <3>2. CASE j = n + 1
      BY <1>5, <3>1, <3>2
    <3>3. CASE j \in 1..n
      BY <1>5, <2>1, <2>2, <3>1, <3>3
    <3> QED BY <1>5, <3>2, <3>3
  <2> QED BY <1>4, <1>5, <2>2 DEF RowsInOrder
<1>7. RowsFitSteps'
  <2> SUFFICES ASSUME NEW i \in 1..(n + 1)
               PROVE  Steps(ledger'[i].lane)[ledger'[i].step + 1]
                        = KindOf(ledger'[i].etype)
    BY <1>4, <1>5 DEF RowsFitSteps, Steps
  <2>1. CASE i = n + 1
    BY <1>5, <2>1
  <2>2. CASE i \in 1..n
    BY <1>3, <1>5, <2>2 DEF RunInv, RowsFitSteps
  <2> QED BY <1>5, <2>1, <2>2
<1>8. StepsHaveRows'
  <2>1. ASSUME NEW m \in Lanes, NEW k \in 0..(at'[m] - 1)
        PROVE  /\ Steps(m)[k + 1] = "reply" =>
                    \E i \in 1..n : /\ ledger'[i].lane = m /\ ledger'[i].step = k
                                    /\ ledger'[i].etype = "Sent"
               /\ Steps(m)[k + 1] \in {"store", "recall"} =>
                    \E i \in 1..(n + 1) : /\ ledger'[i].lane = m /\ ledger'[i].step = k
                                          /\ ledger'[i].etype = Steps(m)[k + 1]
               /\ Steps(m)[k + 1] = "tool" =>
                    \E i \in 1..(n + 1) : /\ ledger'[i].lane = m /\ ledger'[i].step = k
                                          /\ ledger'[i].etype = "ToolStarted"
    <3>1. CASE k \in 0..(at[m] - 1)
      BY <1>3, <1>5, <3>1 DEF RunInv, StepsHaveRows, RowOf
    <3>2. CASE k \notin 0..(at[m] - 1)
      <4>1. /\ m = r.lane /\ k = at[m] /\ r.step = k /\ n > 0
            /\ \/ ledger[n].etype = "Sent"
               \/ RowOf(n, r.lane, r.step, "ToolStarted") /\ RunRows = ledger
        BY <1>1, <1>2, <2>1, <3>2
      <4>2. n \in 1..n /\ ledger'[n] = ledger[n] /\ n \in 1..(n + 1)
        BY <1>5, <4>1
      <4>3. CASE ledger[n].etype = "Sent"
        <5>1. ledger[n].lane = m /\ ledger[n].step = k /\ Steps(m)[k + 1] = "reply"
          BY <1>5, <4>1, <4>3 DEF KindOf
        <5> QED BY <4>2, <4>3, <5>1
      <4>4. CASE RowOf(n, r.lane, r.step, "ToolStarted") /\ RunRows = ledger
        <5>1. ledger[n].lane = m /\ ledger[n].step = k /\ ledger[n].etype = "ToolStarted"
          BY <4>1, <4>4 DEF RowOf
        <5>2. Steps(m)[k + 1] = "tool"
          BY <1>3, <4>2, <5>1 DEF RunInv, RowsFitSteps, KindOf
        <5> QED BY <4>2, <5>1, <5>2
      <4> QED BY <4>1, <4>3, <4>4
    <3> QED BY <3>1, <3>2
  <2> QED BY <1>4, <1>5, <2>1 DEF StepsHaveRows, RowOf
<1>9. RowsSayWhatIsRead'
  <2>1. ReadBehind(ledger', n, r.lane, value[r.lane])
    BY <1>1, <1>5 DEF SessionInv, ValuesAreRows
  <2>2. \A i \in 1..n : ledger[i].etype \in {"Sent", "store", "ToolStarted"} =>
          ReadBehind(ledger, i - 1, ledger[i].lane, ledger[i].val)
    BY <1>3 DEF RunInv, RowsSayWhatIsRead
  <2>3. ASSUME NEW i \in 1..(n + 1), ledger'[i].etype \in {"Sent", "store", "ToolStarted"}
        PROVE  ReadBehind(ledger', i - 1, ledger'[i].lane, ledger'[i].val)
    <3>1. CASE i = n + 1
      BY <1>5, <2>1, <2>3, <3>1
    <3>2. CASE i \in 1..n
      BY <1>5, <2>2, <2>3, <3>2
    <3> QED BY <1>5, <3>1, <3>2
  <2>4. RunRows' = ledger' /\ Len(ledger') = n + 1
    BY <1>4, <1>5
  <2>5. \A i \in 1..Len(RunRows') : RunRows'[i].etype \in {"Sent", "store", "ToolStarted"} =>
          ReadBehind(RunRows', i - 1, RunRows'[i].lane, RunRows'[i].val)
    BY <2>3, <2>4
  <2> QED BY <2>5 DEF RowsSayWhatIsRead, ReadBehind
<1>10. SlotsAreRows'
  <2>1. Len(slots) = Sent(ledger, n)
    BY <1>3 DEF RunInv, SlotsAreRows
  <2>2. ASSUME NEW i \in 1..n, ledger[i].etype = "Sent"
        PROVE  Sent(ledger, i) \in 1..Len(slots)
    <3>1. i - 1 \in Nat /\ i - 1 < i /\ i \in Nat
      BY <1>5
    <3>2. Count(ledger, i - 1, {"Sent"}) + 1 <= Count(ledger, i, {"Sent"})
      BY <2>2, <3>1, CountGrows
    <3>3. i = n \/ Count(ledger, i, {"Sent"}) <= Count(ledger, n, {"Sent"})
      BY <1>5, <3>1, CountGrows
    <3>4. Count(ledger, i - 1, {"Sent"}) \in Nat /\ Count(ledger, i, {"Sent"}) \in Nat
      BY <3>1, CountTypes
    <3> QED BY <1>2, <2>1, <3>2, <3>3, <3>4 DEF Sent
  <2>3. ASSUME NEW i \in 1..(n + 1), ledger'[i].etype = "Sent"
        PROVE  /\ slots'[Sent(ledger', i)].question
                    = [step |-> ledger'[i].step, about |-> ledger'[i].val]
               /\ i < n + 1 => /\ ledger'[i + 1].lane = ledger'[i].lane
                               /\ ledger'[i + 1].step = ledger'[i].step
                               /\ ledger'[i + 1].etype = "Resolved"
                               /\ ledger'[i + 1].val = slots'[Sent(ledger', i)].answer
    <3>1. CASE i = n + 1
      BY <1>5, <2>1, <2>3, <3>1
    <3>2. CASE i \in 1..n
      <4>0. ledger[i].etype = "Sent" /\ Sent(ledger', i) = Sent(ledger, i)
        BY <1>5, <2>3, <3>2
      <4>1. /\ slots'[Sent(ledger', i)] = slots[Sent(ledger, i)]
            /\ slots[Sent(ledger, i)].question = [step |-> ledger[i].step, about |-> ledger[i].val]
        <5>1. Sent(ledger, i) \in 1..Len(slots)
          BY <2>2, <3>2, <4>0
        <5>2. slots[Sent(ledger, i)].question = [step |-> ledger[i].step, about |-> ledger[i].val]
          BY <1>3, <3>2, <4>0 DEF RunInv, SlotsAreRows
        <5> QED BY <4>0, <5>1, <5>2
      <4>2. CASE i = n
        BY <1>5, <2>1, <2>3, <3>2, <4>1, <4>2
      <4>3. CASE i # n
        <5>1. i < n /\ i + 1 \in 1..n
          BY <1>5, <3>2, <4>3
        <5> QED BY <1>3, <1>5, <2>3, <3>2, <4>1, <5>1 DEF RunInv, SlotsAreRows, RowOf
      <4> QED BY <4>2, <4>3
    <3> QED BY <1>5, <3>1, <3>2
  <2> QED BY <1>4, <1>5, <2>1, <2>3 DEF SlotsAreRows, RowOf
<1>11. OperationsAreRows'
  <2>1. \A i : ~Unfinished(i)
    BY DEF Unfinished
  <2>2. /\ Len(operations) = Stored(ledger, n)
        /\ \A i \in 1..n : ledger[i].etype \in {"store", "recall"} =>
             operations[Stored(ledger, i)] = Journalled(i)
    BY <1>3, <2>1 DEF RunInv, OperationsAreRows
  <2>3. Len(operations) = IF r.etype \in {"store", "recall"} THEN Stored(ledger', n + 1) - 1
                          ELSE Stored(ledger', n + 1)
    BY <1>5, <2>2
  <2>4. ASSUME NEW i \in 1..(n + 1), ledger'[i].etype \in {"store", "recall"}, i # n + 1
        PROVE  operations[Stored(ledger', i)] = Journalled(i)'
    <3>1. i \in 1..n
      BY <1>5, <2>4
    <3> QED BY <1>5, <2>2, <2>4, <3>1
  <2>5. Unfinished(Len(RunRows))' <=> r.etype \in {"store", "recall"}
    BY <1>4, <1>5 DEF Unfinished
  <2>6. ASSUME NEW i \in 1..(n + 1), ledger'[i].etype \in {"store", "recall"}, ~Unfinished(i)'
        PROVE  i # n + 1
    BY <1>4, <1>5, <2>6 DEF Unfinished
  <2> QED BY <1>4, <1>5, <2>3, <2>4, <2>5, <2>6 DEF OperationsAreRows
<1> QED BY <1>6, <1>7, <1>8, <1>9, <1>10, <1>11

LEMMA AsksKeepsRun ==
  ASSUME RuntimeInv, SessionInv, ToolInv, ~program.overlap, RunInv, NEW l \in Lanes, Asks(l)
  PROVE  RunInv'
<1> DEFINE n == Len(ledger)
           r == Row("Sent", l, value[l])
           q == [question |-> Question(l), answer |-> None]
<1>1. /\ IsLive /\ Turn(l) /\ asking[l] = 0 /\ lane[l].stage = "idle" /\ Step(l) = "reply"
      /\ tool[l].at = "none"
      /\ ledger' = Append(ledger, r) /\ asking' = [asking EXCEPT ![l] = Len(slots) + 1]
      /\ slots' = Append(slots, q)
      /\ UNCHANGED <<lane, tool, operations, program, at, value, artifact, taken, cursor, verdict>>
  BY DEF Asks, Resumes, CanGo, MayRun, Free, memoryRest, Reserved, Turn
<1>2. /\ value \in [Lanes -> Readable] /\ at \in [Lanes -> Nat] /\ asking \in [Lanes -> Nat]
      /\ slots \in Seq(Slot) /\ Len(slots) \in Nat /\ ledger \in Seq(LedgerRow)
  BY DEF SessionInv, SessionTypeOK
<1>3. r \in LedgerRow /\ r.etype = "Sent" /\ r.lane = l /\ r.step = at[l] /\ r.val = value[l]
  BY <1>2 DEF Row, LedgerRow, EventTypes
<1>4. q.question = [step |-> at[l], about |-> value[l]]
  BY DEF Question
<1> HIDE DEF r, q
<1>5. /\ Len(slots') = Len(slots) + 1 /\ slots'[Len(slots) + 1] = q
      /\ \A j \in 1..Len(slots) : slots'[j] = slots[j]
      /\ n \in Nat /\ Len(ledger') = n + 1 /\ ledger'[n + 1] = r
      /\ \A i \in 1..n : ledger'[i] = ledger[i]
      /\ IsLive' /\ RunRows = ledger /\ RunRows' = ledger' /\ \A m \in Lanes : Reached(m)' = at[m]
  BY <1>1, <1>2, <1>3 DEF IsLive, RunRows, Reached
<1>6. /\ \A m \in Lanes : m # l => ~Busy(m) /\ asking[m] = 0
      /\ asking'[l] = Len(slots) + 1
      /\ \A m \in Lanes : m # l => asking'[m] = 0
      /\ \A m \in Lanes : lane[m].stage # "committed" /\ tool[m].at = "none"
  BY <1>1, <1>2, TurnIsAlone DEF RunInv, Busy, InMemory
<1>7. \A i \in 1..n : /\ Precedes(ledger[i], r) /\ ledger[i].step < at[ledger[i].lane]
                      /\ ledger[i].lane \in Lanes
  BY <1>1, <1>2, <1>3, RowsBefore, RowTypes
<1>8. n > 0 => ledger[n].etype # "Sent"
  BY <1>1, <1>5, <1>6, <1>7 DEF RunInv, LastIsAnswered
<1>9. Steps(l)[at[l] + 1] = "reply"
  BY <1>1 DEF Step
<1>10. /\ RowsInOrder' /\ RowsFitSteps' /\ StepsHaveRows' /\ RowsSayWhatIsRead'
       /\ SlotsAreRows' /\ OperationsAreRows'
  BY <1>1, <1>3, <1>4, <1>5, <1>6, <1>7, <1>8, <1>9, RowKeeps DEF KindOf
<1>11. OneBehindTheOther'
  <2>1. \A m \in Lanes : Busy(m)' => Busy(m) \/ m = l
    BY <1>1, <1>6 DEF Busy, InMemory, IsLive
  <2>2. \A m \in Lanes : IsDone(m)' = IsDone(m)
    BY <1>1 DEF IsDone, Steps
  <2> QED BY <1>1, <2>1, <2>2 DEF RunInv, OneBehindTheOther, Turn
<1>12. RowsReached'
  <2>1. \A i \in 1..n : ledger'[i].step < at[ledger'[i].lane] /\ ledger'[i].lane \in Lanes
    BY <1>5, <1>7
  <2> QED BY <1>1, <1>2, <1>3, <1>5, <1>6, <2>1 DEF RowsReached, WaitsFor
<1>13. LastIsAnswered'
  BY <1>2, <1>3, <1>5, <1>6 DEF LastIsAnswered
<1>14. BehindItsRow'
  BY <1>1, <1>2, <1>3, <1>5, <1>6 DEF BehindItsRow, RowOf
<1>15. ReplayIsPrefix' /\ NothingTaken' /\ NotRefused'
  BY <1>1, <1>5 DEF RunInv, ReplayIsPrefix, NothingTaken, NotRefused
<1> QED BY <1>10, <1>11, <1>12, <1>13, <1>14, <1>15 DEF RunInv

\* An answer is applied behind its question, with nothing in between.
LEMMA AnsweredKeepsRun ==
  ASSUME RuntimeInv, SessionInv, ToolInv, ~program.overlap, RunInv, NEW l \in Lanes, Answered(l)
  PROVE  RunInv'
<1> DEFINE n == Len(ledger)
           a == slots[asking[l]].answer
           r == Row("Resolved", l, a)
<1>1. /\ IsLive /\ asking[l] # 0
      /\ ledger' = Append(ledger, r) /\ asking' = [asking EXCEPT ![l] = 0]
      /\ value' = [value EXCEPT ![l] = a] /\ at' = [at EXCEPT ![l] = at[l] + 1]
      /\ UNCHANGED <<lane, tool, operations, slots, program, artifact, taken, cursor, verdict>>
  BY DEF Answered, Applied, Moves, Resumes, CanGo, MayRun, memoryRest
<1>2. /\ value \in [Lanes -> Readable] /\ at \in [Lanes -> Nat] /\ asking \in [Lanes -> Nat]
      /\ slots \in Seq(Slot) /\ ledger \in Seq(LedgerRow) /\ n \in Nat
  BY DEF SessionInv, SessionTypeOK
<1>3. /\ Turn(l) /\ Step(l) = "reply" /\ asking[l] \in 1..Len(slots) /\ ~InMemory(l)
      /\ RunRows = ledger /\ tool[l].at = "none"
  <2>1. Busy(l)
    BY <1>1 DEF Busy
  <2>2. Step(l) = "reply"
    BY <1>1 DEF SessionInv, WaitsInStep
  <2>3. tool[l].at = "none"
    BY <2>2 DEF ToolInv
  <2> QED BY <1>1, <2>1, <2>2, <2>3, BusyHasTurn
          DEF SessionInv, WaitsInStep, RunSlots, RunRows, RunInv
<1>4. /\ asking[l] = Len(slots) /\ n > 0 /\ n \in 1..n
      /\ ledger[n].lane = l /\ ledger[n].step = at[l] /\ ledger[n].etype = "Sent"
  BY <1>1, <1>2, <1>3 DEF RunInv, BehindItsRow, RowOf
<1>5. a \in Readable
  BY <1>2, <1>3, SlotTypes
<1>6. r \in LedgerRow /\ r.etype = "Resolved" /\ r.lane = l /\ r.step = at[l] /\ r.val = a
  BY <1>2, <1>5 DEF Row, LedgerRow, EventTypes
<1>7. a = slots[Len(slots)].answer
  BY <1>4
<1> HIDE DEF r, a
<1>8. /\ Len(ledger') = n + 1 /\ ledger'[n + 1] = r
      /\ \A i \in 1..n : ledger'[i] = ledger[i]
      /\ IsLive' /\ RunRows' = ledger' /\ \A m \in Lanes : Reached(m)' = at'[m]
      /\ \A m \in Lanes : m # l => at'[m] = at[m]
      /\ at'[l] = at[l] + 1
  BY <1>1, <1>2, <1>6 DEF IsLive, RunRows, Reached
<1>9. /\ \A m \in Lanes : m # l => ~Busy(m) /\ asking[m] = 0
      /\ \A m \in Lanes : asking'[m] = 0
      /\ \A m \in Lanes : lane[m].stage # "committed" /\ tool[m].at = "none"
  BY <1>1, <1>2, <1>3, TurnIsAlone DEF RunInv, Busy, InMemory
<1>10. \A i \in 1..n : /\ ledger[i].lane \in Lanes /\ ledger[i].step \in Nat
                       /\ i # n => ledger[i].step < at[ledger[i].lane] /\ Precedes(ledger[i], r)
  BY <1>1, <1>2, <1>3, <1>6, RowsBefore, RowTypes
<1>11. \A i \in 1..n : Precedes(ledger[i], r)
  <2>1. Precedes(ledger[n], r)
    BY <1>4, <1>6 DEF Precedes, Calls, Results
  <2> QED BY <1>10, <2>1
<1>12. Steps(l)[at[l] + 1] = "reply"
  BY <1>3 DEF Step
<1>13. /\ RowsInOrder' /\ RowsFitSteps' /\ StepsHaveRows' /\ RowsSayWhatIsRead'
       /\ SlotsAreRows' /\ OperationsAreRows'
  BY <1>1, <1>4, <1>6, <1>7, <1>9, <1>11, <1>12, RowKeeps DEF KindOf
<1>14. OneBehindTheOther'
  <2>1. \A m \in Lanes : ~Busy(m)'
    BY <1>1, <1>3, <1>9 DEF Busy, InMemory, IsLive
  <2>2. \A m \in Lanes : m # l => IsDone(m)' = IsDone(m)
    BY <1>1, <1>8 DEF IsDone, Steps
  <2>3. \A m \in Lanes : m \in Nat /\ at[m] \in Nat
    BY <1>2, LanesAssumption
  <2> QED BY <1>3, <1>8, <2>1, <2>2, <2>3 DEF RunInv, OneBehindTheOther, Turn
<1>15. RowsReached'
  <2>1. ASSUME NEW i \in 1..n PROVE ledger[i].step < at'[ledger[i].lane]
    <3>1. ledger[i].lane \in Lanes /\ ledger[i].step \in Nat /\ at[l] \in Nat
      BY <1>2, <1>10
    <3>2. CASE i = n
      BY <1>4, <1>8, <3>1, <3>2
    <3>3. CASE i # n
      <4>1. ledger[i].step < at[ledger[i].lane]
        BY <1>10, <3>3
      <4> QED BY <1>8, <3>1, <4>1
    <3> QED BY <3>2, <3>3
  <2>2. r.step < at'[r.lane] /\ r.lane \in Lanes
    BY <1>2, <1>6, <1>8
  <2>3. ASSUME NEW i \in 1..(n + 1)
        PROVE  ledger'[i].step < at'[ledger'[i].lane] /\ ledger'[i].lane \in Lanes
    <3>1. CASE i = n + 1
      BY <1>8, <2>2, <3>1
    <3>2. CASE i \in 1..n
      BY <1>8, <1>10, <2>1, <3>2
    <3> QED BY <1>2, <3>1, <3>2
  <2> QED BY <1>8, <2>3 DEF RowsReached
<1>16. LastIsAnswered'
  BY <1>2, <1>6, <1>8 DEF LastIsAnswered
<1>17. BehindItsRow'
  BY <1>1, <1>9 DEF BehindItsRow
<1>18. ReplayIsPrefix' /\ NothingTaken' /\ NotRefused'
  BY <1>1, <1>8 DEF RunInv, ReplayIsPrefix, NothingTaken, NotRefused
<1> QED BY <1>13, <1>14, <1>15, <1>16, <1>17, <1>18 DEF RunInv

LEMMA CommitsKeepsRun ==
  ASSUME RuntimeInv, SessionInv, ToolInv, ~program.overlap, RunInv, NEW l \in Lanes, IsLive,
         NEW v \in Reads(l), Commits(l, Row(Step(l), l, v)), value' = [value EXCEPT ![l] = v],
         UNCHANGED <<at, errors, program, asking, tool, slots, artifact, taken, cursor, verdict>>
  PROVE  RunInv'
<1> DEFINE n == Len(ledger)
           r == Row(Step(l), l, v)
<1>1. /\ lane[l].stage = "inside" /\ ledger' = Append(ledger, r) /\ operations' = operations
      /\ lane' = [lane EXCEPT ![l].stage = "committed", ![l].tick = n]
  BY DEF Commits
<1>2. /\ value \in [Lanes -> Readable] /\ at \in [Lanes -> Nat] /\ lane \in [Lanes -> LaneState]
      /\ ledger \in Seq(LedgerRow) /\ n \in Nat
  BY DEF SessionInv, SessionTypeOK, RuntimeInv, RuntimeTypeOK
<1>3. /\ Turn(l) /\ Step(l) \in {"store", "recall"} /\ asking[l] = 0 /\ RunRows = ledger
      /\ InMemory(l) /\ tool[l].at = "none"
  <2>1. Busy(l) /\ InMemory(l)
    BY <1>1 DEF Busy, InMemory
  <2> QED BY <1>1, <2>1, BusyHasTurn DEF SessionInv, WaitsInStep, RunRows, RunInv, ToolInv
<1>4. v \in Readable /\ (Step(l) = "store" => v = value[l])
  BY <1>2 DEF Reads, Readable
<1>5. r \in LedgerRow /\ r.etype = Step(l) /\ r.lane = l /\ r.step = at[l] /\ r.val = v
  BY <1>2, <1>3, <1>4 DEF Row, LedgerRow, EventTypes
<1> HIDE DEF r
<1>6. /\ Len(ledger') = n + 1 /\ ledger'[n + 1] = r
      /\ \A i \in 1..n : ledger'[i] = ledger[i]
      /\ IsLive' /\ RunRows' = ledger' /\ \A m \in Lanes : Reached(m)' = at[m]
      /\ \A m \in Lanes : m # l => lane'[m] = lane[m]
      /\ lane'[l].stage = "committed" /\ lane'[l].tick = n
      /\ value'[l] = v
  BY <1>1, <1>2, <1>5 DEF IsLive, RunRows, Reached
<1>7. /\ \A m \in Lanes : m # l => ~Busy(m)
      /\ \A m \in Lanes : asking[m] = 0 /\ lane[m].stage # "committed" /\ tool[m].at = "none"
  BY <1>1, <1>2, <1>3, TurnIsAlone DEF RunInv, Busy, InMemory
<1>8. \A i \in 1..n : /\ Precedes(ledger[i], r) /\ ledger[i].step < at[ledger[i].lane]
                      /\ ledger[i].lane \in Lanes
  BY <1>1, <1>2, <1>3, <1>5, <1>7, RowsBefore, RowTypes
<1>9. n > 0 => ledger[n].etype # "Sent"
  BY <1>2, <1>3, <1>7, <1>8 DEF RunInv, LastIsAnswered
<1>10. Steps(l)[at[l] + 1] = Step(l)
  BY DEF Step
<1>11. /\ RowsInOrder' /\ RowsFitSteps' /\ StepsHaveRows' /\ RowsSayWhatIsRead'
       /\ SlotsAreRows' /\ OperationsAreRows'
  <2>1. (\E m \in Lanes : lane'[m].stage = "committed") <=> r.etype \in {"store", "recall"}
    BY <1>3, <1>5, <1>6
  <2>2. Steps(r.lane)[r.step + 1] = KindOf(r.etype)
    BY <1>3, <1>5, <1>10 DEF KindOf
  <2>3. r.etype # "Sent" /\ (r.etype \in {"Sent", "store", "ToolStarted"} => r.val = value[r.lane])
    BY <1>3, <1>4, <1>5
  <2> QED BY <1>1, <1>5, <1>7, <1>8, <1>9, <2>1, <2>2, <2>3, RowKeeps
<1>12. OneBehindTheOther'
  <2>1. \A m \in Lanes : Busy(m)' => m = l
    BY <1>6, <1>7 DEF Busy, InMemory, IsLive
  <2>2. \A m \in Lanes : IsDone(m)' = IsDone(m)
    BY DEF IsDone, Steps
  <2> QED BY <1>3, <2>1, <2>2 DEF RunInv, OneBehindTheOther, Turn
<1>13. RowsReached'
  <2>1. \A i \in 1..n : ledger'[i].step < at[ledger'[i].lane] /\ ledger'[i].lane \in Lanes
    BY <1>6, <1>8
  <2> QED BY <1>2, <1>5, <1>6, <2>1 DEF RowsReached
<1>14. LastIsAnswered'
  BY <1>2, <1>3, <1>5, <1>6 DEF LastIsAnswered
<1>15. BehindItsRow'
  <2>1. Step(l)' = Step(l)
    BY DEF Step, Steps
  <2> QED BY <1>2, <1>5, <1>6, <1>7, <2>1 DEF BehindItsRow, RowOf
<1>16. ReplayIsPrefix' /\ NothingTaken' /\ NotRefused'
  BY <1>6 DEF RunInv, ReplayIsPrefix, NothingTaken, NotRefused
<1> QED BY <1>11, <1>12, <1>13, <1>14, <1>15, <1>16 DEF RunInv

\* The place of a row among those of its types.
LEMMA CountIndex ==
  ASSUME NEW log, NEW n \in Nat, NEW i \in 1..n, NEW K, log[i].etype \in K
  PROVE  /\ Count(log, n, K) \in Nat
         /\ Count(log, i, K) \in 1..Count(log, n, K)
         /\ Count(log, i, K) = Count(log, i - 1, K) + 1
         /\ i < n /\ log[n].etype \in K => Count(log, i, K) < Count(log, n, K)
<1>1. i - 1 \in Nat /\ i \in Nat /\ (i - 1) + 1 = i
  OBVIOUS
<1>2. Count(log, (i - 1) + 1, K) = IF log[(i - 1) + 1].etype \in K THEN Count(log, i - 1, K) + 1
                                   ELSE Count(log, i - 1, K)
  BY <1>1, CountStep
<1>3. Count(log, i - 1, K) \in Nat /\ Count(log, i, K) \in Nat /\ Count(log, n, K) \in Nat
  BY <1>1, CountTypes
<1>4. i < n => /\ Count(log, i, K) <= Count(log, n, K)
               /\ log[n].etype \in K => Count(log, i, K) + 1 <= Count(log, n, K)
  BY <1>1, CountGrows
<1> QED BY <1>1, <1>2, <1>3, <1>4

\* An answer arrives for the question that is the last row.
LEMMA ArrivesKeepsRun ==
  ASSUME RuntimeInv, SessionInv, ToolInv, ~program.overlap, RunInv, NEW l \in Lanes, Arrives(l)
  PROVE  RunInv'
<1> DEFINE n == Len(ledger)
           s == asking[l]
<1>1. /\ IsLive /\ s # 0
      /\ UNCHANGED <<ledger, lane, operations, program, at, asking, tool, value, artifact, taken, cursor, verdict>>
  BY DEF Arrives, memoryVars, replayVars
<1>2. PICK a \in Answers : slots' = [slots EXCEPT ![s].answer = a]
  BY DEF Arrives
<1>3. slots \in Seq(Slot) /\ ledger \in Seq(LedgerRow) /\ n \in Nat /\ Len(slots) \in Nat
  BY DEF SessionInv, SessionTypeOK
<1>4. /\ RunRows = ledger /\ RunSlots = slots /\ RunRows' = ledger /\ RunSlots' = slots'
      /\ RunOperations = operations /\ RunOperations' = operations /\ IsLive'
  BY <1>1 DEF RunRows, RunSlots, RunOperations, IsLive
<1>5. s = Len(slots) /\ n > 0 /\ ledger[n].etype = "Sent" /\ n \in 1..n
  BY <1>1, <1>3, <1>4 DEF RunInv, BehindItsRow, RowOf
<1>6. s \in 1..Len(slots)
  BY <1>1, <1>4 DEF SessionInv, WaitsInStep
<1>7. /\ Len(slots') = Len(slots)
      /\ slots'[s].question = slots[s].question
      /\ \A j \in 1..Len(slots) : j # s => slots'[j] = slots[j]
  <2>1. slots[s] \in Slot
    BY <1>3, <1>6, SlotTypes
  <2> QED BY <1>2, <1>3, <1>6, <2>1 DEF Slot
<1>8. SlotsAreRows'
  <2>1. Len(slots) = Sent(ledger, n)
    BY <1>4 DEF RunInv, SlotsAreRows
  <2>2. ASSUME NEW i \in 1..n, ledger[i].etype = "Sent"
        PROVE  /\ slots'[Sent(ledger, i)].question
                    = [step |-> ledger[i].step, about |-> ledger[i].val]
               /\ i < n => /\ ledger[i + 1].lane = ledger[i].lane
                           /\ ledger[i + 1].step = ledger[i].step
                           /\ ledger[i + 1].etype = "Resolved"
                           /\ ledger[i + 1].val = slots'[Sent(ledger, i)].answer
    <3>1. /\ slots[Sent(ledger, i)].question = [step |-> ledger[i].step, about |-> ledger[i].val]
          /\ i < n => /\ ledger[i + 1].lane = ledger[i].lane
                      /\ ledger[i + 1].step = ledger[i].step
                      /\ ledger[i + 1].etype = "Resolved"
                      /\ ledger[i + 1].val = slots[Sent(ledger, i)].answer
      BY <1>4, <2>2 DEF RunInv, SlotsAreRows, RowOf
    <3>2. CASE i = n
      BY <1>5, <1>7, <2>1, <3>1, <3>2
    <3>3. CASE i # n
      <4>1. i < n /\ ledger[n].etype \in {"Sent"} /\ ledger[i].etype \in {"Sent"}
        BY <1>3, <1>5, <2>2, <3>3
      <4>2. /\ Count(ledger, n, {"Sent"}) \in Nat
            /\ Count(ledger, i, {"Sent"}) \in 1..Count(ledger, n, {"Sent"})
            /\ Count(ledger, i, {"Sent"}) < Count(ledger, n, {"Sent"})
        BY <1>3, <4>1, CountIndex
      <4>3. Sent(ledger, i) \in 1..Len(slots) /\ Sent(ledger, i) # s
        BY <1>3, <1>5, <2>1, <4>2 DEF Sent
      <4> QED BY <1>7, <3>1, <4>3
    <3> QED BY <3>2, <3>3
  <2> QED BY <1>4, <1>7, <2>1, <2>2 DEF SlotsAreRows, RowOf
<1>9. BehindItsRow'
  BY <1>1, <1>4, <1>7 DEF RunInv, BehindItsRow, RowOf, Step, Steps
<1>10. /\ RowsInOrder' /\ RowsFitSteps' /\ StepsHaveRows' /\ RowsSayWhatIsRead'
  BY <1>1, <1>4 DEF RunInv, RowsInOrder, RowsFitSteps, StepsHaveRows, RowsSayWhatIsRead, RowOf,
     Reached, Steps
<1>11. OneBehindTheOther' /\ RowsReached' /\ LastIsAnswered'
  BY <1>1, <1>4 DEF RunInv, OneBehindTheOther, RowsReached, LastIsAnswered, Busy, WaitsFor, InMemory,
     Reached, IsDone, Steps, IsLive
<1>12. OperationsAreRows'
  BY <1>1, <1>4 DEF RunInv, OperationsAreRows, Unfinished, Journalled
<1>13. ReplayIsPrefix' /\ NothingTaken' /\ NotRefused'
  BY <1>1, <1>4 DEF RunInv, ReplayIsPrefix, NothingTaken, NotRefused
<1> QED BY <1>8, <1>9, <1>10, <1>11, <1>12, <1>13 DEF RunInv

\* The operation that is finished is the one of the last row.
LEMMA FinishesKeepsRun ==
  ASSUME RuntimeInv, SessionInv, ToolInv, ~program.overlap, RunInv, NEW l \in Lanes, IsLive,
         Finishes(l, Request(l, Given(l))), Moves(l),
         UNCHANGED <<program, asking, tool, value, slots, artifact, taken, cursor, verdict>>
  PROVE  RunInv'
<1> DEFINE n == Len(ledger)
           op == [request |-> Request(l, Given(l)), tick |-> lane[l].tick,
                  row |-> ledger[lane[l].tick + 1], head |-> ledger]
<1>1. /\ lane[l].stage = "committed" /\ ledger' = ledger
      /\ operations' = Append(operations, op) /\ lane' = [lane EXCEPT ![l] = Idle]
      /\ at' = [at EXCEPT ![l] = at[l] + 1]
  BY DEF Finishes, RecordedHead, Moves
<1>2. /\ value \in [Lanes -> Readable] /\ at \in [Lanes -> Nat] /\ lane \in [Lanes -> LaneState]
      /\ ledger \in Seq(LedgerRow) /\ n \in Nat /\ operations \in Seq(Operation)
      /\ Len(operations) \in Nat
  BY DEF SessionInv, SessionTypeOK, RuntimeInv, RuntimeTypeOK
<1>3. /\ Turn(l) /\ Step(l) \in {"store", "recall"} /\ asking[l] = 0 /\ RunRows = ledger
      /\ RunOperations = operations /\ InMemory(l) /\ tool[l].at = "none"
  <2>1. Busy(l) /\ InMemory(l)
    BY <1>1 DEF Busy, InMemory
  <2> QED BY <1>1, <2>1, BusyHasTurn DEF SessionInv, WaitsInStep, RunRows, RunOperations, RunInv, ToolInv
<1>4. /\ lane[l].tick = n - 1 /\ n > 0 /\ n \in 1..n /\ lane[l].tick + 1 = n
      /\ ledger[n].lane = l /\ ledger[n].step = at[l] /\ ledger[n].etype = Step(l)
      /\ ledger[n].val = value[l]
  BY <1>1, <1>2, <1>3 DEF RunInv, BehindItsRow, RowOf
<1>5. op = Journalled(n)
  <2>1. Request(l, Given(l)) =
          [kind |-> ledger[n].etype, lane |-> ledger[n].lane, step |-> ledger[n].step,
           val |-> IF ledger[n].etype = "recall" THEN None ELSE ledger[n].val]
    BY <1>4 DEF Request, Given
  <2>2. SubSeq(ledger, 1, n) = ledger
    BY <1>2
  <2> QED BY <1>3, <1>4, <2>1, <2>2 DEF Journalled
<1> HIDE DEF op
<1>6. /\ Len(operations') = Len(operations) + 1 /\ operations'[Len(operations) + 1] = op
      /\ \A j \in 1..Len(operations) : operations'[j] = operations[j]
  BY <1>1, <1>2
<1>7. /\ IsLive' /\ RunRows' = ledger /\ RunSlots' = RunSlots /\ RunOperations' = operations'
      /\ \A m \in Lanes : Reached(m) = at[m] /\ Reached(m)' = at'[m]
      /\ \A m \in Lanes : m # l => at'[m] = at[m] /\ lane'[m] = lane[m]
      /\ at'[l] = at[l] + 1 /\ lane'[l].stage = "idle"
  BY <1>1, <1>2 DEF IsLive, RunRows, RunSlots, RunOperations, Reached, Idle
<1>8. /\ \A m \in Lanes : m # l => ~Busy(m) /\ lane[m].stage = "idle"
      /\ \A m \in Lanes : asking[m] = 0 /\ lane'[m].stage = "idle" /\ tool[m].at = "none"
  BY <1>3, <1>7, TurnIsAlone DEF RunInv, Busy, InMemory
<1>9. ASSUME NEW i \in 1..n
      PROVE  ledger[i].lane \in Lanes /\ ledger[i].step < at'[ledger[i].lane]
  <2>1. ledger[i].lane \in Lanes /\ ledger[i].step \in Nat /\ at[l] \in Nat
    BY <1>2, RowTypes
  <2>2. CASE i = n
    BY <1>4, <1>7, <2>1, <2>2
  <2>3. CASE i # n
    <3>1. ledger[i].step < at[ledger[i].lane] \/ i = n
      BY <1>3, <1>7, <2>1 DEF RunInv, RowsReached
    <3> QED BY <1>7, <2>1, <2>3, <3>1
  <2> QED BY <2>2, <2>3
<1>10. OneBehindTheOther'
  <2>1. \A m \in Lanes : ~Busy(m)'
    BY <1>7, <1>8 DEF Busy, InMemory
  <2>2. \A m \in Lanes : m # l => IsDone(m)' = IsDone(m)
    BY <1>1, <1>7 DEF IsDone, Steps
  <2>3. \A m \in Lanes : m \in Nat /\ at[m] \in Nat
    BY <1>2, LanesAssumption
  <2> QED BY <1>3, <1>7, <2>1, <2>2, <2>3 DEF RunInv, OneBehindTheOther, Turn
<1>11. RowsReached' /\ LastIsAnswered'
  <2>1. RowsReached'
    BY <1>7, <1>9 DEF RowsReached
  <2>2. ledger[n].etype # "Sent"
    BY <1>3, <1>4
  <2> QED BY <1>7, <2>1, <2>2 DEF LastIsAnswered
<1>12. /\ RowsInOrder' /\ RowsFitSteps' /\ RowsSayWhatIsRead' /\ SlotsAreRows'
  <2>1. RowsInOrder' /\ RowsFitSteps'
    BY <1>3, <1>7 DEF RunInv, RowsInOrder, RowsFitSteps, Steps
  <2>2. RowsSayWhatIsRead'
    BY <1>3, <1>7 DEF RunInv, RowsSayWhatIsRead
  <2>3. SlotsAreRows'
    BY <1>3, <1>7 DEF RunInv, SlotsAreRows, RowOf
  <2> QED BY <2>1, <2>2, <2>3
<1>13. StepsHaveRows'
  <2>1. ASSUME NEW m \in Lanes, NEW k \in 0..(at'[m] - 1)
        PROVE  /\ Steps(m)[k + 1] = "reply" =>
                    \E i \in 1..(n - 1) : RowOf(i, m, k, "Sent")
               /\ Steps(m)[k + 1] \in {"store", "recall"} =>
                    \E i \in 1..n : RowOf(i, m, k, Steps(m)[k + 1])
               /\ Steps(m)[k + 1] = "tool" => \E i \in 1..n : RowOf(i, m, k, "ToolStarted")
    <3>1. CASE k \in 0..(at[m] - 1)
      BY <1>3, <1>7, <3>1 DEF RunInv, StepsHaveRows
    <3>2. CASE k \notin 0..(at[m] - 1)
      <4>1. m = l /\ k = at[l]
        BY <1>2, <1>7, <2>1, <3>2
      <4>2. Steps(m)[k + 1] = Step(l) /\ RowOf(n, m, k, Step(l))
        BY <1>3, <1>4, <4>1 DEF Step, RowOf
      <4> QED BY <1>3, <1>4, <4>2
    <3> QED BY <3>1, <3>2
  <2>2. \A m \in Lanes : Steps(m)' = Steps(m)
    BY DEF Steps
  <2>3. RunRows' = ledger /\ \A m \in Lanes : Reached(m)' = at'[m]
    BY <1>7
  <2> QED BY <1>3, <2>1, <2>2, <2>3 DEF StepsHaveRows, RowOf
<1>14. OperationsAreRows'
  <2>1. /\ Unfinished(Len(RunRows))
        /\ \A i : ~Unfinished(i)'
        /\ \A i : Unfinished(i) => i = n
    BY <1>1, <1>3, <1>8 DEF Unfinished
  <2>2. /\ Len(operations) = Stored(ledger, n) - 1
        /\ \A i \in 1..n : ledger[i].etype \in {"store", "recall"} /\ ~Unfinished(i) =>
             operations[Stored(ledger, i)] = Journalled(i)
    BY <1>3, <2>1 DEF RunInv, OperationsAreRows
  <2>3. Stored(ledger, n) \in Nat /\ Len(operations') = Stored(ledger, n)
    <3>1. Count(ledger, n, {"store", "recall"}) \in Nat
      BY <1>2, CountTypes
    <3> QED BY <1>2, <1>6, <2>2, <3>1 DEF Stored
  <2>4. ASSUME NEW i \in 1..n, ledger[i].etype \in {"store", "recall"}
        PROVE  operations'[Stored(ledger, i)] = Journalled(i)
    <3>1. CASE i = n
      BY <1>2, <1>5, <1>6, <2>2, <2>3, <3>1
    <3>2. CASE i # n
      <4>1. operations[Stored(ledger, i)] = Journalled(i)
        BY <2>1, <2>2, <2>4, <3>2
      <4>2. i < n /\ ledger[n].etype \in {"store", "recall"}
          <5>1. i < n
            BY <1>2, <3>2
          <5>2. ledger[n].etype \in {"store", "recall"}
            BY <1>3, <1>4
          <5> QED BY <5>1, <5>2
      <4>3. /\ Count(ledger, i, {"store", "recall"}) \in 1..Count(ledger, n, {"store", "recall"})
            /\ Count(ledger, i, {"store", "recall"}) < Count(ledger, n, {"store", "recall"})
        BY <1>2, <2>4, <4>2, CountIndex
      <4>4. Stored(ledger, i) \in 1..Len(operations)
        BY <2>2, <2>3, <4>3 DEF Stored
      <4> QED BY <1>6, <4>1, <4>4
    <3> QED BY <3>1, <3>2
  <2>5. \A i : Journalled(i)' = Journalled(i)
    BY <1>3, <1>7 DEF Journalled
  <2> QED BY <1>7, <2>1, <2>3, <2>4, <2>5 DEF OperationsAreRows
<1>15. BehindItsRow'
  BY <1>8 DEF BehindItsRow
<1>16. ReplayIsPrefix' /\ NothingTaken' /\ NotRefused'
  BY <1>7 DEF RunInv, ReplayIsPrefix, NothingTaken, NotRefused
<1> QED BY <1>10, <1>11, <1>12, <1>13, <1>14, <1>15, <1>16 DEF RunInv

\* A lane that goes on without a row, or is through a step that has none.
LEMMA LaneKeepsRun ==
  ASSUME SessionInv, ToolInv, RunInv, IsLive, NEW l \in Lanes, Turn(l), asking[l] = 0,
         tool[l].at = "none", tool' = tool,
         lane \in [Lanes -> LaneState],
         lane[l].stage # "committed",
         UNCHANGED <<ledger, operations, program, asking, value, slots, artifact, taken, cursor, verdict>>,
         \A m \in Lanes : m # l => lane'[m] = lane[m],
         lane'[l].stage # "committed",
         at' = at \/ (Moves(l) /\ Step(l) = "validate" /\ lane'[l].stage = "idle")
  PROVE  RunInv'
<1> DEFINE n == Len(ledger)
<1>1. /\ at \in [Lanes -> Nat] /\ ledger \in Seq(LedgerRow) /\ n \in Nat
  BY DEF SessionInv, SessionTypeOK
<1>2. /\ IsLive' /\ RunRows' = RunRows /\ RunSlots' = RunSlots /\ RunOperations' = RunOperations
      /\ RunRows = ledger
      /\ \A m \in Lanes : Reached(m) = at[m] /\ Reached(m)' = at'[m]
  BY DEF IsLive, RunRows, RunSlots, RunOperations, Reached
<1>3. at' = at \/ (at' = [at EXCEPT ![l] = at[l] + 1] /\ Step(l) = "validate"
                   /\ lane'[l].stage = "idle")
  BY DEF Moves
<1>4. \A m \in Lanes : /\ m # l => at'[m] = at[m]
                       /\ at[m] \in Nat /\ at'[m] \in {at[m], at[m] + 1}
  BY <1>1, <1>3
<1>5. /\ \A m \in Lanes : m # l => ~Busy(m)
      /\ \A m \in Lanes : /\ asking[m] = 0 /\ tool[m].at = "none"
                         /\ lane[m].stage # "committed" /\ lane'[m].stage # "committed"
  BY TurnIsAlone DEF RunInv, Busy, InMemory
<1>6. OneBehindTheOther'
  <2>1. \A m \in Lanes : m # l => ~Busy(m)'
    BY <1>2, <1>5 DEF Busy, InMemory
  <2>2. \A m \in Lanes : m # l => IsDone(m)' = IsDone(m)
    BY <1>4 DEF IsDone, Steps
  <2>3. \A m \in Lanes : m \in Nat
    BY LanesAssumption
  <2> QED BY <1>4, <2>1, <2>2, <2>3 DEF RunInv, OneBehindTheOther, Turn
<1>7. ASSUME NEW i \in 1..n
      PROVE  ledger[i].lane \in Lanes /\ ledger[i].step < at'[ledger[i].lane]
  <2>1. ledger[i].lane \in Lanes /\ ledger[i].step \in Nat
    BY <1>1, RowTypes
  <2>2. ledger[i].step < at[ledger[i].lane]
    BY <1>2, <1>5, <2>1 DEF RunInv, RowsReached, WaitsFor
  <2> QED BY <1>4, <2>1, <2>2
<1>8. RowsReached' /\ LastIsAnswered'
  BY <1>2, <1>7 DEF RunInv, RowsReached, LastIsAnswered, IsLive
<1>9. /\ RowsInOrder' /\ RowsFitSteps' /\ RowsSayWhatIsRead' /\ SlotsAreRows'
  BY <1>2 DEF RunInv, RowsInOrder, RowsFitSteps, RowsSayWhatIsRead, SlotsAreRows, RowOf, Steps
<1>10. StepsHaveRows'
  <2>1. ASSUME NEW m \in Lanes, NEW k \in 0..(at'[m] - 1), k \notin 0..(at[m] - 1)
        PROVE  Steps(m)[k + 1] = "validate"
    <3>1. m = l /\ k = at[l] /\ Step(l) = "validate"
      BY <1>1, <1>3, <2>1
    <3> QED BY <3>1 DEF Step
  <2>2. ASSUME NEW m \in Lanes, NEW k \in 0..(at'[m] - 1)
        PROVE  /\ Steps(m)[k + 1] = "reply" =>
                    \E i \in 1..(n - 1) : RowOf(i, m, k, "Sent")
               /\ Steps(m)[k + 1] \in {"store", "recall"} =>
                    \E i \in 1..n : RowOf(i, m, k, Steps(m)[k + 1])
               /\ Steps(m)[k + 1] = "tool" => \E i \in 1..n : RowOf(i, m, k, "ToolStarted")
    BY <1>2, <2>1 DEF RunInv, StepsHaveRows
  <2>3. \A m \in Lanes : Steps(m)' = Steps(m)
    BY DEF Steps
  <2> QED BY <1>2, <2>2, <2>3 DEF StepsHaveRows, RowOf
<1>11. OperationsAreRows'
  <2>1. \A i : ~Unfinished(i) /\ ~Unfinished(i)'
    BY <1>5 DEF Unfinished
  <2>2. \A i : Journalled(i)' = Journalled(i)
    BY <1>2 DEF Journalled
  <2> QED BY <1>2, <2>1, <2>2 DEF RunInv, OperationsAreRows
<1>12. BehindItsRow'
  BY <1>5 DEF BehindItsRow
<1>13. ReplayIsPrefix' /\ NothingTaken' /\ NotRefused'
  BY <1>2 DEF RunInv, ReplayIsPrefix, NothingTaken, NotRefused
<1> QED BY <1>6, <1>8, <1>9, <1>10, <1>11, <1>12, <1>13 DEF RunInv

\* A tool is called behind the rows of the earlier steps.
LEMMA ToolCalledKeepsRun ==
  ASSUME RuntimeInv, SessionInv, ToolInv, ~program.overlap, RunInv, IsLive,
         NEW l \in Lanes, ToolCalled(l)
  PROVE  RunInv'
<1> DEFINE n == Len(ledger)
           r == Row("ToolStarted", l, value[l])
<1>1. /\ Turn(l) /\ asking[l] = 0 /\ lane[l].stage = "idle" /\ Step(l) = "tool"
      /\ tool[l].at = "none"
      /\ ledger' = Append(ledger, r) /\ tool' = [tool EXCEPT ![l].at = "called"]
      /\ UNCHANGED <<lane, asking, slots, operations, program, at, value, artifact, taken, cursor,
                     verdict>>
  BY DEF ToolCalled, Resumes, CanGo, MayRun, Free, memoryRest, Turn
<1>2. /\ value \in [Lanes -> Readable] /\ at \in [Lanes -> Nat]
      /\ slots \in Seq(Slot) /\ Len(slots) \in Nat /\ ledger \in Seq(LedgerRow)
      /\ tool \in [Lanes -> [at : {"none", "called", "back"}, result : Readable]]
  BY DEF SessionInv, SessionTypeOK, ToolInv
<1>3. /\ r \in LedgerRow /\ r.etype = "ToolStarted" /\ r.lane = l /\ r.step = at[l]
      /\ r.val = value[l]
  BY <1>2 DEF Row, LedgerRow, EventTypes
<1> HIDE DEF r
<1>4. /\ n \in Nat /\ Len(ledger') = n + 1 /\ ledger'[n + 1] = r
      /\ \A i \in 1..n : ledger'[i] = ledger[i]
      /\ IsLive' /\ RunRows = ledger /\ RunRows' = ledger' /\ \A m \in Lanes : Reached(m)' = at[m]
  BY <1>1, <1>2, <1>3 DEF IsLive, RunRows, Reached
<1>5. /\ \A m \in Lanes : m # l => ~Busy(m)
      /\ tool'[l].at = "called"
      /\ \A m \in Lanes : m # l => tool'[m] = tool[m] /\ tool[m].at = "none"
      /\ \A m \in Lanes : lane[m].stage # "committed" /\ asking[m] = 0 /\ tool[m].at = "none"
  BY <1>1, <1>2, TurnIsAlone DEF RunInv, Busy, InMemory
<1>6. \A i \in 1..n : /\ Precedes(ledger[i], r) /\ ledger[i].step < at[ledger[i].lane]
                      /\ ledger[i].lane \in Lanes
  BY <1>1, <1>2, <1>3, RowsBefore, RowTypes
<1>7. n > 0 => ledger[n].etype # "Sent"
  BY <1>4, <1>5, <1>6 DEF RunInv, LastIsAnswered
<1>8. /\ RowsInOrder' /\ RowsFitSteps' /\ StepsHaveRows' /\ RowsSayWhatIsRead'
      /\ SlotsAreRows' /\ OperationsAreRows'
  <2>1. Steps(r.lane)[r.step + 1] = KindOf(r.etype)
    BY <1>1, <1>3 DEF Step, KindOf
  <2>2. ~(\E m \in Lanes : lane'[m].stage = "committed") /\ r.etype \notin {"store", "recall"}
    BY <1>1, <1>3, <1>5
  <2>3. Len(slots') = Len(slots) /\ r.etype # "Sent" /\ \A j \in 1..Len(slots) : slots'[j] = slots[j]
    BY <1>1, <1>3
  <2> QED BY <1>1, <1>3, <1>5, <1>6, <1>7, <2>1, <2>2, <2>3, RowKeeps
<1>9. OneBehindTheOther'
  <2>1. \A m \in Lanes : Busy(m)' => m = l
    BY <1>1, <1>5 DEF Busy, InMemory, IsLive
  <2>2. \A m \in Lanes : IsDone(m)' = IsDone(m)
    BY <1>1 DEF IsDone, Steps
  <2> QED BY <1>1, <2>1, <2>2 DEF RunInv, OneBehindTheOther, Turn
<1>10. RowsReached'
  <2>1. \A i \in 1..n : ledger'[i].step < at[ledger'[i].lane] /\ ledger'[i].lane \in Lanes
    BY <1>4, <1>6
  <2> QED BY <1>1, <1>3, <1>4, <1>5, <2>1 DEF RowsReached, WaitsFor
<1>11. LastIsAnswered'
  BY <1>3, <1>4 DEF LastIsAnswered
<1>12. BehindItsRow'
  BY <1>1, <1>3, <1>4, <1>5 DEF BehindItsRow, RowOf
<1>13. ReplayIsPrefix' /\ NothingTaken' /\ NotRefused'
  BY <1>1, <1>4 DEF RunInv, ReplayIsPrefix, NothingTaken, NotRefused
<1> QED BY <1>8, <1>9, <1>10, <1>11, <1>12, <1>13 DEF RunInv

\* The result of a tool is applied behind its call, with nothing in between.
LEMMA ToolAnsweredKeepsRun ==
  ASSUME RuntimeInv, SessionInv, ToolInv, ~program.overlap, RunInv, IsLive,
         NEW l \in Lanes, ToolAnswered(l)
  PROVE  RunInv'
<1> DEFINE n == Len(ledger)
           r == Row("ToolResolved", l, tool[l].result)
<1>1. /\ tool[l].at = "back" /\ ledger' = Append(ledger, r) /\ tool' = [tool EXCEPT ![l] = NoTool]
      /\ at' = [at EXCEPT ![l] = at[l] + 1]
      /\ UNCHANGED <<lane, asking, operations, slots, program, artifact, taken, cursor, verdict>>
  BY DEF ToolAnswered, Moves, memoryRest
<1>2. /\ at \in [Lanes -> Nat] /\ ledger \in Seq(LedgerRow) /\ n \in Nat
      /\ slots \in Seq(Slot) /\ Len(slots) \in Nat
      /\ tool \in [Lanes -> [at : {"none", "called", "back"}, result : Readable]]
  BY DEF SessionInv, SessionTypeOK, ToolInv
<1>3. /\ Turn(l) /\ Step(l) = "tool" /\ asking[l] = 0 /\ ~InMemory(l) /\ RunRows = ledger
  <2>1. Busy(l) /\ Step(l) = "tool" /\ ~InMemory(l)
    BY <1>1 DEF Busy, ToolInv
  <2> QED BY <2>1, BusyHasTurn DEF SessionInv, WaitsInStep, RunRows, RunInv
<1>4. /\ n > 0 /\ n \in 1..n
      /\ ledger[n].lane = l /\ ledger[n].step = at[l] /\ ledger[n].etype = "ToolStarted"
  BY <1>1, <1>2, <1>3 DEF RunInv, BehindItsRow, RowOf
<1>5. r \in LedgerRow /\ r.etype = "ToolResolved" /\ r.lane = l /\ r.step = at[l]
  BY <1>2 DEF Row, LedgerRow, EventTypes
<1> HIDE DEF r
<1>6. /\ Len(ledger') = n + 1 /\ ledger'[n + 1] = r
      /\ \A i \in 1..n : ledger'[i] = ledger[i]
      /\ IsLive' /\ RunRows' = ledger' /\ \A m \in Lanes : Reached(m)' = at'[m]
      /\ \A m \in Lanes : m # l => at'[m] = at[m]
      /\ at'[l] = at[l] + 1
  BY <1>1, <1>2, <1>5 DEF IsLive, RunRows, Reached
<1>7. /\ \A m \in Lanes : m # l => ~Busy(m)
      /\ \A m \in Lanes : asking[m] = 0 /\ lane[m].stage # "committed" /\ tool'[m].at = "none"
  BY <1>1, <1>2, <1>3, TurnIsAlone DEF RunInv, Busy, InMemory, NoTool
<1>8. ASSUME NEW i \in 1..n, i # n
      PROVE  ledger[i].step < at[ledger[i].lane] /\ Precedes(ledger[i], r)
  <2>1. i = Len(ledger) => /\ asking[l] = 0 /\ tool[l].at = "none" /\ lane[l].stage # "committed"
    BY <1>8
  <2> QED BY <1>3, <1>5, <2>1, RowsBefore
<1>9. \A i \in 1..n : ledger[i].lane \in Lanes /\ ledger[i].step \in Nat
  BY <1>2, RowTypes
<1>10. \A i \in 1..n : Precedes(ledger[i], r)
  <2>1. Precedes(ledger[n], r)
    BY <1>4, <1>5 DEF Precedes, Calls, Results
  <2> QED BY <1>8, <2>1
<1>11. /\ RowsInOrder' /\ RowsFitSteps' /\ StepsHaveRows' /\ RowsSayWhatIsRead'
       /\ SlotsAreRows' /\ OperationsAreRows'
  <2>1. Steps(r.lane)[r.step + 1] = KindOf(r.etype)
    BY <1>3, <1>5 DEF Step, KindOf
  <2>2. ~(\E m \in Lanes : lane'[m].stage = "committed") /\ r.etype \notin {"store", "recall"}
    BY <1>1, <1>5, <1>7
  <2>3. Len(slots') = Len(slots) /\ \A j \in 1..Len(slots) : slots'[j] = slots[j]
    BY <1>1
  <2>4. r.etype \notin {"Sent", "store", "ToolStarted"} /\ ledger[n].etype # "Sent"
    BY <1>4, <1>5
  <2>5. RowOf(n, r.lane, r.step, "ToolStarted")
    BY <1>3, <1>4, <1>5 DEF RowOf
  <2>6. at' = [at EXCEPT ![r.lane] = at[r.lane] + 1] /\ r.step = at[r.lane]
    BY <1>1, <1>5
  <2> QED BY <1>1, <1>3, <1>4, <1>5, <1>7, <1>10, <2>1, <2>2, <2>3, <2>4, <2>5, <2>6, RowKeeps
<1>12. OneBehindTheOther'
  <2>1. \A m \in Lanes : ~Busy(m)'
    BY <1>1, <1>3, <1>7 DEF Busy, InMemory, IsLive
  <2>2. \A m \in Lanes : m # l => IsDone(m)' = IsDone(m)
    BY <1>1, <1>6 DEF IsDone, Steps
  <2>3. \A m \in Lanes : m \in Nat /\ at[m] \in Nat
    BY <1>2, LanesAssumption
  <2> QED BY <1>3, <1>6, <2>1, <2>2, <2>3 DEF RunInv, OneBehindTheOther, Turn
<1>13. RowsReached'
  <2>1. ASSUME NEW i \in 1..n PROVE ledger[i].step < at'[ledger[i].lane]
    <3>1. ledger[i].lane \in Lanes /\ ledger[i].step \in Nat /\ at[l] \in Nat
      BY <1>2, <1>9
    <3>2. CASE i = n
      BY <1>4, <1>6, <3>1, <3>2
    <3>3. CASE i # n
      <4>1. ledger[i].step < at[ledger[i].lane]
        BY <1>8, <3>3
      <4> QED BY <1>6, <3>1, <4>1
    <3> QED BY <3>2, <3>3
  <2>2. r.step < at'[r.lane] /\ r.lane \in Lanes
    BY <1>2, <1>5, <1>6
  <2>3. ASSUME NEW i \in 1..(n + 1)
        PROVE  ledger'[i].step < at'[ledger'[i].lane] /\ ledger'[i].lane \in Lanes
    <3>1. CASE i = n + 1
      BY <1>6, <2>2, <3>1
    <3>2. CASE i \in 1..n
      BY <1>6, <1>9, <2>1, <3>2
    <3> QED BY <1>2, <3>1, <3>2
  <2> QED BY <1>6, <2>3 DEF RowsReached
<1>14. LastIsAnswered'
  BY <1>2, <1>5, <1>6 DEF LastIsAnswered
<1>15. BehindItsRow'
  BY <1>1, <1>7 DEF BehindItsRow
<1>16. ReplayIsPrefix' /\ NothingTaken' /\ NotRefused'
  BY <1>1, <1>6 DEF RunInv, ReplayIsPrefix, NothingTaken, NotRefused
<1> QED BY <1>11, <1>12, <1>13, <1>14, <1>15, <1>16 DEF RunInv

LEMMA FrameKeepsRun ==
  ASSUME SessionInv, RunInv,
         UNCHANGED <<ledger, operations, lane, program, at, asking, value, slots, artifact, taken,
                     cursor>>,
         \A l \in Lanes : (tool'[l].at = "none") = (tool[l].at = "none"),
         verdict' # "refused", verdict = "failed" => verdict' = "failed"
  PROVE  RunInv'
<1>1. /\ IsLive' = IsLive /\ Recorded' = Recorded
      /\ RunRows' = RunRows /\ RunSlots' = RunSlots /\ RunOperations' = RunOperations
      /\ \A l : Reached(l)' = Reached(l) /\ IsDone(l)' = IsDone(l) /\ Step(l)' = Step(l)
      /\ \A l \in Lanes : Busy(l)' = Busy(l) /\ \A e : WaitsFor(l, e)' = WaitsFor(l, e)
      /\ \A i \in 1..Len(RunRows) : RunRows[i].lane \in Lanes
      /\ \A i : Unfinished(i)' = Unfinished(i) /\ Journalled(i)' = Journalled(i)
  BY RunTypes, RowTypes
     DEF IsLive, RunRows, RunSlots, RunOperations, Reached, IsDone, Busy, WaitsFor, InMemory,
         Unfinished, Journalled, Steps, Step, Recorded, SessionInv
<1>2. OneBehindTheOther' /\ RowsInOrder' /\ RowsReached' /\ LastIsAnswered' /\ RowsFitSteps'
  BY <1>1 DEF RunInv, OneBehindTheOther, RowsInOrder, RowsReached, LastIsAnswered, RowsFitSteps, Steps
<1>3. StepsHaveRows' /\ RowsSayWhatIsRead' /\ SlotsAreRows' /\ OperationsAreRows'
  BY <1>1 DEF RunInv, StepsHaveRows, RowsSayWhatIsRead, SlotsAreRows, OperationsAreRows, RowOf, Steps
<1>4. BehindItsRow' /\ ReplayIsPrefix' /\ NothingTaken' /\ NotRefused'
  BY <1>1 DEF RunInv, BehindItsRow, ReplayIsPrefix, NothingTaken, NotRefused, RowOf
<1> QED BY <1>2, <1>3, <1>4 DEF RunInv

\* The recording has every row of the run, and the replay none of them yet.
LEMMA RecordsKeepsRun ==
  ASSUME RuntimeInv, SessionInv, ToolInv, ~program.overlap, RunInv, Records
  PROVE  RunInv'
<1>1. /\ IsLive /\ AllDone
      /\ artifact' = <<[provider |-> slots, memory |-> operations, head |-> ledger, read |-> value]>>
      /\ at' = AtStart /\ asking' = AtStart /\ ledger' = << >>
      /\ UNCHANGED <<program, tool, taken, cursor, verdict>>
  BY DEF Records
<1>2. /\ ledger \in Seq(LedgerRow) /\ Len(ledger) \in Nat /\ at \in [Lanes -> Nat]
  BY DEF SessionInv, SessionTypeOK
<1>3. /\ ~IsLive' /\ Recorded' = [provider |-> slots, memory |-> operations, head |-> ledger, read |-> value]
  BY <1>1 DEF IsLive, Recorded
<1>4. /\ RunRows = ledger /\ RunSlots = slots /\ RunOperations = operations
      /\ RunRows' = ledger /\ RunSlots' = slots /\ RunOperations' = operations
  BY <1>1, <1>3 DEF RunRows, RunSlots, RunOperations
<1>5. /\ \A l \in Lanes : ~Busy(l) /\ asking[l] = 0 /\ lane[l].stage = "idle" /\ tool[l].at = "none"
      /\ \A l \in Lanes : Reached(l) = Len(Steps(l)) /\ Reached(l)' = Len(Steps(l))
      /\ \A l \in Lanes : at'[l] = 0 /\ asking'[l] = 0
  <2>1. \A l \in Lanes : IsDone(l)
    BY <1>1 DEF AllDone
  <2>2. \A l \in Lanes : ~Busy(l)
    BY <2>1 DEF Busy, SessionInv, WaitsInStep, ToolInv
  <2> QED BY <1>1, <1>3, <2>1, <2>2 DEF Busy, InMemory, Reached, IsDone, Steps, AtStart
<1>6. ASSUME NEW i \in 1..Len(ledger)
      PROVE  /\ ledger[i].lane \in Lanes /\ ledger[i].step \in Nat
             /\ ledger[i].step < Len(Steps(ledger[i].lane))
  <2>1. ledger[i].lane \in Lanes /\ ledger[i].step \in Nat
    BY <1>2, RowTypes
  <2> QED BY <1>4, <1>5, <2>1 DEF RunInv, RowsReached, WaitsFor
<1>7. OneBehindTheOther' /\ RowsReached' /\ LastIsAnswered'
  <2>1. OneBehindTheOther'
    BY <1>1, <1>3, <1>5 DEF OneBehindTheOther, Busy, InMemory
  <2>2. RowsReached'
    BY <1>4, <1>5, <1>6 DEF RowsReached
  <2>3. LastIsAnswered'
    BY <1>4, <1>5, <1>6 DEF RunInv, LastIsAnswered
  <2> QED BY <2>1, <2>2, <2>3
<1>8. RowsInOrder' /\ RowsFitSteps' /\ RowsSayWhatIsRead'
  BY <1>1, <1>4 DEF RunInv, RowsInOrder, RowsFitSteps, RowsSayWhatIsRead, Steps
<1>9. StepsHaveRows'
  BY <1>1, <1>4, <1>5 DEF RunInv, StepsHaveRows, RowOf, Steps
<1>10. SlotsAreRows'
  BY <1>4 DEF RunInv, SlotsAreRows, RowOf
<1>11. OperationsAreRows'
  <2>1. \A i : ~Unfinished(i) /\ ~Unfinished(i)'
    BY <1>3, <1>5 DEF Unfinished
  <2>2. \A i : Journalled(i)' = Journalled(i)
    BY <1>4 DEF Journalled
  <2> QED BY <1>4, <2>1, <2>2 DEF RunInv, OperationsAreRows
<1>12. BehindItsRow' /\ NothingTaken' /\ NotRefused'
  BY <1>1, <1>3 DEF RunInv, BehindItsRow, NothingTaken, NotRefused
<1>13. ReplayIsPrefix'
  <2>1. taken' = 0 /\ cursor' = 0 /\ Len(ledger') = 0
    BY <1>1 DEF RunInv, NothingTaken
  <2>2. Sent(ledger, 0) = 0 /\ Stored(ledger, 0) = 0
    BY CountTypes DEF Sent, Stored
  <2>3. \A i \in 1..Len(ledger) :
          i <= 0 <=> \/ ledger[i].step < at'[ledger[i].lane]
                     \/ /\ ledger[i].step = at'[ledger[i].lane]
                        /\ WaitsFor(RunRows[i].lane, RunRows[i].etype)'
    BY <1>1, <1>2, <1>4, <1>5, <1>6 DEF WaitsFor
  <2> QED BY <1>2, <1>4, <1>5, <2>1, <2>2, <2>3 DEF ReplayIsPrefix
<1> QED BY <1>7, <1>8, <1>9, <1>10, <1>11, <1>12, <1>13 DEF RunInv

\* A step of the replay leaves the recording; it has only to keep its own place.
LEMMA ReplayFrame ==
  ASSUME SessionInv, RunInv, ~IsLive,
         UNCHANGED <<artifact, program>>,
         OneBehindTheOther', ReplayIsPrefix', NotRefused'
  PROVE  RunInv'
<1>1. /\ ~IsLive' /\ Recorded' = Recorded
      /\ RunRows' = RunRows /\ RunSlots' = RunSlots /\ RunOperations' = RunOperations
      /\ \A l : Reached(l) = Len(Steps(l)) /\ Reached(l)' = Len(Steps(l))
      /\ \A i : ~Unfinished(i) /\ ~Unfinished(i)' /\ Journalled(i)' = Journalled(i)
  BY DEF IsLive, Recorded, RunRows, RunSlots, RunOperations, Reached, Unfinished, Journalled, Steps
<1>2. RowsInOrder' /\ RowsReached' /\ RowsFitSteps'
  BY <1>1 DEF RunInv, RowsInOrder, RowsReached, RowsFitSteps, Steps
<1>3. LastIsAnswered' /\ StepsHaveRows' /\ RowsSayWhatIsRead'
  <2>1. LastIsAnswered' /\ RowsSayWhatIsRead'
    BY <1>1 DEF RunInv, LastIsAnswered, RowsSayWhatIsRead
  <2>2. StepsHaveRows'
    <3>1. \A l \in Lanes : Steps(l)' = Steps(l) /\ Reached(l)' = Reached(l)
      BY <1>1 DEF Steps
    <3>2. \A i, l, k, e : RowOf(i, l, k, e)' = RowOf(i, l, k, e)
      BY <1>1 DEF RowOf
    <3> QED BY <1>1, <3>1, <3>2 DEF RunInv, StepsHaveRows
  <2> QED BY <2>1, <2>2
<1>4. SlotsAreRows' /\ OperationsAreRows'
  BY <1>1 DEF RunInv, SlotsAreRows, OperationsAreRows, RowOf
<1>5. BehindItsRow' /\ NothingTaken'
  BY <1>1 DEF BehindItsRow, NothingTaken
<1> QED BY <1>2, <1>3, <1>4, <1>5 DEF RunInv

\* The next row of the recording is the one the lane's step has.
LEMMA NextRow ==
  ASSUME SessionInv, ToolInv, RunInv, ~IsLive, verdict # "failed",
         NEW l \in Lanes, Turn(l), asking[l] = 0, tool[l].at = "none"
  PROVE  /\ \A m \in Lanes : asking[m] = 0 /\ tool[m].at = "none"
         /\ \A i \in 1..Len(RunRows) : i <= Len(ledger) <=> RunRows[i].step < at[RunRows[i].lane]
         /\ \A i \in 1..Len(RunRows) :
              RunRows[i].lane = l /\ RunRows[i].step = at[l] /\ RunRows[i].etype \notin Results =>
                i = Len(ledger) + 1
<1> DEFINE n == Len(ledger)
<1>1. /\ RunRows \in Seq(LedgerRow) /\ n \in Nat /\ \A m \in Lanes : at[m] \in Nat
      /\ Len(RunRows) \in Nat /\ \A m \in Lanes : m \in Nat
  <2>1. SessionTypeOK
    BY DEF SessionInv
  <2>2. RunRows \in Seq(LedgerRow)
    BY <2>1, RunTypes
  <2>3. ledger \in Seq(LedgerRow) /\ at \in [Lanes -> Nat]
    BY <2>1 DEF SessionTypeOK
  <2> QED BY <2>2, <2>3, LanesAssumption
<1>2. /\ \A m \in Lanes : asking[m] = 0 /\ tool[m].at = "none"
      /\ \A m \in Lanes : m < l => at[m] = Len(Steps(m))
  <2>1. \A m \in Lanes : m # l => ~Busy(m)
    BY TurnIsAlone DEF RunInv
  <2> QED BY <2>1, TurnIsAlone DEF RunInv, Busy
<1>3. \A i \in 1..Len(RunRows) : RunRows[i].lane \in Lanes /\ RunRows[i].step \in Nat
  BY <1>1, RowTypes
<1>4. \A i \in 1..Len(RunRows) : i <= n <=> RunRows[i].step < at[RunRows[i].lane]
  BY <1>2, <1>3 DEF RunInv, ReplayIsPrefix, WaitsFor
<1>5. ASSUME NEW i \in 1..Len(RunRows), RunRows[i].lane = l, RunRows[i].step = at[l],
             RunRows[i].etype \notin Results
      PROVE  i = n + 1
  <2>1. ~(i <= n)
    BY <1>1, <1>4, <1>5
  <2>2. ASSUME i # n + 1 PROVE FALSE
    <3>1. n + 1 \in 1..Len(RunRows) /\ n + 1 < i
      BY <1>1, <2>1, <2>2
    <3>2. Precedes(RunRows[n + 1], RunRows[i])
      BY <3>1 DEF RunInv, RowsInOrder
    <3>3. ~(RunRows[n + 1].step < at[RunRows[n + 1].lane])
      BY <1>1, <1>4, <3>1
    <3>4. RunRows[n + 1].step < Len(Steps(RunRows[n + 1].lane))
      BY <3>1 DEF RunInv, RowsReached, Reached
    <3>5. RunRows[n + 1].lane \in Lanes /\ RunRows[n + 1].step \in Nat
      BY <1>3, <3>1
    <3>6. ~(RunRows[n + 1].lane < l)
      BY <1>2, <3>3, <3>4, <3>5
    <3> QED BY <1>1, <1>5, <3>2, <3>3, <3>5, <3>6 DEF Precedes
  <2> QED BY <2>2
<1> QED BY <1>2, <1>4, <1>5

\* Behind the next row the replay has one row more of the recording.
LEMMA ReplayPrefixGrows ==
  ASSUME SessionInv, RunInv, ~IsLive, verdict # "failed", Len(ledger) < Len(RunRows),
         ledger' = Append(ledger, RunRows[Len(ledger) + 1])
  PROVE  /\ Len(ledger) \in Nat /\ Len(RunRows) \in Nat /\ Len(ledger') = Len(ledger) + 1
         /\ \A i \in 1..Len(ledger') : ledger'[i] = RunRows[i]
         /\ Sent(RunRows, Len(ledger) + 1) =
              IF RunRows[Len(ledger) + 1].etype = "Sent" THEN taken + 1 ELSE taken
         /\ Stored(RunRows, Len(ledger) + 1) =
              IF RunRows[Len(ledger) + 1].etype \in {"store", "recall"} THEN cursor + 1 ELSE cursor
         /\ RunRows[Len(ledger) + 1] \in LedgerRow
<1> DEFINE n == Len(ledger)
           r == RunRows[n + 1]
<1>1. RunRows \in Seq(LedgerRow) /\ ledger \in Seq(LedgerRow) /\ n \in Nat /\ Len(RunRows) \in Nat
  BY RunTypes DEF SessionInv, SessionTypeOK
<1>2. n + 1 \in 1..Len(RunRows)
  BY <1>1
<1>3. r \in LedgerRow
  BY <1>1, <1>2, RowTypes
<1>4. /\ \A i \in 1..n : ledger[i] = RunRows[i]
      /\ taken = Sent(RunRows, n) /\ cursor = Stored(RunRows, n)
  BY DEF RunInv, ReplayIsPrefix
<1>5. /\ Count(RunRows, n + 1, {"Sent"}) =
           IF r.etype \in {"Sent"} THEN Count(RunRows, n, {"Sent"}) + 1
           ELSE Count(RunRows, n, {"Sent"})
      /\ Count(RunRows, n + 1, {"store", "recall"}) =
           IF r.etype \in {"store", "recall"} THEN Count(RunRows, n, {"store", "recall"}) + 1
           ELSE Count(RunRows, n, {"store", "recall"})
  <2>1. n \in Nat
    BY <1>1
  <2>2. PICK m : m = n
    OBVIOUS
  <2>3. m \in Nat
    BY <2>1, <2>2
  <2>4. \A K : Count(RunRows, m + 1, K) =
                 IF RunRows[m + 1].etype \in K THEN Count(RunRows, m, K) + 1
                 ELSE Count(RunRows, m, K)
    BY <2>3, CountStep
  <2> QED BY <2>2, <2>4
<1> HIDE DEF r
<1>6. Len(ledger') = n + 1 /\ \A i \in 1..n : ledger'[i] = ledger[i]
  BY <1>1, <1>3 DEF r
<1>7. ledger'[n + 1] = r
  BY <1>1, <1>3 DEF r
<1>8. \A i \in 1..(n + 1) : ledger'[i] = RunRows[i]
  BY <1>1, <1>4, <1>6, <1>7 DEF r
<1> QED BY <1>1, <1>3, <1>4, <1>5, <1>6, <1>8 DEF r, Sent, Stored

\* A lane of the replay is through its step: it has the rows of it.
LEMMA ReplayAdvances ==
  ASSUME SessionInv, ToolInv, RunInv, ~IsLive, verdict # "failed", NEW l \in Lanes, Turn(l),
         UNCHANGED <<artifact, program>>, verdict' # "refused",
         tool'[l].at = "none", \A m \in Lanes : m # l => tool'[m] = tool[m],
         at' = [at EXCEPT ![l] = at[l] + 1],
         asking' = [asking EXCEPT ![l] = 0],
         NEW k \in Nat, k = Len(ledger'), Len(ledger) <= k, k <= Len(RunRows),
         \A i \in 1..k : ledger'[i] = RunRows[i],
         \A i \in 1..Len(RunRows) : i \in (Len(ledger) + 1)..k => RunRows[i].lane = l /\ RunRows[i].step = at[l],
         \A i \in 1..Len(RunRows) : RunRows[i].lane = l /\ RunRows[i].step = at[l] => i <= k,
         taken' = Sent(RunRows, k), cursor' = Stored(RunRows, k)
  PROVE  RunInv'
<1> DEFINE n == Len(ledger)
<1>1. /\ RunRows \in Seq(LedgerRow) /\ n \in Nat /\ at \in [Lanes -> Nat]
      /\ Len(RunRows) \in Nat /\ \A m \in Lanes : m \in Nat /\ asking \in [Lanes -> Nat]
  <2>1. SessionTypeOK
    BY DEF SessionInv
  <2>2. RunRows \in Seq(LedgerRow)
    BY <2>1, RunTypes
  <2>3. ledger \in Seq(LedgerRow) /\ at \in [Lanes -> Nat] /\ asking \in [Lanes -> Nat]
    BY <2>1 DEF SessionTypeOK
  <2>4. Len(RunRows) \in Nat /\ n \in Nat
    BY <2>2, <2>3
  <2>5. \A m \in Lanes : m \in Nat
    BY LanesAssumption
  <2> QED BY <2>2, <2>3, <2>4, <2>5
<1>2. /\ ~IsLive' /\ RunRows' = RunRows /\ RunSlots' = RunSlots
      /\ \A m \in Lanes : m # l => at'[m] = at[m]
      /\ at'[l] = at[l] + 1
      /\ \A m \in Lanes : m # l => asking[m] = 0 /\ tool[m].at = "none"
      /\ \A m \in Lanes : asking'[m] = 0 /\ tool'[m].at = "none"
  <2>1. ~IsLive' /\ RunRows' = RunRows /\ RunSlots' = RunSlots
    BY DEF IsLive, RunRows, RunSlots, Recorded
  <2>2. \A m \in Lanes : m # l => ~Busy(m)
    BY TurnIsAlone DEF RunInv
  <2> QED BY <1>1, <2>1, <2>2 DEF Busy
<1>3. ASSUME NEW i \in 1..Len(RunRows)
      PROVE  i <= k <=> RunRows[i].step < at'[RunRows[i].lane]
  <2>1. RunRows[i].lane \in Lanes /\ RunRows[i].step \in Nat
    BY <1>1, RowTypes
  <2>2. i <= n <=> \/ RunRows[i].step < at[RunRows[i].lane]
                   \/ /\ RunRows[i].step = at[RunRows[i].lane]
                      /\ WaitsFor(RunRows[i].lane, RunRows[i].etype)
    BY DEF RunInv, ReplayIsPrefix
  <2>3. i \in (n + 1)..k => RunRows[i].lane = l /\ RunRows[i].step = at[l]
    OBVIOUS
  <2>4. CASE RunRows[i].lane = l
    BY <1>1, <1>2, <2>1, <2>2, <2>3, <2>4
  <2>5. CASE RunRows[i].lane # l
    <3>1. ~WaitsFor(RunRows[i].lane, RunRows[i].etype) /\ at'[RunRows[i].lane] = at[RunRows[i].lane]
      BY <1>2, <2>1, <2>5 DEF WaitsFor
    <3>2. i <= n <=> RunRows[i].step < at'[RunRows[i].lane]
      BY <2>2, <3>1
    <3>3. i \notin (n + 1)..k
      BY <2>3, <2>5
    <3>4. i <= n <=> i <= k
      BY <1>1, <3>3
    <3> QED BY <3>2, <3>4
  <2> QED BY <2>4, <2>5
<1>4. ReplayIsPrefix'
  <2>1. \A i \in 1..Len(RunRows) :
          i <= k <=> \/ RunRows[i].step < at'[RunRows[i].lane]
                     \/ /\ RunRows[i].step = at'[RunRows[i].lane]
                        /\ WaitsFor(RunRows[i].lane, RunRows[i].etype)'
    <3>1. \A i \in 1..Len(RunRows) : RunRows[i].lane \in Lanes
      BY <1>1, RowTypes
    <3> QED BY <1>2, <1>3, <3>1 DEF WaitsFor
  <2> QED BY <1>2, <2>1 DEF ReplayIsPrefix
<1>5. OneBehindTheOther'
  <2>1. \A m \in Lanes : ~Busy(m)'
    BY <1>2 DEF Busy, InMemory
  <2>2. \A m \in Lanes : m # l => IsDone(m)' = IsDone(m)
    BY <1>2 DEF IsDone, Steps
  <2>3. \A m \in Lanes : m \in Nat /\ at[m] \in Nat
    BY <1>1
  <2> QED BY <1>2, <2>1, <2>2, <2>3 DEF RunInv, OneBehindTheOther, Turn
<1> QED BY <1>4, <1>5, ReplayFrame DEF NotRefused

\* A question of the replay is the next one of the recording.
LEMMA ReplayAsksKeepsRun ==
  ASSUME RuntimeInv, SessionInv, ToolInv, ~program.overlap, RunInv, NEW l \in Lanes, ReplayAsks(l),
         UNCHANGED <<memoryRest, program, tool, slots, errors, artifact>>
  PROVE  RunInv'
<1> DEFINE n == Len(ledger)
           r == RunRows[n + 1]
<1>1. /\ ~IsLive /\ Turn(l) /\ Step(l) = "reply" /\ asking[l] = 0 /\ verdict = "none"
      /\ tool[l].at = "none"
  BY DEF ReplayAsks, Resumes, CanGo, MayRun, Free, Turn
<1>2. /\ RunRows \in Seq(LedgerRow) /\ RunRows = Recorded.head /\ RunSlots = Recorded.provider
      /\ Len(RunRows) \in Nat /\ Len(RunSlots) \in Nat
  BY <1>1, RunTypes DEF SessionInv, RunRows, RunSlots
<1>3. /\ at \in [Lanes -> Nat] /\ asking \in [Lanes -> Nat] /\ value \in [Lanes -> Readable]
      /\ ledger \in Seq(LedgerRow) /\ n \in Nat /\ taken \in Nat
  BY DEF SessionInv, SessionTypeOK
<1>4. /\ \A m \in Lanes : asking[m] = 0 /\ tool[m].at = "none"
      /\ \A i \in 1..Len(RunRows) : i <= n <=> RunRows[i].step < at[RunRows[i].lane]
      /\ \A i \in 1..Len(RunRows) :
           RunRows[i].lane = l /\ RunRows[i].step = at[l] /\ RunRows[i].etype \notin Results =>
             i = n + 1
  BY <1>1, NextRow
<1>5. n + 1 \in 1..(Len(RunRows) - 1) /\ r.lane = l /\ r.step = at[l] /\ r.etype = "Sent"
  <2>1. at[l] \in 0..(Reached(l) - 1) /\ Steps(l)[at[l] + 1] = "reply"
    BY <1>1, ProgramTypes DEF SessionInv, Turn, Reached, Step
  <2>2. PICK i \in 1..(Len(RunRows) - 1) : RowOf(i, l, at[l], "Sent")
    BY <2>1 DEF RunInv, StepsHaveRows
  <2>3. i \in 1..Len(RunRows)
    BY <1>2
  <2>4. i = n + 1
    BY <1>4, <2>2, <2>3 DEF RowOf, Results
  <2> QED BY <2>2, <2>4 DEF RowOf
<1>6. r.val = value[l] /\ r \in LedgerRow
  <2>1. n + 1 \in 1..Len(RunRows) /\ (n + 1) - 1 = n
    BY <1>2, <1>3, <1>5
  <2>2. ReadBehind(RunRows, n, l, r.val)
    BY <1>5, <2>1 DEF RunInv, RowsSayWhatIsRead
  <2>3. ReadBehind(ledger, n, l, value[l])
    BY DEF SessionInv, ValuesAreRows
  <2>4. \A i \in 1..n : ledger[i] = RunRows[i]
    BY <1>1 DEF RunInv, ReplayIsPrefix
  <2>5. ReadBehind(RunRows, n, l, value[l])
    BY <1>3, <2>3, <2>4, ReadBehindPrefix
  <2>6. r.val = value[l]
    BY <1>3, <2>2, <2>5, ReadBehindUnique
  <2> QED BY <1>2, <2>1, <2>6, RowTypes
<1>7. Row("Sent", l, value[l]) = r
  BY <1>5, <1>6 DEF Row, LedgerRow
<1>8. taken + 1 \in 1..Len(RunSlots) /\ taken + 1 = Sent(RunRows, n + 1)
      /\ cursor = Stored(RunRows, n + 1)
      /\ RunSlots[taken + 1].question = Question(l)
  <2>1. taken = Count(RunRows, n, {"Sent"}) /\ cursor = Count(RunRows, n, {"store", "recall"})
    BY <1>1 DEF RunInv, ReplayIsPrefix, Sent, Stored
  <2>2. /\ Count(RunRows, n + 1, {"Sent"}) = Count(RunRows, n, {"Sent"}) + 1
        /\ Count(RunRows, n + 1, {"store", "recall"}) = Count(RunRows, n, {"store", "recall"})
    <3>1. RunRows[n + 1].etype \in {"Sent"} /\ RunRows[n + 1].etype \notin {"store", "recall"}
      BY <1>5
    <3>2. n \in Nat
      BY <1>3
    <3>3. /\ Count(RunRows, n + 1, {"Sent"}) =
               IF RunRows[n + 1].etype \in {"Sent"} THEN Count(RunRows, n, {"Sent"}) + 1
               ELSE Count(RunRows, n, {"Sent"})
          /\ Count(RunRows, n + 1, {"store", "recall"}) =
               IF RunRows[n + 1].etype \in {"store", "recall"}
               THEN Count(RunRows, n, {"store", "recall"}) + 1
               ELSE Count(RunRows, n, {"store", "recall"})
      BY <3>2, CountStep
    <3> QED BY <3>1, <3>3
  <2>3. n + 1 \in 1..Len(RunRows) /\ r.etype \in {"Sent"}
    BY <1>2, <1>5
  <2>4. /\ Count(RunRows, n + 1, {"Sent"}) \in 1..Count(RunRows, Len(RunRows), {"Sent"})
    BY <1>2, <2>3, CountIndex
  <2>5. Len(RunSlots) = Count(RunRows, Len(RunRows), {"Sent"})
    BY DEF RunInv, SlotsAreRows, Sent
  <2>6. taken + 1 = Sent(RunRows, n + 1) /\ cursor = Stored(RunRows, n + 1)
    BY <2>1, <2>2 DEF Sent, Stored
  <2>7. RunSlots[Sent(RunRows, n + 1)].question = [step |-> r.step, about |-> r.val]
    BY <2>3 DEF RunInv, SlotsAreRows
  <2> QED BY <1>5, <1>6, <2>1, <2>2, <2>4, <2>5, <2>6, <2>7 DEF Question
<1>9. /\ taken' = taken + 1 /\ asking' = [asking EXCEPT ![l] = taken + 1]
      /\ ledger' = Append(ledger, r)
      /\ UNCHANGED <<at, value, cursor, verdict>>
  <2>1. taken < Len(RunSlots)
    BY <1>2, <1>3, <1>8
  <2> QED BY <1>2, <1>7, <1>8, <2>1 DEF ReplayAsks
<1>10. /\ Len(ledger') = n + 1
       /\ \A i \in 1..(n + 1) : ledger'[i] = RunRows[i]
  <2>1. n < Len(RunRows)
    BY <1>2, <1>3, <1>5
  <2> QED BY <1>1, <1>9, <2>1, ReplayPrefixGrows
<1>11. /\ ~IsLive' /\ RunRows' = RunRows
       /\ asking'[l] = taken + 1 /\ taken + 1 # 0
       /\ \A m \in Lanes : m # l => asking'[m] = 0
  BY <1>1, <1>3, <1>4, <1>9 DEF IsLive, RunRows, Recorded
<1>12. ReplayIsPrefix'
  <2>1. ASSUME NEW i \in 1..Len(RunRows)
        PROVE  i <= n + 1 <=> \/ RunRows[i].step < at[RunRows[i].lane]
                              \/ /\ RunRows[i].step = at[RunRows[i].lane]
                                 /\ WaitsFor(RunRows[i].lane, RunRows[i].etype)'
    <3>1. RunRows[i].lane \in Lanes
      BY <1>2, RowTypes
    <3>2. i <= n <=> RunRows[i].step < at[RunRows[i].lane]
      BY <1>4
    <3>3. CASE i = n + 1
      BY <1>5, <1>11, <3>3 DEF WaitsFor
    <3>4. CASE i # n + 1
      <4>1. i <= n + 1 <=> i <= n
        BY <1>3, <3>4
      <4>2. ~(/\ RunRows[i].step = at[RunRows[i].lane]
              /\ WaitsFor(RunRows[i].lane, RunRows[i].etype)')
        BY <1>4, <1>11, <3>1, <3>4 DEF WaitsFor, Results
      <4> QED BY <3>2, <4>1, <4>2
    <3> QED BY <3>3, <3>4
  <2>2. n + 1 <= Len(RunRows) /\ n + 1 > 0
    BY <1>2, <1>3, <1>5
  <2>3. \A m \in Lanes : asking'[m] # 0 => m = l
    BY <1>11
  <2> QED BY <1>5, <1>8, <1>9, <1>10, <1>11, <2>1, <2>2, <2>3 DEF ReplayIsPrefix, RowOf
<1>13. OneBehindTheOther'
  <2>1. \A m \in Lanes : Busy(m)' => m = l
    BY <1>4, <1>11 DEF Busy, InMemory
  <2>2. \A m \in Lanes : IsDone(m)' = IsDone(m)
    BY <1>9 DEF IsDone, Steps
  <2> QED BY <1>1, <1>9, <2>1, <2>2 DEF RunInv, OneBehindTheOther, Turn
<1> QED BY <1>1, <1>9, <1>12, <1>13, ReplayFrame DEF NotRefused

\* The answer the replay applies is the row behind its question.
LEMMA ReplayAnsweredKeepsRun ==
  ASSUME RuntimeInv, SessionInv, ToolInv, ~program.overlap, RunInv, NEW l \in Lanes, ReplayAnswered(l),
         UNCHANGED <<memoryRest, program, tool, slots, errors, artifact>>
  PROVE  RunInv'
<1> DEFINE n == Len(ledger)
           r == RunRows[n + 1]
<1>1. /\ ~IsLive /\ Turn(l) /\ asking[l] # 0 /\ verdict = "none"
      /\ ledger' = Append(ledger, Row("Resolved", l, Recorded.provider[asking[l]].answer))
      /\ asking' = [asking EXCEPT ![l] = 0] /\ at' = [at EXCEPT ![l] = at[l] + 1]
      /\ UNCHANGED <<taken, cursor, verdict>>
  BY DEF ReplayAnswered, Applied, Moves, Resumes, CanGo, MayRun, Turn
<1>0. tool[l].at = "none" /\ tool' = tool
  <2>1. Step(l) = "reply"
    BY <1>1 DEF SessionInv, WaitsInStep
  <2> QED BY <2>1 DEF ToolInv
<1>2. /\ RunRows \in Seq(LedgerRow) /\ RunSlots = Recorded.provider /\ Len(RunRows) \in Nat
  BY <1>1, RunTypes DEF SessionInv, RunSlots
<1>3. ledger \in Seq(LedgerRow) /\ n \in Nat
  BY DEF SessionInv, SessionTypeOK
<1>4. /\ n <= Len(RunRows) /\ n > 0 /\ asking[l] = Sent(RunRows, n)
      /\ RunRows[n].lane = l /\ RunRows[n].step = at[l] /\ RunRows[n].etype = "Sent"
  BY <1>1 DEF RunInv, ReplayIsPrefix, RowOf
<1>5. n < Len(RunRows) /\ n \in 1..Len(RunRows) /\ n + 1 \in 1..Len(RunRows)
  <2>1. n \in 1..Len(RunRows)
    BY <1>2, <1>3, <1>4
  <2>2. n # Len(RunRows)
    BY <1>1, <1>4, <2>1 DEF RunInv, LastIsAnswered
  <2> QED BY <1>2, <1>3, <1>4, <2>1, <2>2
<1>6. /\ r.lane = l /\ r.step = at[l] /\ r.etype = "Resolved"
      /\ r.val = RunSlots[asking[l]].answer
  BY <1>4, <1>5 DEF RunInv, SlotsAreRows, RowOf
<1>7. Row("Resolved", l, Recorded.provider[asking[l]].answer) = r
  <2>1. r \in LedgerRow
    BY <1>2, <1>5, RowTypes
  <2> QED BY <1>2, <1>6, <2>1 DEF Row, LedgerRow
<1>8. /\ Len(ledger') = n + 1
      /\ \A i \in 1..(n + 1) : ledger'[i] = RunRows[i]
      /\ taken = Sent(RunRows, n + 1) /\ cursor = Stored(RunRows, n + 1)
  BY <1>1, <1>5, <1>6, <1>7, ReplayPrefixGrows
<1>9. ASSUME NEW i \in 1..Len(RunRows), RunRows[i].lane = l, RunRows[i].step = at[l], ~(i <= n + 1)
      PROVE  FALSE
  <2>1. Precedes(RunRows[n + 1], RunRows[i])
    BY <1>3, <1>5, <1>9 DEF RunInv, RowsInOrder
  <2>2. RunRows[i].lane \in Nat /\ RunRows[i].step \in Nat
    BY <1>2, <1>9, RowTypes, LanesAssumption
  <2> QED BY <1>6, <1>9, <2>1, <2>2 DEF Precedes, Calls
<1>10. \A i \in 1..Len(RunRows) : i \in (n + 1)..(n + 1) => RunRows[i].lane = l /\ RunRows[i].step = at[l]
  BY <1>3, <1>6
<1>11. n + 1 \in Nat /\ n <= n + 1 /\ n + 1 <= Len(RunRows)
  BY <1>2, <1>3, <1>5
<1> QED BY <1>0, <1>1, <1>8, <1>9, <1>10, <1>11, ReplayAdvances

\* The memory operation of a replay is the one of the next row.
LEMMA ReplayMemoryKeepsRun ==
  ASSUME RuntimeInv, SessionInv, ToolInv, ~program.overlap, RunInv, NEW l \in Lanes, ReplayMemory(l),
         UNCHANGED <<memoryRest, program, tool, slots, errors, artifact>>
  PROVE  RunInv'
<1> DEFINE n == Len(ledger)
           r == RunRows[n + 1]
           op == Recorded.memory[cursor + 1]
<1>1. /\ ~IsLive /\ Turn(l) /\ Step(l) \notin {"reply", "validate", "tool"} /\ verdict = "none"
  BY DEF ReplayMemory, Resumes, CanGo, MayRun, Turn
<1>2. /\ RunRows \in Seq(LedgerRow) /\ RunOperations = Recorded.memory /\ Len(RunRows) \in Nat
  BY <1>1, RunTypes DEF SessionInv, RunOperations
<1>3. /\ ledger \in Seq(LedgerRow) /\ n \in Nat /\ at \in [Lanes -> Nat] /\ asking \in [Lanes -> Nat]
      /\ cursor \in Nat
  BY DEF SessionInv, SessionTypeOK
<1>4. asking[l] = 0 /\ tool[l].at = "none" /\ Step(l) \in {"store", "recall"}
  BY <1>1, ProgramTypes DEF SessionInv, WaitsInStep, ToolInv, StepKinds, Turn
<1>5. /\ \A i \in 1..Len(RunRows) : i <= n <=> RunRows[i].step < at[RunRows[i].lane]
      /\ \A i \in 1..Len(RunRows) :
           RunRows[i].lane = l /\ RunRows[i].step = at[l] /\ RunRows[i].etype \notin Results =>
             i = n + 1
  BY <1>1, <1>4, NextRow
<1>6. n + 1 \in 1..Len(RunRows) /\ r.lane = l /\ r.step = at[l] /\ r.etype = Step(l)
  <2>1. at[l] \in 0..(Reached(l) - 1) /\ Steps(l)[at[l] + 1] = Step(l)
    BY <1>1, ProgramTypes DEF SessionInv, Turn, Reached, Step
  <2>2. PICK i \in 1..Len(RunRows) : RowOf(i, l, at[l], Step(l))
    BY <1>4, <2>1 DEF RunInv, StepsHaveRows
  <2>3. i = n + 1
    BY <1>4, <1>5, <2>2 DEF RowOf, Results
  <2> QED BY <2>2, <2>3 DEF RowOf
<1>7. r.etype = "store" => r.val = value[l]
  <2> SUFFICES ASSUME r.etype = "store" PROVE r.val = value[l]
    OBVIOUS
  <2>1. (n + 1) - 1 = n
    BY <1>3
  <2>2. ReadBehind(RunRows, n, l, r.val)
    BY <1>6, <2>1 DEF RunInv, RowsSayWhatIsRead
  <2>3. ReadBehind(ledger, n, l, value[l])
    BY DEF SessionInv, ValuesAreRows
  <2>4. \A i \in 1..n : ledger[i] = RunRows[i]
    BY <1>1 DEF RunInv, ReplayIsPrefix
  <2>5. ReadBehind(RunRows, n, l, value[l])
    BY <1>3, <2>3, <2>4, ReadBehindPrefix
  <2> QED BY <1>3, <2>2, <2>5, ReadBehindUnique
<1>8. op = Journalled(n + 1) /\ cursor < Len(Recorded.memory)
  <2>1. cursor = Count(RunRows, n, {"store", "recall"})
    BY <1>1 DEF RunInv, ReplayIsPrefix, Stored
  <2>2. Count(RunRows, n + 1, {"store", "recall"}) = Count(RunRows, n, {"store", "recall"}) + 1
    BY <1>3, <1>4, <1>6, CountStep
  <2>3. cursor + 1 = Stored(RunRows, n + 1)
    BY <2>1, <2>2 DEF Stored
  <2>4. \A i : ~Unfinished(i)
    BY <1>1 DEF Unfinished
  <2>5. RunOperations[Stored(RunRows, n + 1)] = Journalled(n + 1)
    BY <1>4, <1>6, <2>4 DEF RunInv, OperationsAreRows
  <2>6. Len(RunOperations) = Count(RunRows, Len(RunRows), {"store", "recall"})
    BY <2>4 DEF RunInv, OperationsAreRows, Stored
  <2>7. Count(RunRows, n + 1, {"store", "recall"}) \in 1..Count(RunRows, Len(RunRows), {"store", "recall"})
    BY <1>2, <1>4, <1>6, CountIndex
  <2> QED BY <1>2, <1>3, <2>3, <2>5, <2>6, <2>7 DEF Stored
<1>9. /\ op.request = Request(l, Given(l)) /\ op.row = r /\ op.tick = n
      /\ op.head = SubSeq(RunRows, 1, n + 1)
  <2>1. op.request = [kind |-> r.etype, lane |-> r.lane, step |-> r.step,
                      val |-> IF r.etype = "recall" THEN None ELSE r.val]
        /\ op.row = r /\ op.tick = (n + 1) - 1 /\ op.head = SubSeq(RunRows, 1, n + 1)
    BY <1>8 DEF Journalled
  <2>2. (n + 1) - 1 = n
    BY <1>3
  <2>3. Given(l) = IF r.etype = "recall" THEN None ELSE r.val
    BY <1>4, <1>6, <1>7 DEF Given
  <2> QED BY <1>6, <2>1, <2>2, <2>3 DEF Request
<1>10. Append(ledger, r) = SubSeq(RunRows, 1, n + 1)
  <2>1. \A i \in 1..n : ledger[i] = RunRows[i]
    BY <1>1 DEF RunInv, ReplayIsPrefix
  <2>2. r \in LedgerRow
    BY <1>2, <1>6, RowTypes
  <2> HIDE DEF r
  <2>3. /\ Append(ledger, r) \in Seq(LedgerRow) /\ Len(Append(ledger, r)) = n + 1
        /\ Append(ledger, r)[n + 1] = r
        /\ \A i \in 1..n : Append(ledger, r)[i] = ledger[i]
    BY <1>3, <2>2
  <2>4. /\ SubSeq(RunRows, 1, n + 1) \in Seq(LedgerRow) /\ Len(SubSeq(RunRows, 1, n + 1)) = n + 1
        /\ \A i \in 1..(n + 1) : SubSeq(RunRows, 1, n + 1)[i] = RunRows[i]
    BY <1>2, <1>3, <1>6
  <2>5. \A i \in 1..(n + 1) : Append(ledger, r)[i] = RunRows[i]
    BY <1>3, <2>1, <2>3 DEF r
  <2> QED BY <2>3, <2>4, <2>5, SeqEqual
<1>11. /\ cursor' = cursor + 1 /\ ledger' = Append(ledger, r)
       /\ at' = [at EXCEPT ![l] = at[l] + 1] /\ UNCHANGED <<asking, taken, verdict>>
  <2>1. Appends(op)
    BY <1>9, <1>10 DEF Appends
  <2> QED BY <1>8, <1>9, <2>1 DEF ReplayMemory, Moves
<1>12. /\ Len(ledger') = n + 1
       /\ \A i \in 1..(n + 1) : ledger'[i] = RunRows[i]
       /\ taken' = Sent(RunRows, n + 1) /\ cursor' = Stored(RunRows, n + 1)
  <2>1. n < Len(RunRows)
    BY <1>2, <1>3, <1>6
  <2> QED BY <1>1, <1>4, <1>6, <1>11, <2>1, ReplayPrefixGrows
<1>13. ASSUME NEW i \in 1..Len(RunRows), RunRows[i].lane = l, RunRows[i].step = at[l], ~(i <= n + 1)
       PROVE  FALSE
  <2>1. Precedes(RunRows[n + 1], RunRows[i])
    BY <1>3, <1>6, <1>13 DEF RunInv, RowsInOrder
  <2>2. RunRows[i].lane \in Nat /\ RunRows[i].step \in Nat
    BY <1>2, <1>13, RowTypes, LanesAssumption
  <2> QED BY <1>4, <1>6, <1>13, <2>1, <2>2 DEF Precedes, Calls
<1>14. \A i \in 1..Len(RunRows) : i \in (n + 1)..(n + 1) => RunRows[i].lane = l /\ RunRows[i].step = at[l]
  BY <1>3, <1>6
<1>15. n + 1 \in Nat /\ n <= n + 1 /\ n + 1 <= Len(RunRows)
  BY <1>2, <1>3, <1>6
<1>16. asking' = [asking EXCEPT ![l] = 0] /\ verdict' # "refused"
  BY <1>1, <1>3, <1>4, <1>11
<1> QED BY <1>1, <1>4, <1>11, <1>12, <1>13, <1>14, <1>15, <1>16, ReplayAdvances

\* A validation has no row.
LEMMA ReplayValidatesKeepsRun ==
  ASSUME RuntimeInv, SessionInv, ToolInv, ~program.overlap, RunInv, NEW l \in Lanes, ReplayValidates(l),
         UNCHANGED <<memoryRest, program, tool, slots, errors, artifact>>
  PROVE  RunInv'
<1> DEFINE n == Len(ledger)
<1>1. /\ ~IsLive /\ Turn(l) /\ Step(l) = "validate" /\ verdict = "none"
      /\ at' = [at EXCEPT ![l] = at[l] + 1]
      /\ UNCHANGED <<ledger, asking, value, taken, cursor, verdict>>
  BY DEF ReplayValidates, Moves, Resumes, CanGo, MayRun, Turn
<1>2. /\ RunRows \in Seq(LedgerRow) /\ Len(RunRows) \in Nat
  BY RunTypes DEF SessionInv
<1>3. n \in Nat /\ asking \in [Lanes -> Nat]
  BY DEF SessionInv, SessionTypeOK
<1>4. asking[l] = 0 /\ tool[l].at = "none" /\ tool' = tool
  BY <1>1 DEF SessionInv, WaitsInStep, ToolInv
<1>5. /\ n <= Len(RunRows) /\ \A i \in 1..n : ledger'[i] = RunRows[i]
      /\ taken' = Sent(RunRows, n) /\ cursor' = Stored(RunRows, n)
  BY <1>1 DEF RunInv, ReplayIsPrefix
<1>6. ASSUME NEW i \in 1..Len(RunRows), RunRows[i].lane = l, RunRows[i].step = at[l] PROVE FALSE
  <2>1. RunRows[i].etype \in EventTypes
    BY <1>2, RowTypes
  <2>2. Steps(l)[at[l] + 1] = "validate"
    BY <1>1 DEF Step
  <2> QED BY <1>6, <2>1, <2>2 DEF RunInv, RowsFitSteps, KindOf, EventTypes
<1>7. \A i \in 1..Len(RunRows) : i \in (n + 1)..n => RunRows[i].lane = l /\ RunRows[i].step = at[l]
  BY <1>3
<1>8. asking' = [asking EXCEPT ![l] = 0] /\ verdict' # "refused" /\ n <= n /\ Len(ledger') = n
  BY <1>1, <1>3, <1>4
<1> QED BY <1>1, <1>3, <1>4, <1>5, <1>6, <1>7, <1>8, ReplayAdvances

\* A replay whose lanes are through has taken everything.
LEMMA ReplayEndsKeepsRun ==
  ASSUME RuntimeInv, SessionInv, ToolInv, ~program.overlap, RunInv, ReplayEnds,
         UNCHANGED <<memoryRest, program, tool, slots, errors, artifact>>
  PROVE  RunInv'
<1> DEFINE n == Len(ledger)
<1>1. /\ ~IsLive /\ AllDone /\ verdict = "none"
      /\ UNCHANGED <<ledger, at, asking, value, taken, cursor>>
  BY DEF ReplayEnds
<1>2. /\ RunRows \in Seq(LedgerRow) /\ Len(RunRows) \in Nat /\ RunRows = Recorded.head
      /\ RunSlots = Recorded.provider /\ RunOperations = Recorded.memory
  BY <1>1, RunTypes DEF SessionInv, RunRows, RunSlots, RunOperations
<1>3. ledger \in Seq(LedgerRow) /\ n \in Nat
  BY DEF SessionInv, SessionTypeOK
<1>4. /\ n <= Len(RunRows)
      /\ \A i \in 1..n : ledger[i] = RunRows[i]
      /\ taken = Sent(RunRows, n) /\ cursor = Stored(RunRows, n)
  BY <1>1 DEF RunInv, ReplayIsPrefix
<1>5. n = Len(RunRows)
  <2>1. CASE Len(RunRows) = 0
    BY <1>3, <1>4, <2>1
  <2>2. CASE Len(RunRows) # 0
    <3> DEFINE i == Len(RunRows)
    <3>1. i \in 1..Len(RunRows)
      BY <1>2, <2>2
    <3>2. RunRows[i].lane \in Lanes
      BY <1>2, <3>1, RowTypes
    <3>3. RunRows[i].step < Len(Steps(RunRows[i].lane))
      BY <1>1, <3>1 DEF RunInv, RowsReached, Reached
    <3>4. RunRows[i].step < at[RunRows[i].lane]
      BY <1>1, <3>2, <3>3 DEF AllDone, IsDone
    <3>5. i <= n
      BY <1>1, <3>1, <3>4 DEF RunInv, ReplayIsPrefix
    <3> QED BY <1>2, <1>3, <1>4, <3>5
  <2> QED BY <2>1, <2>2
<1>6. ledger = Recorded.head
  BY <1>2, <1>3, <1>4, <1>5, SeqEqual
<1>7. cursor = Len(Recorded.memory) /\ taken = Len(Recorded.provider)
  <2>1. \A i : ~Unfinished(i)
    BY <1>1 DEF Unfinished
  <2>2. Len(RunOperations) = Stored(RunRows, Len(RunRows))
    BY <2>1 DEF RunInv, OperationsAreRows
  <2>3. Len(RunSlots) = Sent(RunRows, Len(RunRows))
    BY DEF RunInv, SlotsAreRows
  <2>4. taken = Sent(RunRows, Len(RunRows)) /\ cursor = Stored(RunRows, Len(RunRows))
    BY <1>4, <1>5
  <2> QED BY <1>2, <2>2, <2>3, <2>4
<1>8. verdict' = "replayed"
  BY <1>6, <1>7 DEF ReplayEnds, SameHead
<1>9. UNCHANGED <<operations, lane, program, slots, artifact>> /\ verdict' # "refused"
  BY <1>8 DEF memoryRest
<1> QED BY <1>1, <1>9, FrameKeepsRun

\* A tool of the replay is called where the recording has its call.
LEMMA ReplayToolCalledKeepsRun ==
  ASSUME RuntimeInv, SessionInv, ToolInv, ~program.overlap, RunInv, ~IsLive,
         NEW l \in Lanes, ToolCalled(l)
  PROVE  RunInv'
<1> DEFINE n == Len(ledger)
           r == RunRows[n + 1]
<1>1. /\ Turn(l) /\ Step(l) = "tool" /\ asking[l] = 0 /\ verdict = "none" /\ tool[l].at = "none"
      /\ ledger' = Append(ledger, Row("ToolStarted", l, value[l]))
      /\ tool' = [tool EXCEPT ![l].at = "called"]
      /\ UNCHANGED <<asking, program, at, artifact, taken, cursor, verdict>>
  BY DEF ToolCalled, Resumes, CanGo, MayRun, Free, Turn
<1>2. /\ RunRows \in Seq(LedgerRow) /\ Len(RunRows) \in Nat
  BY RunTypes DEF SessionInv
<1>3. /\ at \in [Lanes -> Nat] /\ ledger \in Seq(LedgerRow) /\ n \in Nat
      /\ tool \in [Lanes -> [at : {"none", "called", "back"}, result : Readable]]
  BY DEF SessionInv, SessionTypeOK, ToolInv
<1>4. /\ \A m \in Lanes : asking[m] = 0 /\ tool[m].at = "none"
      /\ \A i \in 1..Len(RunRows) : i <= n <=> RunRows[i].step < at[RunRows[i].lane]
      /\ \A i \in 1..Len(RunRows) :
           RunRows[i].lane = l /\ RunRows[i].step = at[l] /\ RunRows[i].etype \notin Results =>
             i = n + 1
  BY <1>1, NextRow
<1>5. n + 1 \in 1..Len(RunRows) /\ r.lane = l /\ r.step = at[l] /\ r.etype = "ToolStarted"
  <2>1. at[l] \in 0..(Reached(l) - 1) /\ Steps(l)[at[l] + 1] = "tool"
    BY <1>1, ProgramTypes DEF SessionInv, Turn, Reached, Step
  <2>2. PICK i \in 1..Len(RunRows) : RowOf(i, l, at[l], "ToolStarted")
    BY <2>1 DEF RunInv, StepsHaveRows
  <2>3. i = n + 1
    BY <1>4, <2>2 DEF RowOf, Results
  <2> QED BY <2>2, <2>3 DEF RowOf
<1>6. r.val = value[l] /\ r \in LedgerRow
  <2>1. (n + 1) - 1 = n
    BY <1>3
  <2>2. ReadBehind(RunRows, n, l, r.val)
    BY <1>5, <2>1 DEF RunInv, RowsSayWhatIsRead
  <2>3. ReadBehind(ledger, n, l, value[l])
    BY DEF SessionInv, ValuesAreRows
  <2>4. \A i \in 1..n : ledger[i] = RunRows[i]
    BY <1>1 DEF RunInv, ReplayIsPrefix
  <2>5. ReadBehind(RunRows, n, l, value[l])
    BY <1>3, <2>3, <2>4, ReadBehindPrefix
  <2>6. r.val = value[l]
    BY <1>3, <2>2, <2>5, ReadBehindUnique
  <2> QED BY <1>2, <1>5, <2>6, RowTypes
<1>7. Row("ToolStarted", l, value[l]) = r
  BY <1>5, <1>6 DEF Row, LedgerRow
<1>8. /\ Len(ledger') = n + 1
      /\ \A i \in 1..(n + 1) : ledger'[i] = RunRows[i]
      /\ taken = Sent(RunRows, n + 1) /\ cursor = Stored(RunRows, n + 1)
  <2>1. n < Len(RunRows)
    BY <1>2, <1>3, <1>5
  <2> QED BY <1>1, <1>5, <1>7, <2>1, ReplayPrefixGrows
<1>9. /\ ~IsLive' /\ RunRows' = RunRows /\ tool'[l].at = "called"
      /\ \A m \in Lanes : m # l => tool'[m].at = "none"
      /\ \A m \in Lanes : asking'[m] = 0
  BY <1>1, <1>3, <1>4 DEF IsLive, RunRows, Recorded
<1>10. ReplayIsPrefix'
  <2>1. ASSUME NEW i \in 1..Len(RunRows)
        PROVE  i <= n + 1 <=> \/ RunRows[i].step < at[RunRows[i].lane]
                              \/ /\ RunRows[i].step = at[RunRows[i].lane]
                                 /\ WaitsFor(RunRows[i].lane, RunRows[i].etype)'
    <3>1. RunRows[i].lane \in Lanes
      BY <1>2, RowTypes
    <3>2. i <= n <=> RunRows[i].step < at[RunRows[i].lane]
      BY <1>4
    <3>3. CASE i = n + 1
      BY <1>5, <1>9, <3>3 DEF WaitsFor
    <3>4. CASE i # n + 1
      <4>1. i <= n + 1 <=> i <= n
        BY <1>3, <3>4
      <4>2. ~(/\ RunRows[i].step = at[RunRows[i].lane]
              /\ WaitsFor(RunRows[i].lane, RunRows[i].etype)')
        BY <1>4, <1>9, <3>1, <3>4 DEF WaitsFor, Results
      <4> QED BY <3>2, <4>1, <4>2
    <3> QED BY <3>3, <3>4
  <2>2. n + 1 <= Len(RunRows)
    BY <1>2, <1>5
  <2> QED BY <1>1, <1>8, <1>9, <2>1, <2>2 DEF ReplayIsPrefix
<1>11. OneBehindTheOther'
  <2>1. \A m \in Lanes : Busy(m)' => m = l
    BY <1>9 DEF Busy, InMemory
  <2>2. \A m \in Lanes : IsDone(m)' = IsDone(m)
    BY <1>1 DEF IsDone, Steps
  <2> QED BY <1>1, <2>1, <2>2 DEF RunInv, OneBehindTheOther, Turn
<1> QED BY <1>1, <1>10, <1>11, ReplayFrame DEF NotRefused

\* The tool has answered as it answered the run: its row is the next one.
LEMMA ReplayToolAnsweredKeepsRun ==
  ASSUME RuntimeInv, SessionInv, ToolInv, ~program.overlap, RunInv, ~IsLive,
         NEW l \in Lanes, ToolAnswered(l), AnsweredAlike'
  PROVE  RunInv'
<1> DEFINE n == Len(ledger)
           s == Row("ToolResolved", l, tool[l].result)
<1>1. /\ verdict = "none" /\ tool[l].at = "back"
      /\ ledger' = Append(ledger, s) /\ at' = [at EXCEPT ![l] = at[l] + 1]
      /\ tool' = [tool EXCEPT ![l] = NoTool]
      /\ UNCHANGED <<asking, program, artifact, taken, cursor, verdict>>
  BY DEF ToolAnswered, Moves, Resumes, CanGo
<1>2. /\ RunRows \in Seq(LedgerRow) /\ Len(RunRows) \in Nat /\ RunRows = Recorded.head
  BY RunTypes DEF SessionInv, RunRows
<1>3. /\ ledger \in Seq(LedgerRow) /\ n \in Nat /\ asking \in [Lanes -> Nat] /\ at \in [Lanes -> Nat]
      /\ tool \in [Lanes -> [at : {"none", "called", "back"}, result : Readable]]
  BY DEF SessionInv, SessionTypeOK, ToolInv
<1>4. Turn(l) /\ asking[l] = 0
  <2>1. Busy(l) /\ Step(l) = "tool"
    BY <1>1 DEF Busy, ToolInv
  <2> QED BY <2>1, BusyHasTurn DEF SessionInv, WaitsInStep, RunInv
<1>5. s \in LedgerRow /\ s.etype = "ToolResolved" /\ s.lane = l /\ s.step = at[l]
  BY <1>3 DEF Row, LedgerRow, EventTypes
<1> HIDE DEF s
<1>6. n + 1 \in DOMAIN ledger' /\ ledger'[n + 1] = s /\ ~IsLive' /\ Recorded' = Recorded
  BY <1>1, <1>3, <1>5 DEF IsLive, Recorded
<1>7. n + 1 \in 1..Len(RunRows) /\ RunRows[n + 1] = s
  <2>1. n + 1 \in DOMAIN Recorded.head /\ ledger'[n + 1] = Recorded.head[n + 1]
    BY <1>5, <1>6 DEF AnsweredAlike, ToolsAnswerAlike
  <2> QED BY <1>2, <1>6, <2>1
<1>8. n < Len(RunRows) /\ n + 1 <= Len(RunRows) /\ n <= n + 1 /\ n + 1 \in Nat
  BY <1>2, <1>3, <1>7
<1>9. /\ Len(ledger') = n + 1
      /\ \A i \in 1..(n + 1) : ledger'[i] = RunRows[i]
      /\ taken = Sent(RunRows, n + 1) /\ cursor = Stored(RunRows, n + 1)
  BY <1>1, <1>5, <1>7, <1>8, ReplayPrefixGrows
<1>10. ASSUME NEW i \in 1..Len(RunRows), RunRows[i].lane = l, RunRows[i].step = at[l], ~(i <= n + 1)
       PROVE  FALSE
  <2>1. Precedes(RunRows[n + 1], RunRows[i])
    BY <1>3, <1>7, <1>10 DEF RunInv, RowsInOrder
  <2>2. RunRows[i].lane \in Nat /\ RunRows[i].step \in Nat
    BY <1>2, <1>10, RowTypes, LanesAssumption
  <2> QED BY <1>5, <1>7, <1>10, <2>1, <2>2 DEF Precedes, Calls
<1>11. \A i \in 1..Len(RunRows) : i \in (n + 1)..(n + 1) => RunRows[i].lane = l /\ RunRows[i].step = at[l]
  BY <1>3, <1>5, <1>7
<1>12. /\ tool'[l].at = "none" /\ \A m \in Lanes : m # l => tool'[m] = tool[m]
       /\ asking' = [asking EXCEPT ![l] = 0] /\ verdict' # "refused"
  BY <1>1, <1>3, <1>4 DEF NoTool
<1> QED BY <1>1, <1>4, <1>8, <1>9, <1>10, <1>11, <1>12, ReplayAdvances

\* A tool comes back, or has failed: the run is rejected, or the replay is.
LEMMA ToolReturnsKeepsRun ==
  ASSUME SessionInv, ToolInv, RunInv, NEW l \in Lanes, ToolReturns(l)
  PROVE  RunInv'
<1>1. /\ tool[l].at = "called"
      /\ UNCHANGED <<ledger, operations, lane, program, at, asking, value, slots, artifact, taken,
                     cursor, verdict>>
  BY DEF ToolReturns, memoryVars, replayVars
<1>2. PICK a \in Answers \cup {None} : tool' = [tool EXCEPT ![l] = [at |-> "back", result |-> a]]
  BY DEF ToolReturns
<1>3. \A m \in Lanes : (tool'[m].at = "none") = (tool[m].at = "none")
  BY <1>1, <1>2 DEF ToolInv
<1>4. verdict' # "refused"
  BY <1>1 DEF RunInv, NotRefused
<1> QED BY <1>1, <1>3, <1>4, FrameKeepsRun

LEMMA ToolFailedKeepsRun ==
  ASSUME RuntimeInv, SessionInv, ToolInv, ~program.overlap, RunInv, NEW l \in Lanes, ToolFailed(l),
         ~errors', NoneCrashed', AnsweredAlike'
  PROVE  RunInv'
<1>1. /\ tool[l].at = "back" /\ UNCHANGED <<program, asking, artifact>>
      /\ tool' = [tool EXCEPT ![l] = NoTool]
  BY DEF ToolFailed
<1>2. ledger \in Seq(LedgerRow) /\ value \in [Lanes -> Readable] /\ at \in [Lanes -> Nat]
  BY DEF SessionInv, SessionTypeOK
<1>3. CASE Contained(l)
  <2> DEFINE r == Row("AgentCrashed", l, value[l])
  <2>1. r \in LedgerRow /\ r.etype = "AgentCrashed"
    BY <1>2 DEF Row, LedgerRow, EventTypes
  <2>2. ledger' = Append(ledger, r)
    BY <1>3 DEF Contained
  <2> HIDE DEF r
  <2>3. /\ Len(ledger') = Len(ledger) + 1 /\ Len(ledger) \in Nat
        /\ ledger'[Len(ledger) + 1] = r /\ Len(ledger) + 1 \in DOMAIN ledger'
    BY <1>2, <2>1, <2>2
  <2>4. PICK j \in 1..Len(RunRows)' : RunRows'[j].etype = "AgentCrashed"
    <3>1. CASE IsLive
      <4>1. RunRows' = ledger'
        BY <1>1, <3>1 DEF RunRows, IsLive
      <4> QED BY <2>1, <2>3, <4>1
    <3>2. CASE ~IsLive
      <4>1. ~IsLive' /\ Recorded' = Recorded /\ RunRows' = Recorded.head
        BY <1>1, <3>2 DEF IsLive, Recorded, RunRows
      <4>2. /\ Len(ledger) + 1 \in DOMAIN Recorded.head
            /\ ledger'[Len(ledger) + 1] = Recorded.head[Len(ledger) + 1]
        BY <2>1, <2>3, <4>1 DEF AnsweredAlike, ToolsAnswerAlike
      <4>3. Recorded.head \in Seq(LedgerRow)
        BY <3>2, RunTypes DEF SessionInv, RunRows
      <4> QED BY <2>1, <2>3, <4>1, <4>2, <4>3
    <3> QED BY <3>1, <3>2
  <2> QED BY <2>4 DEF NoneCrashed
<1>4. CASE IsLive /\ errors' = TRUE
  BY <1>4
<1>5. CASE ~IsLive /\ verdict' = "failed" /\ UNCHANGED <<ledger, at, errors>>
  <2>1. Turn(l) /\ asking[l] = 0
    <3>1. Busy(l) /\ Step(l) = "tool"
      BY <1>1 DEF Busy, ToolInv
    <3> QED BY <3>1, BusyHasTurn DEF SessionInv, WaitsInStep, RunInv
  <2>2. OneBehindTheOther'
    <3>1. \A m \in Lanes : m # l => ~Busy(m)
      BY <2>1, TurnIsAlone DEF RunInv
    <3>2. ~IsLive'
      BY <1>1, <1>5 DEF IsLive
    <3>3. \A m \in Lanes : ~Busy(m)'
      BY <1>1, <2>1, <3>1, <3>2 DEF Busy, InMemory, ToolInv, NoTool
    <3>4. \A m \in Lanes : IsDone(m)' = IsDone(m)
      BY <1>1, <1>5 DEF IsDone, Steps
    <3> QED BY <1>5, <3>3, <3>4 DEF RunInv, OneBehindTheOther
  <2>3. ReplayIsPrefix' /\ NotRefused'
    BY <1>5 DEF ReplayIsPrefix, NotRefused
  <2> QED BY <1>1, <1>5, <2>2, <2>3, ReplayFrame
<1> QED BY <1>3, <1>4, <1>5 DEF ToolFailed

LEMMA ToolStepKeepsRun ==
  ASSUME RuntimeInv, SessionInv, ToolInv, ~program.overlap, RunInv, ToolStep,
         ~errors', NoneCrashed', AnsweredAlike'
  PROVE  RunInv'
BY ToolCalledKeepsRun, ToolAnsweredKeepsRun, ReplayToolCalledKeepsRun, ReplayToolAnsweredKeepsRun,
   ToolReturnsKeepsRun, ToolFailedKeepsRun DEF ToolStep

-----------------------------------------------------------------------------
(* Every sequential run replays.                                             *)

\* Only a clean run is recorded, and only a recording is judged.
NothingJudgedEarly == IF IsLive THEN verdict = "none" ELSE ~errors

LEMMA NothingJudgedEarlyStep ==
  ASSUME NothingJudgedEarly, [Next]_vars
  PROVE  /\ NothingJudgedEarly'
         /\ program' = program
         /\ errors => errors'
<1>1. ASSUME NEW l \in Lanes,
             Asks(l) \/ Arrives(l) \/ Answered(l) \/ MemoryStarts(l) \/ MemoryGoesOn(l)
      PROVE  /\ IsLive /\ artifact' = artifact /\ verdict' = verdict /\ program' = program
             /\ errors => errors'
  <2>1. CASE Asks(l) \/ Arrives(l) \/ Answered(l)
    BY <2>1 DEF Asks, Arrives, Answered, replayVars
  <2>2. CASE MemoryStarts(l)
    BY <2>2 DEF MemoryStarts
  <2>3. CASE MemoryGoesOn(l)
    <3>1. \/ errors' = (errors \/ driver' = 0)
          \/ errors' = errors
          \/ errors' = TRUE
      BY <2>3 DEF MemoryGoesOn, OutOfScope
    <3>2. errors => errors'
      BY <3>1
    <3>3. IsLive /\ artifact' = artifact /\ verdict' = verdict /\ program' = program
      BY <2>3 DEF MemoryGoesOn, replayVars
    <3> QED BY <3>2, <3>3
  <2> QED BY <1>1, <2>1, <2>2, <2>3
<1>2. ASSUME Runtime
      PROVE  /\ IsLive /\ artifact' = artifact /\ verdict' = verdict /\ program' = program
             /\ errors => errors'
  BY <1>2, RuntimeFrame
<1>3. ASSUME Records
      PROVE  /\ IsLive /\ ~IsLive' /\ ~errors /\ errors' = errors /\ program' = program
  BY <1>3 DEF Records, IsLive
<1>4. ASSUME ReplayStep
      PROVE  /\ ~IsLive /\ ~IsLive' /\ errors' = errors /\ program' = program
  BY <1>4 DEF ReplayStep, ReplayAsks, ReplayAnswered, ReplayMemory, ReplayValidates, ReplayEnds, IsLive
<1>5. ASSUME UNCHANGED vars
      PROVE  /\ artifact' = artifact /\ verdict' = verdict /\ program' = program /\ errors' = errors
  BY <1>5 DEF vars
<1>6. ASSUME ToolStep
      PROVE  /\ artifact' = artifact /\ program' = program /\ (errors => errors')
             /\ IsLive => verdict' = verdict
             /\ ~IsLive => errors' = errors
  <2>1. ASSUME NEW l \in Lanes, ToolCalled(l) \/ ToolReturns(l) \/ ToolAnswered(l)
        PROVE  UNCHANGED <<artifact, program, errors, verdict>>
    BY <2>1 DEF ToolCalled, ToolReturns, ToolAnswered, replayVars
  <2>2. ASSUME NEW l \in Lanes, ToolFailed(l)
        PROVE  /\ UNCHANGED <<artifact, program>>
               /\ \/ UNCHANGED <<errors, verdict>>
                  \/ IsLive /\ errors' = TRUE /\ verdict' = verdict
                  \/ ~IsLive /\ errors' = errors
    BY <2>2 DEF ToolFailed
  <2> QED BY <1>6, <2>1, <2>2 DEF ToolStep
<1>7. ASSUME ToolStep
      PROVE  NothingJudgedEarly' /\ program' = program /\ (errors => errors')
  BY <1>6, <1>7 DEF NothingJudgedEarly, IsLive
<1> QED BY <1>1, <1>2, <1>3, <1>4, <1>5, <1>7 DEF Next, NothingJudgedEarly, IsLive

LEMMA MemoryStartsKeepsRun ==
  ASSUME RuntimeInv, SessionInv, ToolInv, ~program.overlap, RunInv, NEW l \in Lanes,
         MemoryStarts(l), ~errors'
  PROVE  RunInv'
<1>1. /\ IsLive /\ Turn(l) /\ asking[l] = 0 /\ lane[l].stage = "idle" /\ lane \in [Lanes -> LaneState]
      /\ tool[l].at = "none"
      /\ UNCHANGED <<program, asking, tool, value, slots, artifact, taken, cursor, verdict>>
  BY DEF MemoryStarts, Resumes, CanGo, MayRun, Free, Turn, RuntimeInv, RuntimeTypeOK
<1>2. CASE Step(l) = "validate" /\ Validates(l) /\ UNCHANGED <<at, errors>>
  <2>1. lane' = [lane EXCEPT ![l] = Awaiting("driver", Shared(driverPromise), FALSE)]
        /\ ledger' = ledger /\ operations' = operations
    BY <1>2 DEF Validates
  <2>2. lane'[l].stage = "driver" /\ \A m \in Lanes : m # l => lane'[m] = lane[m]
    BY <1>1, <2>1 DEF Awaiting
  <2> QED BY <1>1, <1>2, <2>1, <2>2, LaneKeepsRun
<1>3. CASE /\ Step(l) = "validate" /\ IsOpen /\ driver # 0
           /\ Moves(l) /\ UNCHANGED <<memoryVars, errors>>
  <2>1. ledger' = ledger /\ operations' = operations /\ lane' = lane
    BY <1>3 DEF memoryVars
  <2> QED BY <1>1, <1>3, <2>1, LaneKeepsRun
<1>4. CASE Step(l) # "validate" /\ Call(l, program.key[l]) /\ UNCHANGED <<at, errors>>
  <2>1. PICK c \in {coordinators[program.key[l]], Len(creations) + 1}, m \in BOOLEAN :
           lane' = [lane EXCEPT ![l] = Awaiting("await", c, m)]
    BY <1>4 DEF Call
  <2>2. lane'[l].stage = "await" /\ \A m2 \in Lanes : m2 # l => lane'[m2] = lane[m2]
    BY <1>1, <2>1 DEF Awaiting
  <2>3. ledger' = ledger /\ operations' = operations
    BY <1>4 DEF Call
  <2> QED BY <1>1, <1>4, <2>2, <2>3, LaneKeepsRun
<1>5. CASE ~IsOpen /\ Moves(l) /\ errors' = TRUE /\ UNCHANGED memoryVars
  BY <1>5
<1> QED BY <1>2, <1>3, <1>4, <1>5 DEF MemoryStarts

\* A lane that waits for a driver alone is at a validation.
StartsAreValidations ==
  \A l \in Lanes : InMemory(l) /\ lane[l].stage = "driver" => Step(l) = "validate"

LEMMA StartsStep ==
  ASSUME RuntimeInv, SessionInv, ToolInv, StartsAreValidations, [Next]_vars
  PROVE  StartsAreValidations'
<1>0. lane \in [Lanes -> LaneState] /\ at \in [Lanes -> Nat] /\ program' = program
  <2>1. program' = program
    BY RuntimeFrame DEF Next, Asks, Arrives, Answered, MemoryStarts, MemoryGoesOn, ToolStep,
         ToolCalled, ToolReturns, ToolAnswered, ToolFailed, Records, ReplayStep, vars
  <2> QED BY <2>1 DEF RuntimeInv, RuntimeTypeOK, SessionInv, SessionTypeOK
<1>1. ASSUME IsLive => IsLive', IsLive' => IsLive, NEW l \in Lanes,
             \A m \in Lanes : m # l => lane'[m] = lane[m] /\ at'[m] = at[m],
             \/ at'[l] = at[l] /\ lane'[l] = lane[l]
             \/ lane'[l].stage # "driver"
             \/ at'[l] = at[l] /\ Step(l) = "validate"
      PROVE  StartsAreValidations'
  BY <1>0, <1>1 DEF StartsAreValidations, InMemory, Step, Steps
<1>2. ASSUME NEW l \in Lanes, Asks(l) \/ Arrives(l) PROVE StartsAreValidations'
  BY <1>1, <1>2 DEF Asks, Arrives, memoryRest, memoryVars, IsLive
<1>3. ASSUME NEW l \in Lanes, Answered(l) PROVE StartsAreValidations'
  <2>1. /\ IsLive /\ IsLive' /\ lane' = lane /\ lane[l].stage = "idle"
        /\ at' = [at EXCEPT ![l] = at[l] + 1]
    BY <1>3 DEF Answered, Applied, Moves, memoryRest, IsLive, SessionInv, WaitsInStep, InMemory
  <2>2. \A m \in Lanes : m # l => lane'[m] = lane[m] /\ at'[m] = at[m]
    BY <1>0, <2>1
  <2> QED BY <1>1, <2>1, <2>2
<1>4. ASSUME NEW l \in Lanes, MemoryStarts(l) PROVE StartsAreValidations'
  <2>1. IsLive /\ IsLive' /\ lane[l].stage = "idle" /\ asking[l] = 0
    BY <1>4 DEF MemoryStarts, IsLive, Resumes, CanGo, Free
  <2>2. CASE Step(l) = "validate" /\ Validates(l) /\ UNCHANGED <<at, errors>>
    <3>1. \A m \in Lanes : m # l => lane'[m] = lane[m]
      BY <1>0, <2>2 DEF Validates
    <3> QED BY <1>1, <2>1, <2>2, <3>1
  <2>3. CASE Step(l) # "validate" /\ Call(l, program.key[l]) /\ UNCHANGED <<at, errors>>
    <3>1. PICK c \in {coordinators[program.key[l]], Len(creations) + 1}, m \in BOOLEAN :
             lane' = [lane EXCEPT ![l] = Awaiting("await", c, m)]
      BY <2>3 DEF Call
    <3>2. lane'[l].stage = "await" /\ \A m2 \in Lanes : m2 # l => lane'[m2] = lane[m2]
      BY <1>0, <3>1 DEF Awaiting
    <3> QED BY <1>1, <2>1, <2>3, <3>2
  <2>4. CASE Moves(l) /\ UNCHANGED memoryVars
    <3>1. lane' = lane /\ \A m \in Lanes : m # l => at'[m] = at[m]
      BY <1>0, <2>4 DEF Moves, memoryVars
    <3> QED BY <1>1, <2>1, <3>1
  <2> QED BY <1>4, <2>2, <2>3, <2>4 DEF MemoryStarts
<1>5. ASSUME NEW l \in Lanes, MemoryGoesOn(l) PROVE StartsAreValidations'
  <2>1. /\ IsLive /\ IsLive' /\ \A m \in Lanes : m # l => at'[m] = at[m]
    BY <1>0, <1>5 DEF MemoryGoesOn, OutOfScope, Contained, IsLive, Moves
  <2>2. CASE Enter(l)
    <3>1. lane'[l].stage = "inside" /\ \A m \in Lanes : m # l => lane'[m] = lane[m]
      BY <1>0, <2>2 DEF Enter, LaneState
    <3> QED BY <1>1, <2>1, <3>1
  <2>3. CASE \E row : Commits(l, row)
    <3>1. lane'[l].stage = "committed" /\ \A m \in Lanes : m # l => lane'[m] = lane[m]
      BY <1>0, <2>3 DEF Commits, LaneState
    <3> QED BY <1>1, <2>1, <3>1
  <2>4. CASE \/ Validated(l) \/ Refused(l) \/ Fails(l) \/ OutOfScope(l)
             \/ \E request : Finishes(l, request)
    <3>1. lane' = [lane EXCEPT ![l] = Idle]
      BY <2>4 DEF Validated, Refused, Fails, OutOfScope, Finishes
    <3>2. lane'[l].stage = "idle" /\ \A m \in Lanes : m # l => lane'[m] = lane[m]
      BY <1>0, <3>1 DEF Idle
    <3> QED BY <1>1, <2>1, <3>2
  <2> QED BY <1>5, <2>2, <2>3, <2>4 DEF MemoryGoesOn
<1>6. ASSUME Runtime PROVE StartsAreValidations'
  BY <1>6, RuntimeFrame DEF StartsAreValidations, InMemory, Step, Steps, IsLive
<1>7. ASSUME Records PROVE StartsAreValidations'
  BY <1>7 DEF Records, StartsAreValidations, InMemory, IsLive
<1>8. ASSUME ReplayStep PROVE StartsAreValidations'
  <2>1. ~IsLive'
    BY <1>8 DEF ReplayStep, ReplayAsks, ReplayAnswered, ReplayMemory, ReplayValidates, ReplayEnds, IsLive
  <2> QED BY <2>1 DEF StartsAreValidations, InMemory
<1>9. ASSUME UNCHANGED vars PROVE StartsAreValidations'
  BY <1>9 DEF vars, memoryVars, StartsAreValidations, InMemory, Step, Steps, IsLive
<1>10. ASSUME ToolStep PROVE StartsAreValidations'
  <2>1. lane' = lane /\ artifact' = artifact
    BY <1>10 DEF ToolStep, ToolCalled, ToolReturns, ToolAnswered, ToolFailed, memoryRest, memoryVars
  <2>2. ASSUME NEW l \in Lanes, ToolCalled(l) \/ ToolReturns(l) PROVE StartsAreValidations'
    BY <1>1, <2>1, <2>2 DEF ToolCalled, ToolReturns, IsLive
  <2>3. ASSUME NEW l \in Lanes, ToolAnswered(l) \/ ToolFailed(l) PROVE StartsAreValidations'
    <3>1. ~InMemory(l) /\ (at' = at \/ Moves(l) \/ Contained(l))
      BY <2>3 DEF ToolAnswered, ToolFailed, ToolInv
    <3>2. \A m \in Lanes : m # l => at'[m] = at[m]
      BY <1>0, <3>1 DEF Moves, Contained
    <3>3. ~InMemory(l)'
      BY <2>1, <3>1 DEF InMemory, IsLive
    <3>4. \A m \in Lanes : m # l => InMemory(m)' = InMemory(m) /\ Step(m)' = Step(m)
      BY <1>0, <2>1, <3>2 DEF InMemory, IsLive, Step, Steps
    <3> QED BY <2>1, <3>3, <3>4 DEF StartsAreValidations
  <2> QED BY <1>10, <2>2, <2>3 DEF ToolStep
<1> QED BY <1>2, <1>3, <1>4, <1>5, <1>6, <1>7, <1>8, <1>9, <1>10 DEF Next

LEMMA MemoryGoesOnKeepsRun ==
  ASSUME RuntimeInv, SessionInv, ToolInv, StartsAreValidations, ~program.overlap, RunInv,
         NEW l \in Lanes, MemoryGoesOn(l), ~errors', NoneCrashed'
  PROVE  RunInv'
<1>1. /\ IsLive /\ lane[l].stage # "idle" /\ lane \in [Lanes -> LaneState]
      /\ UNCHANGED <<program, asking, tool, slots, artifact, taken, cursor, verdict>>
  BY DEF MemoryGoesOn, replayVars, RuntimeInv, RuntimeTypeOK
<1>2. Turn(l) /\ asking[l] = 0 /\ tool[l].at = "none"
  <2>1. InMemory(l) /\ Busy(l)
    BY <1>1 DEF InMemory, Busy
  <2> QED BY <2>1, BusyHasTurn DEF SessionInv, WaitsInStep, ToolInv, RunInv
<1>3. CASE Validated(l) /\ Moves(l) /\ UNCHANGED value /\ errors' = (errors \/ driver' = 0)
  <2>1. /\ lane[l].stage = "driver" /\ lane' = [lane EXCEPT ![l] = Idle]
        /\ ledger' = ledger /\ operations' = operations
    BY <1>3 DEF Validated
  <2>2. lane'[l].stage = "idle" /\ \A m \in Lanes : m # l => lane'[m] = lane[m]
    BY <1>1, <2>1 DEF Idle
  <2>3. Step(l) = "validate"
    BY <1>1, <2>1 DEF StartsAreValidations, InMemory
  <2> QED BY <1>1, <1>2, <1>3, <2>1, <2>2, <2>3, LaneKeepsRun
<1>4. CASE Enter(l) /\ UNCHANGED <<at, value, errors>>
  <2>1. /\ lane[l].stage = "await" /\ lane' = [lane EXCEPT ![l].stage = "inside"]
        /\ ledger' = ledger /\ operations' = operations
    BY <1>4 DEF Enter
  <2>2. lane'[l].stage = "inside" /\ \A m \in Lanes : m # l => lane'[m] = lane[m]
    BY <1>1, <2>1 DEF LaneState
  <2> QED BY <1>1, <1>2, <1>4, <2>1, <2>2, LaneKeepsRun
<1>5. CASE \E v \in Reads(l) : /\ InScope(l) /\ Commits(l, Row(Step(l), l, v))
                               /\ value' = [value EXCEPT ![l] = v]
                               /\ UNCHANGED <<at, errors>>
  BY <1>1, <1>5, CommitsKeepsRun
<1>6. CASE Finishes(l, Request(l, Given(l))) /\ Moves(l) /\ UNCHANGED <<value, errors>>
  BY <1>1, <1>6, FinishesKeepsRun
<1>7. CASE /\ Refused(l) \/ (InScope(l) /\ Fails(l))
           /\ Moves(l) /\ errors' = TRUE /\ UNCHANGED value
  BY <1>7
<1>8. CASE OutOfScope(l) /\ UNCHANGED value
  <2>1. CASE Contained(l)
    <3> DEFINE r == Row("AgentCrashed", l, value[l])
    <3>1. r \in LedgerRow /\ r.etype = "AgentCrashed" /\ ledger \in Seq(LedgerRow)
      BY DEF Row, LedgerRow, EventTypes, SessionInv, SessionTypeOK
    <3>2. ledger' = Append(ledger, r)
      BY <2>1 DEF Contained
    <3> HIDE DEF r
    <3>3. RunRows' = ledger'
      BY <1>1 DEF RunRows, IsLive
    <3>4. Len(ledger) + 1 \in 1..Len(ledger') /\ ledger'[Len(ledger) + 1] = r
      BY <3>1, <3>2
    <3> QED BY <3>1, <3>3, <3>4 DEF NoneCrashed
  <2>2. CASE errors' = TRUE
    BY <2>2
  <2> QED BY <1>8, <2>1, <2>2 DEF OutOfScope
<1> QED BY <1>3, <1>4, <1>5, <1>6, <1>7, <1>8 DEF MemoryGoesOn

\* What has crashed has crashed, and a tool that answered otherwise has: the rows
\* are only ever added to.
LEMMA RowsStay ==
  ASSUME RuntimeInv, SessionInv, [Next]_vars
  PROVE  /\ NoneCrashed' => NoneCrashed
         /\ AnsweredAlike' => AnsweredAlike
<1>0. ledger \in Seq(LedgerRow) /\ Len(ledger) \in Nat /\ (IsLive => RunRows = ledger)
  BY DEF SessionInv, SessionTypeOK, RunRows
<1>1. ASSUME artifact' = artifact, ledger' = ledger \/ \E r : ledger' = Append(ledger, r)
      PROVE  /\ NoneCrashed' => NoneCrashed
             /\ AnsweredAlike' => AnsweredAlike
  <2>1. /\ IsLive' = IsLive /\ Recorded' = Recorded
        /\ IsLive => RunRows' = ledger'
        /\ ~IsLive => RunRows' = RunRows
    BY <1>1 DEF IsLive, Recorded, RunRows
  <2>2. /\ DOMAIN ledger = 1..Len(ledger) /\ DOMAIN ledger \subseteq DOMAIN ledger'
        /\ \A i \in 1..Len(ledger) : i \in 1..Len(ledger') /\ ledger'[i] = ledger[i]
    <3>1. CASE ledger' = ledger
      BY <1>0, <3>1
    <3>2. ASSUME NEW r, ledger' = Append(ledger, r)
          PROVE  /\ DOMAIN ledger = 1..Len(ledger) /\ DOMAIN ledger \subseteq DOMAIN ledger'
                 /\ \A i \in 1..Len(ledger) : i \in 1..Len(ledger') /\ ledger'[i] = ledger[i]
      BY <1>0, <3>2
    <3> QED BY <1>1, <3>1, <3>2
  <2>3. NoneCrashed' => NoneCrashed
    BY <1>0, <2>1, <2>2 DEF NoneCrashed
  <2>4. AnsweredAlike' => AnsweredAlike
    BY <2>1, <2>2 DEF AnsweredAlike, ToolsAnswerAlike
  <2> QED BY <2>3, <2>4
<1>2. ASSUME NEW l \in Lanes,
             Asks(l) \/ Arrives(l) \/ Answered(l) \/ MemoryStarts(l) \/ MemoryGoesOn(l)
      PROVE  artifact' = artifact /\ (ledger' = ledger \/ \E r : ledger' = Append(ledger, r))
  <2>1. CASE Asks(l) \/ Arrives(l) \/ Answered(l)
    BY <2>1 DEF Asks, Arrives, Answered, Applied, memoryVars
  <2>2. CASE MemoryStarts(l)
    BY <2>2 DEF MemoryStarts, Validates, Call, memoryVars
  <2>3. CASE MemoryGoesOn(l)
    BY <2>3 DEF MemoryGoesOn, OutOfScope, Contained, Validated, Enter, Commits, Finishes, Refused, Fails
  <2> QED BY <1>2, <2>1, <2>2, <2>3
<1>3. ASSUME ToolStep
      PROVE  artifact' = artifact /\ (ledger' = ledger \/ \E r : ledger' = Append(ledger, r))
  BY <1>3 DEF ToolStep, ToolCalled, ToolReturns, ToolAnswered, ToolFailed, Contained, memoryVars
<1>4. ASSUME Runtime
      PROVE  artifact' = artifact /\ ledger' = ledger
  BY <1>4, RuntimeFrame
<1>5. ASSUME ReplayStep
      PROVE  artifact' = artifact /\ (ledger' = ledger \/ \E r : ledger' = Append(ledger, r))
  BY <1>5 DEF ReplayStep, ReplayAsks, ReplayAnswered, Applied, ReplayMemory, ReplayValidates,
              ReplayEnds, Refuses
<1>6. ASSUME Records
      PROVE  (NoneCrashed' => NoneCrashed) /\ (AnsweredAlike' => AnsweredAlike)
  <2>1. IsLive /\ RunRows' = ledger
    BY <1>6, RecordsKeepsSession
  <2> QED BY <1>0, <2>1 DEF NoneCrashed, AnsweredAlike
<1>7. ASSUME UNCHANGED vars
      PROVE  artifact' = artifact /\ ledger' = ledger
  BY <1>7 DEF vars, memoryVars
<1> QED BY <1>1, <1>2, <1>3, <1>4, <1>5, <1>6, <1>7 DEF Next

LEMMA SequentialStep ==
  ASSUME RuntimeInv, SessionInv, ToolInv, StartsAreValidations, ~program.overlap, RunInv,
         [Next]_vars, ~errors', NoneCrashed', AnsweredAlike'
  PROVE  RunInv'
<1>1. ASSUME NEW l \in Lanes,
             Asks(l) \/ Arrives(l) \/ Answered(l) \/ MemoryStarts(l) \/ MemoryGoesOn(l)
      PROVE  RunInv'
  BY <1>1, AsksKeepsRun, ArrivesKeepsRun, AnsweredKeepsRun, MemoryStartsKeepsRun, MemoryGoesOnKeepsRun
<1>2. ASSUME UNCHANGED <<ledger, operations, lane, program, at, asking, tool, value, slots, artifact,
                         taken, cursor, verdict>>
      PROVE  RunInv'
  <2>1. verdict' # "refused"
    BY <1>2 DEF RunInv, NotRefused
  <2>2. \A l \in Lanes : (tool'[l].at = "none") = (tool[l].at = "none")
    BY <1>2
  <2> QED BY <1>2, <2>1, <2>2, FrameKeepsRun
<1>3. ASSUME Runtime PROVE RunInv'
  <2>1. tool' = tool
    BY <1>3 DEF Runtime
  <2> QED BY <1>2, <1>3, <2>1, RuntimeFrame
<1>4. ASSUME ReplayStep PROVE RunInv'
  BY <1>4, ReplayAsksKeepsRun, ReplayAnsweredKeepsRun, ReplayMemoryKeepsRun,
     ReplayValidatesKeepsRun, ReplayEndsKeepsRun DEF ReplayStep
<1>5. ASSUME UNCHANGED vars PROVE RunInv'
  BY <1>2, <1>5 DEF vars, memoryVars
<1> QED BY <1>1, <1>3, <1>4, <1>5, RecordsKeepsRun, ToolStepKeepsRun DEF Next

SequentialRunInv == RecordingInv /\ StartsAreValidations /\ NothingJudgedEarly /\ SequentialInv

LEMMA SequentialInit == Init => RunInv
<1> SUFFICES ASSUME Init PROVE RunInv
  OBVIOUS
<1>1. /\ ledger = << >> /\ operations = << >> /\ slots = << >> /\ artifact = << >>
      /\ at = AtStart /\ asking = AtStart /\ lane = [l \in Lanes |-> Idle]
      /\ taken = 0 /\ cursor = 0 /\ verdict = "none" /\ tool = [l \in Lanes |-> NoTool]
  BY DEF Init, MemoryInit
<1>2. /\ IsLive /\ RunRows = << >> /\ RunSlots = << >> /\ RunOperations = << >>
      /\ Len(RunRows) = 0
      /\ \A l \in Lanes : /\ at[l] = 0 /\ asking[l] = 0 /\ tool[l].at = "none"
                         /\ Reached(l) = 0 /\ lane[l].stage = "idle"
  BY <1>1 DEF IsLive, RunRows, RunSlots, RunOperations, Reached, AtStart, Idle, NoTool
<1>3. OneBehindTheOther /\ StepsHaveRows
  BY <1>2 DEF OneBehindTheOther, StepsHaveRows, Busy, InMemory
<1>4. RowsInOrder /\ RowsReached /\ LastIsAnswered /\ RowsFitSteps /\ RowsSayWhatIsRead
  BY <1>2 DEF RowsInOrder, RowsReached, LastIsAnswered, RowsFitSteps, RowsSayWhatIsRead
<1>5. SlotsAreRows /\ OperationsAreRows
  <2>1. Sent(RunRows, 0) = 0 /\ Stored(RunRows, 0) = 0
    BY CountTypes DEF Sent, Stored
  <2>2. \A i : ~Unfinished(i)
    BY <1>2 DEF Unfinished
  <2> QED BY <1>2, <2>1, <2>2 DEF SlotsAreRows, OperationsAreRows
<1>6. BehindItsRow /\ ReplayIsPrefix /\ NothingTaken /\ NotRefused
  BY <1>1, <1>2 DEF BehindItsRow, ReplayIsPrefix, NothingTaken, NotRefused
<1> QED BY <1>3, <1>4, <1>5, <1>6 DEF RunInv

\* A recording of lanes that do not overlap, of which no invocation crashed, is
\* never refused while its tools answer as they did: no question and no operation
\* of the replay differs from the one the journals have next, and the head it
\* ends with is the recorded one (ReplayProvider, NamedMemoryRuntime, cli.ts).
THEOREM SequentialReplays == Spec => []SequentialRunsReplay
<1>1. Init => SequentialRunInv
  <2>1. Init => NothingJudgedEarly /\ StartsAreValidations
    BY DEF Init, MemoryInit, NothingJudgedEarly, StartsAreValidations, InMemory, IsLive, Idle
  <2> QED BY <2>1, RecordingInit, SequentialInit DEF SequentialRunInv, SequentialInv
<1>2. SequentialRunInv /\ [Next]_vars => SequentialRunInv'
  <2> SUFFICES ASSUME SequentialRunInv, [Next]_vars PROVE SequentialRunInv'
    OBVIOUS
  <2>1. RuntimeInv /\ SessionInv /\ ToolInv /\ VerdictIsEarned
    BY DEF SequentialRunInv, RecordingInv
  <2>2. RecordingInv' /\ StartsAreValidations'
    BY <2>1, RuntimeStepKeeps, SessionStepKeeps, ToolInvStep, VerdictStep, StartsStep
       DEF SequentialRunInv, RecordingInv
  <2>3. NothingJudgedEarly' /\ program' = program /\ (errors => errors')
    BY NothingJudgedEarlyStep DEF SequentialRunInv
  <2>4. (NoneCrashed' => NoneCrashed) /\ (AnsweredAlike' => AnsweredAlike)
    BY <2>1, RowsStay
  <2>5. SequentialInv'
    <3> SUFFICES ASSUME ~program.overlap, ~errors', NoneCrashed', AnsweredAlike' PROVE RunInv'
      BY <2>3 DEF SequentialInv
    <3>1. RunInv
      BY <2>3, <2>4 DEF SequentialRunInv, SequentialInv
    <3> QED BY <2>1, <3>1, SequentialStep DEF SequentialRunInv
  <2> QED BY <2>2, <2>3, <2>5 DEF SequentialRunInv
<1>3. SequentialRunInv => SequentialRunsReplay
  <2> SUFFICES ASSUME SequentialRunInv, verdict = "refused", ~program.overlap, NothingCrashed,
                      ToolsAnswerAlike
               PROVE  FALSE
    BY DEF SequentialRunsReplay
  <2>1. ~IsLive /\ ~errors
    BY DEF SequentialRunInv, NothingJudgedEarly
  <2>2. RunRows = Recorded.head /\ RunRows \in Seq(LedgerRow)
    BY <2>1, RunTypes DEF SequentialRunInv, RecordingInv, SessionInv, RunRows
  <2>3. NoneCrashed /\ AnsweredAlike
    BY <2>1, <2>2 DEF NothingCrashed, NoneCrashed, AnsweredAlike
  <2> QED BY <2>1, <2>3 DEF SequentialRunInv, SequentialInv, RunInv, NotRefused
<1> QED BY <1>1, <1>2, <1>3, PTL DEF Spec

-----------------------------------------------------------------------------
(* The times of a ledger (Ledger).                                           *)

TimedRow == [tick : Nat, latency : Nat, elapsed : Nat]

LedgerTypeOK ==
  /\ clock \in Nat
  /\ rows \in Seq(TimedRow)
  /\ originMs \in Int
  /\ lastMs \in Int
  /\ observed \in Seq(TimedRow)

\* The time of the latest batch is what its rows say, counted from the origin:
\* this is what makes the times of the next batch add up.
TimesAddUp == lastMs = originMs + LastElapsed(rows)

\* The observer has the last rows.
ObservedTail ==
  /\ Len(observed) <= Len(rows)
  /\ \A i \in 1..Len(observed) : observed[i] = rows[Len(rows) - Len(observed) + i]

LedgerInv == LedgerTypeOK /\ Accepts(rows) /\ TimesAddUp /\ ObservedTail

-----------------------------------------------------------------------------
LEMMA LastElapsedType ==
  ASSUME NEW given \in Seq(TimedRow)
  PROVE  LastElapsed(given) \in Nat
<1>1. CASE given = << >> BY <1>1 DEF LastElapsed
<1>2. CASE given # << >>
  <2>1. Len(given) \in 1..Len(given) BY <1>2
  <2>2. given[Len(given)] \in TimedRow BY <2>1, ElementOfSeq
  <2> QED BY <1>2, <2>2 DEF LastElapsed, TimedRow
<1> QED BY <1>1, <1>2

\* A batch in full: its first row carries the time since the last batch, and
\* all of them the time since the origin.
LEMMA BatchRows ==
  ASSUME LedgerInv, NEW n \in Nat \ {0}
  PROVE  /\ BatchTime \in Int /\ BatchTime >= lastMs /\ BatchTime >= originMs
         /\ \A i \in 1..n :
              /\ BatchRow(i) \in TimedRow
              /\ BatchRow(i).tick = Len(rows) + i - 1
              /\ BatchRow(i).elapsed = BatchTime - originMs
              /\ BatchRow(i).latency = IF i = 1 THEN BatchTime - lastMs ELSE 0
<1>1. /\ clock \in Nat /\ originMs \in Int /\ lastMs \in Int /\ Len(rows) \in Nat
      /\ LastElapsed(rows) \in Nat /\ lastMs = originMs + LastElapsed(rows)
  BY LastElapsedType DEF LedgerInv, LedgerTypeOK, TimesAddUp
<1>2. BatchTime \in Int /\ BatchTime >= lastMs /\ BatchTime >= originMs
  BY <1>1 DEF BatchTime
<1>3. AtLeast0(BatchTime - lastMs) = BatchTime - lastMs
      /\ AtLeast0(BatchTime - originMs) = BatchTime - originMs
  BY <1>1, <1>2 DEF AtLeast0
<1> QED BY <1>1, <1>2, <1>3 DEF BatchRow, TimedRow

\* Rows that are accepted stay accepted when a batch follows them.
LEMMA BatchAccepted ==
  ASSUME LedgerInv, NEW n \in Nat \ {0}, AppendBatch(n)
  PROVE  LedgerInv'
<1> DEFINE batch == [i \in 1..n |-> BatchRow(i)]
<1> PICK m \in Nat : m = Len(rows) BY DEF LedgerInv, LedgerTypeOK
<1>1. /\ rows \in Seq(TimedRow) /\ observed \in Seq(TimedRow)
      /\ originMs \in Int /\ lastMs \in Int /\ clock \in Nat
      /\ LastElapsed(rows) \in Nat /\ lastMs = originMs + LastElapsed(rows)
  BY LastElapsedType DEF LedgerInv, LedgerTypeOK, TimesAddUp
<1>2. batch \in Seq(TimedRow) /\ Len(batch) = n /\ \A i \in 1..n : batch[i] = BatchRow(i)
  BY BatchRows
<1>3. /\ rows' = rows \o batch /\ observed' = observed \o batch
      /\ lastMs' = BatchTime /\ clock' = clock /\ originMs' = originMs
  BY DEF AppendBatch
<1> HIDE DEF batch
<1>4. /\ rows' \in Seq(TimedRow) /\ Len(rows') = m + n
      /\ \A i \in 1..m : rows'[i] = rows[i]
      /\ \A i \in 1..n : rows'[m + i] = BatchRow(i)
  <2>1. /\ rows \o batch \in Seq(TimedRow) /\ Len(rows \o batch) = m + n
        /\ \A i \in 1..(m + n) : (rows \o batch)[i] = IF i <= m THEN rows[i] ELSE batch[i - m]
    BY <1>1, <1>2, ConcatProperties
  <2>2. \A i \in 1..n : m + i \in 1..(m + n) /\ ~(m + i <= m) /\ m + i - m = i
    OBVIOUS
  <2> QED BY <1>2, <1>3, <2>1, <2>2
<1>5. LedgerTypeOK'
  <2>1. BatchTime \in Int BY BatchRows
  <2>2. observed' \in Seq(TimedRow) BY <1>1, <1>2, <1>3, ConcatProperties
  <2> QED BY <1>1, <1>3, <1>4, <2>1, <2>2 DEF LedgerTypeOK
<1>6. TimesAddUp'
  <2>1. rows'[m + n].elapsed = BatchTime - originMs
    <3>1. n \in 1..n
      OBVIOUS
    <3>2. rows'[m + n] = BatchRow(n)
      BY <1>4, <3>1
    <3>3. BatchRow(n).elapsed = BatchTime - originMs
      BY <3>1, BatchRows
    <3> QED BY <3>2, <3>3
  <2>2. rows' # << >> /\ LastElapsed(rows') = BatchTime - originMs
    BY <1>4, <2>1 DEF LastElapsed
  <2>3. BatchTime \in Int BY BatchRows
  <2> QED BY <1>1, <1>3, <2>2, <2>3 DEF TimesAddUp
<1>7. ObservedTail'
  <2>1. Len(observed) \in Nat /\ Len(observed) <= m
        /\ \A i \in 1..Len(observed) : observed[i] = rows[m - Len(observed) + i]
    BY <1>1, SMTT(30) DEF LedgerInv, ObservedTail
  <2>2. Len(observed') = Len(observed) + n
        /\ (\A i \in 1..Len(observed) : observed'[i] = observed[i])
        /\ \A i \in 1..n : observed'[Len(observed) + i] = BatchRow(i)
    <3> PICK k \in Nat : k = Len(observed) BY <1>1
    <3>1. /\ Len(observed \o batch) = k + n
          /\ \A i \in 1..(k + n) :
               (observed \o batch)[i] = IF i <= k THEN observed[i] ELSE batch[i - k]
      BY <1>1, <1>2, ConcatProperties
    <3>2. \A i \in 1..n : k + i \in 1..(k + n) /\ ~(k + i <= k) /\ k + i - k = i
      OBVIOUS
    <3> QED BY <1>2, <1>3, <3>1, <3>2
  <2>3. SUFFICES ASSUME NEW i \in 1..Len(observed')
                 PROVE  observed'[i] = rows'[Len(rows') - Len(observed') + i]
    BY <1>4, <2>1, <2>2 DEF ObservedTail
  <2>4. Len(rows') - Len(observed') = m - Len(observed) BY <1>4, <2>1, <2>2
  <2>5. CASE i \in 1..Len(observed)
    <3>1. m - Len(observed) + i \in 1..m BY <2>1, <2>5
    <3> QED BY <1>4, <2>1, <2>2, <2>4, <2>5, <3>1
  <2>6. CASE i \notin 1..Len(observed)
    <3>1. PICK j \in 1..n : i = Len(observed) + j
      <4>1. i - Len(observed) \in 1..n BY <2>1, <2>2, <2>6
      <4>2. i = Len(observed) + (i - Len(observed)) BY <2>1, <2>2
      <4> QED BY <4>1, <4>2
    <3>2. m - Len(observed) + i = m + j BY <2>1, <3>1
    <3> QED BY <1>4, <2>2, <2>4, <3>1, <3>2
  <2> QED BY <2>5, <2>6
<1>8. Accepts(rows')
  <2>1. \A i \in 1..m : ElapsedBefore(rows', i) = ElapsedBefore(rows, i)
    BY <1>4 DEF ElapsedBefore
  <2>2. ElapsedBefore(rows', m + 1) = LastElapsed(rows)
    BY <1>1, <1>4 DEF ElapsedBefore, LastElapsed
  <2>3. \A j \in 2..n : ElapsedBefore(rows', m + j) = BatchTime - originMs
    <3> SUFFICES ASSUME NEW j \in 2..n
                 PROVE  ElapsedBefore(rows', m + j) = BatchTime - originMs
      OBVIOUS
    <3>1. m + j # 1 /\ j - 1 \in 1..n /\ m + j - 1 = m + (j - 1) OBVIOUS
    <3>2. ElapsedBefore(rows', m + j) = rows'[m + (j - 1)].elapsed
      BY <3>1 DEF ElapsedBefore
    <3>3. BatchRow(j - 1).elapsed = BatchTime - originMs BY <3>1, BatchRows
    <3> QED BY <1>4, <3>1, <3>2, <3>3
  <2>4. SUFFICES ASSUME NEW i \in 1..(m + n)
                 PROVE  /\ rows'[i].tick = i - 1
                        /\ rows'[i].latency >= 0 /\ rows'[i].elapsed >= 0
                        /\ rows'[i].elapsed >= ElapsedBefore(rows', i)
                        /\ rows'[i].latency <= rows'[i].elapsed
                        /\ rows'[i].latency = rows'[i].elapsed - ElapsedBefore(rows', i)
    BY <1>4 DEF Accepts
  <2>5. CASE i \in 1..m
    <3>1. rows'[i] = rows[i] /\ i \in DOMAIN rows BY <1>1, <1>4, <2>5
    <3> QED BY <2>1, <2>5, <3>1 DEF LedgerInv, Accepts
  <2>6. CASE i = m + 1
    <3>1. rows'[i] = BatchRow(1) BY <1>4, <2>6
    <3>2. 1 \in 1..n OBVIOUS
    <3>3. /\ BatchRow(1).tick = m
          /\ BatchRow(1).elapsed = BatchTime - originMs
          /\ BatchRow(1).latency = BatchTime - lastMs
          /\ BatchTime \in Int /\ BatchTime >= lastMs
      BY <3>2, BatchRows
    <3>4. PICK e : e = LastElapsed(rows) OBVIOUS
    <3>5. e \in Nat /\ lastMs - originMs = e BY <1>1, <3>4
    <3>6. ElapsedBefore(rows', i) = e BY <2>2, <2>6, <3>4
    <3>7. /\ rows'[i].tick = i - 1
          /\ rows'[i].elapsed = BatchTime - originMs
          /\ rows'[i].latency = BatchTime - lastMs
      BY <2>6, <3>1, <3>3
    <3>8. PICK b \in Int, l \in Int, o \in Int : b = BatchTime /\ l = lastMs /\ o = originMs
      BY <1>1, <3>3
    <3>9. b >= l /\ l - o = e /\ e >= 0 BY <3>3, <3>5, <3>8
    <3>10. b - l >= 0 /\ b - o >= e /\ b - l <= b - o /\ b - l = b - o - e BY <3>9
    <3>11. rows'[i].elapsed = b - o /\ rows'[i].latency = b - l BY <3>7, <3>8
    <3>12. b - o >= 0 BY <3>9
    <3> QED BY <3>6, <3>7, <3>10, <3>11, <3>12
  <2>7. CASE i \in (m + 2)..(m + n)
    <3>1. PICK j \in 2..n : i = m + j
      <4>1. i - m \in 2..n BY <2>7
      <4>2. i = m + (i - m) OBVIOUS
      <4> QED BY <4>1, <4>2
    <3>2. rows'[i] = BatchRow(j) BY <1>4, <3>1
    <3>3. j \in 1..n /\ j # 1 OBVIOUS
    <3>4. /\ BatchRow(j).tick = m + j - 1
          /\ BatchRow(j).elapsed = BatchTime - originMs
          /\ BatchRow(j).latency = 0
          /\ BatchTime \in Int /\ BatchTime >= originMs
      BY <3>3, BatchRows
    <3>5. ElapsedBefore(rows', i) = BatchTime - originMs BY <2>3, <3>1
    <3>6. rows'[i].tick = i - 1 BY <3>1, <3>2, <3>4
    <3>7. rows'[i].elapsed = BatchTime - originMs /\ rows'[i].latency = 0 BY <3>2, <3>4
    <3>8. BatchTime - originMs \in Int /\ BatchTime - originMs >= 0 BY <1>1, <3>4
    <3> HIDE <3>4
    <3> QED BY <3>5, <3>6, <3>7, <3>8
  <2> QED BY <2>5, <2>6, <2>7
<1> QED BY <1>5, <1>6, <1>7, <1>8 DEF LedgerInv

\* A prefix of accepted rows is accepted, with its times and without.
LEMMA PrefixAccepted ==
  ASSUME NEW all \in Seq(TimedRow), Accepts(all), NEW n \in 0..Len(all)
  PROVE  /\ SubSeq(all, 1, n) \in Seq(TimedRow) /\ Accepts(SubSeq(all, 1, n))
         /\ Timeless(SubSeq(all, 1, n)) \in Seq(TimedRow) /\ Accepts(Timeless(SubSeq(all, 1, n)))
<1> PICK given : given = SubSeq(all, 1, n) OBVIOUS
<1>1. /\ given \in Seq(TimedRow) /\ Len(given) = n
      /\ \A i \in 1..n : given[i] = all[i] /\ all[i] \in TimedRow
      /\ DOMAIN all = 1..Len(all) /\ DOMAIN given = 1..n
  <2>1. \A i \in 1..n : all[i] \in TimedRow BY ElementOfSeq
  <2> QED BY <2>1, SubSeqProperties, LenProperties
<1>2. Accepts(given)
  <2>1. SUFFICES ASSUME NEW i \in 1..n
                 PROVE  /\ given[i].tick = i - 1
                        /\ given[i].latency >= 0 /\ given[i].elapsed >= 0
                        /\ given[i].elapsed >= ElapsedBefore(given, i)
                        /\ given[i].latency <= given[i].elapsed
                        /\ given[i].latency = given[i].elapsed - ElapsedBefore(given, i)
    BY <1>1 DEF Accepts
  <2>2. ElapsedBefore(given, i) = ElapsedBefore(all, i)
    BY <1>1 DEF ElapsedBefore
  <2>3. i \in DOMAIN all BY <1>1
  <2> QED BY <1>1, <2>2, <2>3 DEF Accepts
<1>3. Timeless(given) \in Seq(TimedRow) /\ Accepts(Timeless(given))
  <2> PICK late : late = Timeless(given)
    BY Zenon
  <2>1. /\ late = [i \in 1..n |-> [given[i] EXCEPT !.latency = 0, !.elapsed = 0]]
    BY <1>1 DEF Timeless
  <2>2. \A i \in 1..n : /\ late[i] \in TimedRow /\ late[i].tick = i - 1
                        /\ late[i].latency = 0 /\ late[i].elapsed = 0
    <3>1. SUFFICES ASSUME NEW i \in 1..n
                   PROVE  /\ late[i] \in TimedRow /\ late[i].tick = i - 1
                          /\ late[i].latency = 0 /\ late[i].elapsed = 0
      OBVIOUS
    <3>2. given[i] \in TimedRow /\ given[i].tick = i - 1
      BY <1>1, <1>2 DEF Accepts
    <3>3. late[i] = [given[i] EXCEPT !.latency = 0, !.elapsed = 0] BY <2>1
    <3>4. given[i].tick \in Nat /\ DOMAIN given[i] = {"tick", "latency", "elapsed"}
      BY <3>2 DEF TimedRow
    <3>5. late[i] = [tick |-> given[i].tick, latency |-> 0, elapsed |-> 0]
      BY <3>2, <3>3 DEF TimedRow
    <3>6. [tick |-> given[i].tick, latency |-> 0, elapsed |-> 0] \in TimedRow
      BY <3>4 DEF TimedRow
    <3> QED BY <3>2, <3>5, <3>6
  <2>3. late \in Seq(TimedRow) /\ DOMAIN late = 1..n
    <3>1. late \in [1..n -> TimedRow] BY <2>1, <2>2
    <3> QED BY <3>1
  <2>4. \A i \in 1..n : ElapsedBefore(late, i) = 0
    BY <2>2 DEF ElapsedBefore
  <2>5. Accepts(late) BY <2>2, <2>3, <2>4 DEF Accepts
  <2> QED BY <2>3, <2>5
<1> QED BY <1>1, <1>2, <1>3

LEMMA RestoreAccepted ==
  ASSUME LedgerInv, NEW given \in Truncations, Restore(given)
  PROVE  LedgerInv'
<1>1. given \in Seq(TimedRow)
  BY PrefixAccepted DEF LedgerInv, LedgerTypeOK, Truncations
<1>2. LastElapsed(given) \in Nat BY <1>1, LastElapsedType
<1>3. /\ rows' = given /\ originMs' = clock - LastElapsed(given) /\ lastMs' = clock
      /\ observed' = << >> /\ clock' = clock /\ Accepts(given)
  BY DEF Restore
<1>4. LedgerTypeOK' BY <1>1, <1>2, <1>3 DEF LedgerInv, LedgerTypeOK
<1>5. TimesAddUp' BY <1>2, <1>3 DEF LedgerInv, LedgerTypeOK, TimesAddUp
<1>6. ObservedTail' BY <1>1, <1>3 DEF ObservedTail
<1> QED BY <1>3, <1>4, <1>5, <1>6 DEF LedgerInv

-----------------------------------------------------------------------------
LEMMA LedgerInvInit == LedgerInit => LedgerInv
<1> SUFFICES ASSUME LedgerInit PROVE LedgerInv OBVIOUS
<1> USE LedgerAssumption DEF LedgerInit
<1>1. LedgerTypeOK BY DEF LedgerTypeOK
<1>2. Accepts(rows) BY DEF Accepts
<1>3. TimesAddUp BY DEF TimesAddUp, LastElapsed
<1>4. ObservedTail BY DEF ObservedTail
<1> QED BY <1>1, <1>2, <1>3, <1>4 DEF LedgerInv

LEMMA LedgerInvStep == LedgerInv /\ [LedgerNext]_ledgerVars => LedgerInv'
<1> SUFFICES ASSUME LedgerInv, [LedgerNext]_ledgerVars PROVE LedgerInv' OBVIOUS
<1>1. CASE UNCHANGED ledgerVars
  BY <1>1 DEF ledgerVars, LedgerInv, LedgerTypeOK, TimesAddUp, ObservedTail
<1>2. CASE ClockMoves
  <2>1. clock' \in Nat BY <1>2, LedgerAssumption DEF ClockMoves
  <2> QED BY <1>2, <2>1 DEF ClockMoves, LedgerInv, LedgerTypeOK, TimesAddUp, ObservedTail
<1>3. ASSUME NEW n \in 1..MaxBatch, AppendBatch(n) PROVE LedgerInv'
  <2>1. n \in Nat \ {0} BY LedgerAssumption
  <2> QED BY <1>3, <2>1, BatchAccepted
<1>4. ASSUME NEW given \in Truncations, Restore(given) PROVE LedgerInv'
  BY <1>4, RestoreAccepted
<1> QED BY <1>1, <1>2, <1>3, <1>4 DEF LedgerNext

LEMMA LedgerInvRestores == LedgerInv => LedgerRestores
<1> SUFFICES ASSUME LedgerInv PROVE LedgerRestores OBVIOUS
<1>1. rows \in Seq(TimedRow) /\ observed \in Seq(TimedRow)
  BY DEF LedgerInv, LedgerTypeOK
<1>2. \A given \in Truncations : Accepts(given)
  BY <1>1, PrefixAccepted DEF LedgerInv, Truncations
<1>3. TimingAccepted(rows)
  BY DEF LedgerInv, Accepts, TimingAccepted
<1>4. ObservesOwnRows
  <2> PICK n \in Nat : n = Len(rows) BY <1>1
  <2> PICK m \in Nat : m = Len(observed) BY <1>1
  <2>1. m <= n /\ \A i \in 1..m : observed[i] = rows[n - m + i]
    BY DEF LedgerInv, ObservedTail
  <2>2. \A i \in (n - m + 1)..n : rows[i] \in TimedRow
    BY <1>1, <2>1, ElementOfSeq
  <2> PICK tail : tail = SubSeq(rows, n - m + 1, n) OBVIOUS
  <2>3. /\ tail \in Seq(TimedRow) /\ Len(tail) = m
        /\ \A i \in 1..m : tail[i] = rows[n - m + 1 + i - 1]
    BY <2>1, <2>2, SubSeqProperties
  <2>4. \A i \in 1..m : tail[i] = observed[i] BY <2>1, <2>3
  <2>5. observed = tail BY <1>1, <2>3, <2>4, SeqEqual
  <2>6. n - m \in 0..Len(rows) BY <2>1
  <2> QED BY <2>5, <2>6 DEF ObservesOwnRows
<1> QED BY <1>2, <1>3, <1>4 DEF LedgerRestores, RowsAreAccepted

\* A ledger is restored from any prefix of the rows it wrote, and its observer
\* is told of the rows of its session once and in order, wherever the clock of
\* the system is set between two batches.
THEOREM Restorable == LedgerSpec => []LedgerRestores
BY LedgerInvInit, LedgerInvStep, LedgerInvRestores, PTL DEF LedgerSpec
=============================================================================
