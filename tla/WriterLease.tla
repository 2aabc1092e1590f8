---------------------------- MODULE WriterLease ----------------------------
(***************************************************************************)
(* The writer lease of a durable memory directory                          *)
(* (named_memory_markdown.ts, acquireLease): a file writer.lock that is    *)
(* created with link(2), so that only one process can create it, and that  *)
(* another process may take over once its owner is dead.  A takeover is an *)
(* election: the candidates for one stale lease publish claim files, wait, *)
(* and the live one with the smallest token removes the stale lease and    *)
(* links its own.                                                          *)
(*                                                                         *)
(* An opening stands for one process and its random token; tokens are      *)
(* ordered as the openings are.  Every action ends where the code awaits   *)
(* the file system.  Writing a lease into a temporary file before it is    *)
(* linked, and the removal of orphaned temporaries, touch nothing shared   *)
(* and are left out; so is a platform without process start markers, where *)
(* a reused process id makes a dead owner look alive.                      *)
(***************************************************************************)
EXTENDS Naturals, FiniteSets

CONSTANTS
  Opens,      (* openings of the directory, ordered as their tokens        *)
  Timely      (* whether the 40 ms wait outlasts the other processes'      *)
              (* steps between two looks at the directory                  *)

ASSUME LeaseAssumption == Opens \subseteq Nat \ {0} /\ Timely \in BOOLEAN

NoOne == 0

VARIABLES
  lock,       (* the opening whose token writer.lock holds, or NoOne       *)
  claims,     (* claim files: the stale lease claimed, and by whom         *)
  phase,      (* what each opening is about to do                          *)
  stale,      (* the lease each candidate found stale                      *)
  seen,       (* the claims each candidate found in the directory          *)
  raced       (* auxiliary: a lease was removed by an opening that had     *)
              (* examined another one                                      *)

leaseVars == <<lock, claims, phase, stale, seen, raced>>

Phases ==
  {"absent", "reading", "contending", "waiting", "listing", "electing", "taking",
   "relinking", "settling", "held", "releasing", "withdrawing", "failed", "released", "dead"}

LeaseTypeOK ==
  /\ lock \in Opens \cup {NoOne}
  /\ claims \subseteq [of : Opens, by : Opens]
  /\ phase \in [Opens -> Phases]
  /\ stale \in [Opens -> Opens \cup {NoOne}]
  /\ seen \in [Opens -> SUBSET Opens]
  /\ raced \in BOOLEAN

LeaseInit ==
  /\ lock = NoOne
  /\ claims = {}
  /\ phase = [p \in Opens |-> "absent"]
  /\ stale = [p \in Opens |-> NoOne]
  /\ seen = [p \in Opens |-> {}]
  /\ raced = FALSE

\* leaseOwnerAlive: the process exists, whatever became of its opening.
Alive(p) == phase[p] # "dead"

\* Openings that hold the lease as far as they know.
Holders == {p \in Opens : phase[p] \in {"settling", "held", "releasing"}}

Goes(p, next) == phase' = [phase EXCEPT ![p] = next]

\* The opening gives up or is over: what it found is of no use any more.
Ends(p, how) ==
  /\ Goes(p, how)
  /\ stale' = [stale EXCEPT ![p] = NoOne]
  /\ seen' = [seen EXCEPT ![p] = {}]

Claim(p) == [of |-> stale[p], by |-> p]

-----------------------------------------------------------------------------
(* acquireLease, up to the claim.                                          *)

\* link fails when the lock is there.
Acquire(p) ==
  /\ phase[p] = "absent"
  /\ IF lock = NoOne
     THEN lock' = p /\ Goes(p, "held")
     ELSE UNCHANGED lock /\ Goes(p, "reading")
  /\ UNCHANGED <<claims, stale, seen, raced>>

\* readLease throws when the lock is gone by now.
ReadLock(p) ==
  /\ phase[p] = "reading"
  /\ IF lock = NoOne
     THEN Ends(p, "failed")
     ELSE /\ stale' = [stale EXCEPT ![p] = lock]
          /\ Goes(p, "contending")
          /\ UNCHANGED seen
  /\ UNCHANGED <<lock, claims, raced>>

\* The owner is probed, and a claim on its lease published when it is dead.
Contend(p) ==
  /\ phase[p] = "contending"
  /\ IF Alive(stale[p])
     THEN UNCHANGED claims /\ Ends(p, "failed")
     ELSE /\ claims' = claims \cup {Claim(p)}
          /\ Goes(p, "waiting")
          /\ UNCHANGED <<stale, seen>>
  /\ UNCHANGED <<lock, raced>>

-----------------------------------------------------------------------------
(* The election.                                                           *)

\* Steps that are brief: from reading a stale lease to publishing the claim,
\* and from listing the claims to linking the new lease.
Brief == {"contending", "electing", "taking", "relinking"}

\* After the wait the lock must still hold the claimed lease.
Waited(p) ==
  /\ phase[p] = "waiting"
  /\ Timely => \A q \in Opens : phase[q] \notin Brief
  /\ IF lock = stale[p] THEN Goes(p, "listing") ELSE Goes(p, "withdrawing")
  /\ UNCHANGED <<lock, claims, stale, seen, raced>>

ListClaims(p) ==
  /\ phase[p] = "listing"
  /\ seen' = [seen EXCEPT ![p] = {c.by : c \in {d \in claims : d.of = stale[p]}}]
  /\ Goes(p, "electing")
  /\ UNCHANGED <<lock, claims, stale, raced>>

DeadClaims(p) == {c \in claims : c.of = stale[p] /\ c.by \in seen[p] /\ ~Alive(c.by)}

\* The first live contender wins.
Wins(p) == \A q \in seen[p] : q < p => ~Alive(q)

\* A claim that was listed is gone when it is read.
Vanished(p) == \E q \in seen[p] : [of |-> stale[p], by |-> q] \notin claims

\* The claims are read one by one and those of dead processes removed.
Elect(p) ==
  /\ phase[p] = "electing"
  /\ \/ Wins(p) /\ Goes(p, "taking")
     \/ (~Wins(p) \/ Vanished(p)) /\ Goes(p, "withdrawing")
  /\ claims' = claims \ DeadClaims(p)
  /\ seen' = [seen EXCEPT ![p] = {}]
  /\ UNCHANGED <<lock, stale, raced>>

\* unlink removes whatever lease the lock file holds by now.
Removes(p, examined) ==
  /\ lock' = NoOne
  /\ raced' = (raced \/ lock \notin {NoOne, examined})

TakeOver(p) ==
  /\ phase[p] = "taking"
  /\ Removes(p, stale[p])
  /\ Goes(p, IF lock = NoOne THEN "withdrawing" ELSE "relinking")
  /\ UNCHANGED <<claims, stale, seen>>

Relink(p) ==
  /\ phase[p] = "relinking"
  /\ IF lock = NoOne
     THEN lock' = p /\ Goes(p, "settling")
     ELSE UNCHANGED lock /\ Goes(p, "withdrawing")
  /\ UNCHANGED <<claims, stale, seen, raced>>

\* The claim is dropped on every way out of the election.
DropClaim(p) ==
  /\ phase[p] \in {"settling", "withdrawing"}
  /\ claims' = claims \ {Claim(p)}
  /\ Ends(p, IF phase[p] = "settling" THEN "held" ELSE "failed")
  /\ UNCHANGED <<lock, raced>>

-----------------------------------------------------------------------------
(* close, a failed open, and crashes.                                      *)

\* close throws, and leaves the driver open, when the lease is another's.
Release(p) ==
  /\ phase[p] = "held"
  /\ lock = p
  /\ Goes(p, "releasing")
  /\ UNCHANGED <<lock, claims, stale, seen, raced>>

ReleaseUnlinks(p) ==
  /\ phase[p] = "releasing"
  /\ Removes(p, p)
  /\ Goes(p, "released")
  /\ UNCHANGED <<claims, stale, seen>>

\* open failed after the lease was acquired: it is removed unexamined.
Abandon(p) ==
  /\ phase[p] = "held"
  /\ Removes(p, p)
  /\ Goes(p, "failed")
  /\ UNCHANGED <<claims, stale, seen>>

CrashLease(p) ==
  /\ phase[p] \notin {"absent", "failed", "released", "dead"}
  /\ Ends(p, "dead")
  /\ UNCHANGED <<lock, claims, raced>>

\* What an opening does until it holds the lease or gives up.
AcquireStep(p) ==
  \/ Acquire(p) \/ ReadLock(p) \/ Contend(p) \/ Waited(p) \/ ListClaims(p)
  \/ Elect(p) \/ TakeOver(p) \/ Relink(p) \/ DropClaim(p)

LeaseNext ==
  \E p \in Opens :
    AcquireStep(p) \/ Release(p) \/ ReleaseUnlinks(p) \/ Abandon(p) \/ CrashLease(p)

LeaseSpec == LeaseInit /\ [][LeaseNext]_leaseVars

-----------------------------------------------------------------------------
\* While nobody removes a lease it has not examined, whoever holds the lease is
\* the process the file names: no close, failed open, crash or takeover leaves
\* two holders or takes the lease from a live one.
HolderHasLease == ~raced => \A p \in Holders : lock = p

\* At most one live process holds the lease: "an exclusive writer lease so
\* two runtimes cannot fork one durable revision".
ExclusiveLease == \A p, q \in Holders : p = q
=============================================================================
