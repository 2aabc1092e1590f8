--------------------------- MODULE EvidenceStore ---------------------------
(* FileProtectedEvidenceStore (protected_evidence.ts): three files for each  *)
(* reference, `.evidence`, `.binding` and the deletion marker, and calls     *)
(* that look at them and create them one await at a time.  A reference is a  *)
(* MAC of owner, scope and content, so its evidence is always the same       *)
(* record; what can differ is the decision it is bound to.                   *)
EXTENDS Naturals, FiniteSets

CONSTANTS
    Refs,           \* references of evidence
    Calls,          \* slots for concurrent calls of the store
    MaxFaults,      \* bound: file system calls that fail, and crashes
    MaxTokens,      \* bound: authorizations valid at a time
    NoId            \* no decision

ASSUME StoreConstants == MaxFaults \in Nat /\ MaxTokens \in Nat

VARIABLES
    evidence,       \* references with an .evidence file
    binding,        \* reference -> decision of the .binding file, or NoId
    deleted,        \* references with a deletion marker
    store,          \* "open", "reconciling" or "closed"
    tokens,         \* authorizations issued and not expired
    call,           \* slot -> the call it runs and the await it is at
    answer,         \* slot -> how its last call ended
    lost,           \* aux: a cleanup of the reference was interrupted
    faults

storeVars == <<evidence, binding, deleted, store, tokens, call, answer,
               lost, faults>>

Operations == {"retain", "bind", "authorize", "inspect", "export", "delete"}
Steps == {"idle", "marker?", "evidence?", "binding?", "create", "final?",
          "removeEvidence", "removeBinding"}
Answers == {"none", "ok", "Unavailable", "Mismatch", "Forbidden", "failed"}

Tokens(Ids) == [op : {"inspect", "export", "delete"}, ref : Refs, id : Ids]

Idle == [op |-> "none", ref |-> "none", id |-> NoId, replay |-> FALSE,
         step |-> "idle"]

Running(c) == call[c].step # "idle"

StoreInit ==
    /\ evidence = {} /\ deleted = {}
    /\ binding = [r \in Refs |-> NoId]
    /\ store = "open"
    /\ tokens = {}
    /\ call = [c \in Calls |-> Idle]
    /\ answer = [c \in Calls |-> "none"]
    /\ lost = {}
    /\ faults = 0

-----------------------------------------------------------------------------
\* Starting a call.  The synchronous part rejects a request whose
\* authorization does not cover it before the first await.
Covers(op, r, d) == [op |-> op, ref |-> r, id |-> d] \in tokens

Admits(op, r, d) == op \in {"inspect", "export", "delete"} => Covers(op, r, d)

Start(c, op, r, d, again) ==
    /\ store = "open" /\ ~Running(c)
    /\ IF Admits(op, r, d)
       THEN /\ call' = [call EXCEPT ![c] =
                  [op |-> op, ref |-> r, id |-> d, replay |-> again,
                   step |-> "marker?"]]
            /\ answer' = [answer EXCEPT ![c] = "none"]
       ELSE /\ answer' = [answer EXCEPT ![c] = "Forbidden"]
            /\ UNCHANGED call
    /\ UNCHANGED <<evidence, binding, deleted, store, tokens, lost, faults>>

Goto(c, s) == call' = [call EXCEPT ![c].step = s] /\ UNCHANGED answer

Return(c, a) ==
    /\ call' = [call EXCEPT ![c] = Idle]
    /\ answer' = [answer EXCEPT ![c] = a]

Kept == UNCHANGED <<store, lost, faults>>

\* assertNotDeleted.
LookAtMarker(c) ==
    /\ call[c].step = "marker?"
    /\ IF call[c].ref \in deleted THEN Return(c, "Unavailable")
                                  ELSE Goto(c, "evidence?")
    /\ UNCHANGED <<evidence, binding, deleted, tokens>> /\ Kept

\* readOptional of the evidence: retain creates it, the others need it.
Present(r) == r \in evidence

LookAtEvidence(c) ==
    LET k == call[c] IN
    /\ k.step = "evidence?"
    /\ IF k.op = "retain"
       THEN IF Present(k.ref) THEN Goto(c, "final?")
            ELSE IF k.replay THEN Return(c, "Unavailable")
                             ELSE Goto(c, "create")
       ELSE IF Present(k.ref) THEN Goto(c, "binding?")
                              ELSE Return(c, "Unavailable")
    /\ UNCHANGED <<evidence, binding, deleted, tokens>> /\ Kept

\* What a call does with the binding it found.
AnyDecision(r, d) == TRUE \* mutant
BoundTo(r, d) == binding[r] = d
Unbound(r) == binding[r] = NoId

LookAtBinding(c) ==
    LET k == call[c] IN
    /\ k.step = "binding?"
    /\ IF Unbound(k.ref)
       THEN /\ IF k.op = "bind" /\ ~k.replay THEN Goto(c, "create")
                                             ELSE Return(c, "Unavailable")
            /\ UNCHANGED tokens
       ELSE IF ~BoundTo(k.ref, k.id)
       THEN Return(c, "Mismatch") /\ UNCHANGED tokens
       ELSE /\ Goto(c, IF k.op = "delete" THEN "create" ELSE "final?")
            /\ IF k.op = "authorize" /\ Cardinality(tokens) < MaxTokens
               THEN \E o \in {"inspect", "export", "delete"} :
                       tokens' = tokens \cup {[op |-> o, ref |-> k.ref, id |-> k.id]}
               ELSE UNCHANGED tokens
    /\ UNCHANGED <<evidence, binding, deleted>> /\ Kept

\* atomicCreate: the link fails when the file exists.
Creates(k) ==
    CASE k.op = "retain" -> /\ k.ref \notin evidence
                            /\ evidence' = evidence \cup {k.ref}
                            /\ UNCHANGED <<binding, deleted>>
      [] k.op = "bind"   -> /\ Unbound(k.ref)
                            /\ binding' = [binding EXCEPT ![k.ref] = k.id]
                            /\ UNCHANGED <<evidence, deleted>>
      [] k.op = "delete" -> /\ k.ref \notin deleted
                            /\ deleted' = deleted \cup {k.ref}
                            /\ UNCHANGED <<evidence, binding>>

Exists(k) ==
    CASE k.op = "retain" -> k.ref \in evidence
      [] k.op = "bind"   -> ~Unbound(k.ref)
      [] OTHER           -> k.ref \in deleted

AfterCreate(op) == IF op = "delete" THEN "removeEvidence" ELSE "final?"

Create(c) ==
    LET k == call[c] IN
    /\ k.step = "create"
    /\ \/ Creates(k) /\ Goto(c, AfterCreate(k.op))
       \/ /\ Exists(k)
          /\ Return(c, IF k.op = "delete" THEN "Unavailable" ELSE "Mismatch")
          /\ UNCHANGED <<evidence, binding, deleted>>
    /\ UNCHANGED tokens /\ Kept

\* finalDeletionCheck: an answer is only given while the reference is not
\* deleted; a call that may have created a file after the deletion cleans up.
CleansUp(op) == op \in {"retain", "bind"}

Finally(c) ==
    LET k == call[c] IN
    /\ k.step = "final?"
    /\ IF k.ref \notin deleted THEN Return(c, "ok")
       ELSE IF CleansUp(k.op) THEN Goto(c, "removeEvidence")
                              ELSE Return(c, "Unavailable")
    /\ UNCHANGED <<evidence, binding, deleted, tokens>> /\ Kept

\* cleanupDeleted: two files, one after the other.
RemoveEvidence(c) ==
    /\ call[c].step = "removeEvidence"
    /\ evidence' = evidence \ {call[c].ref}
    /\ Goto(c, "removeBinding")
    /\ UNCHANGED <<binding, deleted, tokens>> /\ Kept

RemoveBinding(c) ==
    /\ call[c].step = "removeBinding"
    /\ binding' = [binding EXCEPT ![call[c].ref] = NoId]
    /\ Return(c, IF call[c].op = "delete" THEN "ok" ELSE "Unavailable")
    /\ UNCHANGED <<evidence, deleted, tokens>> /\ Kept

\* A call that may leave files of a deleted reference if it stops here.
WillRemove(c, r) ==
    /\ Running(c) /\ call[c].ref = r
    /\ call[c].op \in {"retain", "bind", "delete"}
    /\ call[c].step \in {"final?", "removeEvidence", "removeBinding"}

\* A file system call rejects, before or (a failed sync of the directory)
\* after the file is linked.  A delete that fails in atomicCreate looks at the
\* marker and answers Unavailable when it is there, without a cleanup.
FailedAnswer(k) ==
    IF k.op = "delete" /\ k.step = "create" /\ k.ref \in deleted'
    THEN "Unavailable" ELSE "failed"

Fail(c) ==
    LET k == call[c] IN
    /\ Running(c) /\ faults < MaxFaults
    /\ faults' = faults + 1
    /\ \/ /\ k.step = "create" /\ Creates(k)
          /\ lost' = lost \cup {k.ref}
       \/ /\ lost' = IF WillRemove(c, k.ref) THEN lost \cup {k.ref} ELSE lost
          /\ UNCHANGED <<evidence, binding, deleted>>
    /\ Return(c, FailedAnswer(k))
    /\ UNCHANGED <<store, tokens>>

\* issueAuthorization: the principal may ask for any reference and decision.
IssueAuthorization(op, r, d) ==
    /\ store = "open" /\ Cardinality(tokens) < MaxTokens
    /\ tokens' = tokens \cup {[op |-> op, ref |-> r, id |-> d]}
    /\ UNCHANGED <<evidence, binding, deleted, store, call, answer, lost, faults>>

Expire ==
    /\ \E t \in tokens : tokens' = tokens \ {t}
    /\ UNCHANGED <<evidence, binding, deleted, store, call, answer, lost, faults>>

\* The process ends in the middle of its calls; open finishes the cleanup of
\* every marker before the store is used (reconcileDeletions).
Crash ==
    /\ store # "closed" /\ faults < MaxFaults
    /\ faults' = faults + 1
    /\ store' = "closed"
    /\ lost' = lost \cup {r \in Refs : \E c \in Calls : WillRemove(c, r)}
    /\ call' = [c \in Calls |-> Idle]
    /\ answer' = [c \in Calls |-> IF Running(c) THEN "failed" ELSE answer[c]]
    /\ UNCHANGED <<evidence, binding, deleted, tokens>>

Open ==
    /\ store = "closed"
    /\ store' = "reconciling"
    /\ UNCHANGED <<evidence, binding, deleted, tokens, call, answer, lost, faults>>

Residue(r) == r \in evidence \/ binding[r] # NoId

Reconcile(r) ==
    /\ store = "reconciling" /\ r \in deleted
    /\ Residue(r)
    /\ evidence' = evidence \ {r}
    /\ binding' = [binding EXCEPT ![r] = NoId]
    /\ UNCHANGED <<deleted, store, tokens, call, answer, lost, faults>>

Opened ==
    /\ store = "reconciling"
    /\ \A r \in deleted : ~Residue(r)
    /\ store' = "open"
    /\ lost' = {}
    /\ UNCHANGED <<evidence, binding, deleted, tokens, call, answer, faults>>

CallStep(c) ==
    \/ LookAtMarker(c) \/ LookAtEvidence(c) \/ LookAtBinding(c) \/ Create(c)
    \/ Finally(c) \/ RemoveEvidence(c) \/ RemoveBinding(c)

StoreStep ==
    \/ \E c \in Calls : CallStep(c) \/ Fail(c)
    \/ Expire \/ Open \/ Opened
    \/ \E r \in Refs : Reconcile(r)

-----------------------------------------------------------------------------
\* The state is well typed for decisions in Ids.
StoreTypeOK(Ids) ==
    /\ evidence \subseteq Refs /\ deleted \subseteq Refs /\ lost \subseteq Refs
    /\ binding \in [Refs -> Ids \cup {NoId}]
    /\ store \in {"open", "reconciling", "closed"}
    /\ tokens \subseteq Tokens(Ids)
    /\ \A c \in Calls : call[c].step \in Steps /\ answer[c] \in Answers
    /\ faults \in 0..MaxFaults

\* What an answer promises at the moment it is given: the evidence is there
\* and, for every call but retain, bound to the decision that was asked for,
\* however many deletions, cleanups and crashes went on since the call looked
\* (retain, bindDecision, authorize, inspect, export end in the final check).
AnswersAreCurrent ==
    [][\A c \in Calls :
          (Running(c) /\ answer'[c] = "ok" /\ call[c].op # "delete") =>
              /\ call[c].ref \in evidence
              /\ call[c].op # "retain" => binding[call[c].ref] = call[c].id]_storeVars

\* Nothing of a deleted reference stays: files that are still there, or came
\* back because a retain or a bind raced the deletion, belong to a call that
\* is going to remove them, or to a cleanup that a crash or a failed file
\* system call interrupted, which the next open of the store finishes.
ResidueIsTransient ==
    \A r \in deleted :
        Residue(r) => r \in lost \/ \E c \in Calls : WillRemove(c, r)

\* The decision evidence is bound to never changes: a second bindDecision,
\* also one that overlaps the first, is refused.
BoundOnce ==
    [][\A r \in Refs : binding[r] # NoId =>
          binding'[r] = binding[r] \/ (binding'[r] = NoId /\ r \in deleted)]_storeVars

\* The store keeps its word under overlapping calls and crashes: its answers
\* are current, what it deleted does not linger, and bindings do not change.
StoreKeepsItsWord == AnswersAreCurrent /\ []ResidueIsTransient /\ BoundOnce
=============================================================================
