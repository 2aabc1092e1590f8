---------------------------- MODULE TaskRuntime ----------------------------
(***************************************************************************)
(* The task runtime of agape-ts/src/interp.ts: delegations are sent in the *)
(* foreground (delivered inline, the sender waits) or in the background    *)
(* (queued, delivered by a drain as concurrent fibers), worker handlers    *)
(* complete or fail them, reactions cancel them, and sweeps expire what is *)
(* still open at the end of a scope or of the session's turn.  An error no *)
(* handler, reaction or hook contains fails the turn, whose sweep is then  *)
(* never made; what its drain had begun runs on.                           *)
(*                                                                         *)
(* Fibers take turns as TurnQueue says: the head of "turns" runs, a call   *)
(* sends it to the back.  Runner 0 is the top level, runner t the fiber    *)
(* that delivers task t.  Tasks are numbered in the order they are sent.   *)
(***************************************************************************)
EXTENDS Naturals, Sequences, FiniteSets

CONSTANTS
  MaxTasks,      \* bound: delegations ever sent
  MaxCalls,      \* bound: provider calls of one handler
  MaxStatements, \* bound: statements and blocks the first turn of the session runs
  MaxPrompts,    \* bound: turns of the session after the first
  Workers,       \* agent instances
  Sleepers,      \* those that statements put to sleep and awaken
  DestOf         \* DestOf[t]: the worker task t is sent to

Tasks == 1 .. MaxTasks

Runners == 0 .. MaxTasks

ASSUME TaskAssumption ==
  /\ MaxTasks \in Nat
  /\ MaxCalls \in Nat
  /\ MaxStatements \in Nat
  /\ MaxPrompts \in Nat
  /\ Sleepers \subseteq Workers
  /\ DestOf \in [Tasks -> Workers]

VARIABLES
  sent,          \* number of tasks sent so far
  status,        \* TaskState.status
  foreground,    \* TaskState.foreground
  owned,         \* the task's subscriptionOwner is the open scope
  pending,       \* pendingDeliveries
  turns,         \* fibers of the running batch, the one with the turn first
  working,       \* fibers that wait for their provider
  lost,          \* fibers whose turn is never passed on
  frames,        \* frames[r]: the tasks whose handlers r is in, innermost last
  raising,       \* how the innermost handler of r is ending
  calls,         \* provider calls the handler of a task has made
  phase,         \* what the top level is doing
  left,          \* statements left in this turn of the session
  prompts,       \* turns of the session left
  swept,         \* tasks the sweep has passed
  reacting,      \* a reaction to the row of the sweep runs
  scope,         \* a block with its own "when" subscriptions is open
  awake,         \* awake workers
  ledger,        \* ledger[t]: the rows with the correlation of task t
  crashes        \* number of errors contained: AgentCrashed rows, which have no
                 \* correlation, and abandoned reactions of the top level

taskVars == <<sent, status, foreground, owned>>
fiberVars == <<turns, working, lost, calls>>
topVars == <<phase, left, prompts, swept, reacting, scope, awake>>
rowVars == <<ledger, crashes>>
vars == <<taskVars, pending, fiberVars, frames, raising, topVars, rowVars>>

Terminals == {"completed", "failed", "cancelled", "expired"}

Terminal(t) == status[t] \in Terminals

Init ==
  /\ sent = 0
  /\ status = [t \in Tasks |-> "unsent"]
  /\ foreground = [t \in Tasks |-> FALSE]
  /\ owned = [t \in Tasks |-> FALSE]
  /\ pending = << >>
  /\ turns = << >>
  /\ working = {}
  /\ lost = {}
  /\ frames = [r \in Runners |-> << >>]
  /\ raising = [r \in Runners |-> "no"]
  /\ calls = [t \in Tasks |-> 0]
  /\ phase = "statement"
  /\ left \in 0 .. MaxStatements
  /\ prompts \in 0 .. MaxPrompts
  /\ swept = 0
  /\ reacting = FALSE
  /\ scope = FALSE
  /\ awake = Workers
  /\ ledger = [t \in Tasks |-> << >>]
  /\ crashes = 0

-----------------------------------------------------------------------------
(* Helpers.                                                                *)

\* Rows are appended with the correlation of task t.
Lands(rows, t) ==
  /\ ledger' = [ledger EXCEPT ![t] = @ \o rows]
  /\ UNCHANGED crashes

Top(r) == frames[r][Len(frames[r])]

Rest(r) == SubSeq(frames[r], 1, Len(frames[r]) - 1)

HasTurn(r) == turns # << >> /\ turns[1] = r /\ r \notin working

\* The fibers once the first of them passes its turn on, and is then in "rest"; a
\* turn that is lost stays where it is, and nobody has one again.
Passed(r, rest) == IF r \in lost THEN turns ELSE SubSeq(turns, 2, Len(turns)) \o rest

\* The turn of the session fails, and with it the block that is open.
TurnFails ==
  /\ phase' = "failed"
  /\ scope' = FALSE
  /\ owned' = [t \in Tasks |-> FALSE]
  /\ reacting' = FALSE
  /\ UNCHANGED <<left, prompts, swept, awake>>

\* Runner r executes statements: of a handler, of a reaction to a row the
\* handler appended, or (runner 0) of the top level.
Runs(r) ==
  /\ raising[r] = "no"
  /\ IF r = 0
     THEN frames[0] # << >> \/ phase = "statement" \/ reacting
     ELSE HasTurn(r) /\ frames[r] # << >>

\* A task is open until its first terminal.
Open(t) == ~Terminal(t)

-----------------------------------------------------------------------------
(* Sending.                                                                *)

\* The task that is sent next, owned by the open scope or by none.
NewTask(inForeground) ==
  /\ sent < MaxTasks
  /\ sent' = sent + 1
  /\ foreground' = [foreground EXCEPT ![sent + 1] = inForeground]
  /\ owned' \in {[owned EXCEPT ![sent + 1] = o] : o \in {FALSE, scope}}

\* A background delegation is queued for the next drain, unless a reaction to
\* its Sent row throws before that.
SendBackground(r) ==
  /\ Runs(r)
  /\ NewTask(FALSE)
  /\ status' = [status EXCEPT ![sent + 1] = "sent"]
  /\ pending' \in {pending, Append(pending, sent + 1)}
  /\ Lands(<<"Sent">>, sent + 1)
  /\ UNCHANGED <<fiberVars, frames, raising, topVars>>

\* A foreground delegation is delivered inline, after the reactions to its
\* Sent row, and its handler runs inside the sender's.
SendForeground(r) ==
  /\ Runs(r)
  /\ NewTask(TRUE)
  /\ status' = [status EXCEPT ![sent + 1] = "sent"]
  /\ frames' = [frames EXCEPT ![r] = Append(@, sent + 1)]
  /\ Lands(<<"Sent">>, sent + 1)
  /\ UNCHANGED <<pending, fiberVars, raising, topVars>>

\* The innermost frame of r is a foreground delegation not yet delivered.
AtDelivery(r) == frames[r] # << >> /\ status[Top(r)] = "sent"

\* The innermost frame of r is a handler.
InHandler(r) == frames[r] # << >> /\ status[Top(r)] # "sent"

DeliverInline(r) ==
  /\ Runs(r)
  /\ AtDelivery(r)
  /\ DestOf[Top(r)] \in awake
  /\ status' = [status EXCEPT ![Top(r)] = "delivered"]
  /\ Lands(<<"Delivered">>, Top(r))
  /\ UNCHANGED <<sent, foreground, owned, pending, fiberVars, frames, raising, topVars>>

\* Without a worker that is awake it expires at once (in Unwind).
Unheard(r) ==
  /\ Runs(r)
  /\ AtDelivery(r)
  /\ DestOf[Top(r)] \notin awake
  /\ raising' = [raising EXCEPT ![r] = "done"]
  /\ UNCHANGED <<taskVars, pending, fiberVars, frames, topVars, rowVars>>

\* An error outside the handlers: a reaction to the Sent row of a foreground
\* delegation throws to the sender, or a statement of the top level fails the
\* turn, as does an error a reaction to a row of the sweep does not contain.
Throw(r) ==
  /\ Runs(r)
  /\ \/ /\ AtDelivery(r)
        /\ raising' = [raising EXCEPT ![r] = "error"]
        /\ UNCHANGED <<owned, topVars>>
     \/ /\ frames[r] = << >>
        /\ TurnFails
        /\ UNCHANGED raising
  /\ UNCHANGED <<sent, status, foreground, pending, fiberVars, frames, rowVars>>

-----------------------------------------------------------------------------
(* Worker handlers and reactions.                                          *)

\* The handler calls its provider and yields the turn; at the top level
\* nobody else runs meanwhile.
Call(r) ==
  /\ r # 0
  /\ Runs(r)
  /\ calls[Top(r)] < MaxCalls
  /\ calls' = [calls EXCEPT ![Top(r)] = @ + 1]
  /\ working' = working \cup {r}
  /\ turns' = Passed(r, <<r>>)
  /\ UNCHANGED <<taskVars, pending, lost, frames, raising, topVars, rowVars>>

\* The call has resolved and it is the fiber's turn again.  A structured send
\* that throws over its answer loses the turn: the handler may contain the
\* error and go on, but what comes behind it waits for ever, and so does its
\* next call.
Back(r) ==
  /\ r \in working
  /\ turns[1] = r
  /\ r \notin lost
  /\ working' = working \ {r}
  /\ lost' \in {lost, lost \cup {r}}
  /\ UNCHANGED <<taskVars, pending, turns, calls, frames, raising, topVars, rowVars>>

\* complete and fail conclude whatever became of the task.
Unguarded(t) == t \in Tasks \* mutant

\* complete and fail conclude a task that is still open.
MayConclude(t) == Open(t)

\* "complete": the task is completed.  The reactions to the row run inside the
\* handler, and may complete the task again.
Complete(r) ==
  /\ Runs(r)
  /\ InHandler(r)
  /\ MayConclude(Top(r))
  /\ status' = [status EXCEPT ![Top(r)] = "completed"]
  /\ Lands(<<"Resolved", "TaskCompleted">>, Top(r))
  /\ UNCHANGED <<sent, foreground, owned, pending, fiberVars, frames, raising, topVars>>

Fail(r) ==
  /\ Runs(r)
  /\ InHandler(r)
  /\ MayConclude(Top(r))
  /\ status' = [status EXCEPT ![Top(r)] = "failed"]
  /\ Lands(<<"TaskFailed">>, Top(r))
  /\ UNCHANGED <<sent, foreground, owned, pending, fiberVars, frames, raising, topVars>>

\* The completion is refused and the handler left: the task got its terminal
\* while the handler evaluated its result.
Refuse(r) ==
  /\ Runs(r)
  /\ InHandler(r)
  /\ ~MayConclude(Top(r))
  /\ Lands(<<"CompletionRefused">>, Top(r))
  /\ raising' = [raising EXCEPT ![r] = "done"]
  /\ UNCHANGED <<taskVars, pending, fiberVars, frames, topVars>>

\* The handler is left, with or without a terminal, or an error leaves it.
Return(r) ==
  /\ Runs(r)
  /\ InHandler(r)
  /\ raising' \in {[raising EXCEPT ![r] = e] : e \in {"done", "error"}}
  /\ UNCHANGED <<taskVars, pending, fiberVars, frames, topVars, rowVars>>

\* Statements of r or a reaction they fire cancel a task by its handle;
\* the task may be queued, or its handler may be waiting for its provider.
Cancel(r, t) ==
  /\ Runs(r)
  /\ t <= sent
  /\ ~foreground[t]
  /\ Open(t)
  /\ status' = [status EXCEPT ![t] = "cancelled"]
  /\ Lands(<<"TaskCancelled">>, t)
  /\ UNCHANGED <<sent, foreground, owned, pending, fiberVars, frames, raising, topVars>>

\* A foreground task whose handler ended without a terminal expires.
AfterHandler(t) == IF Open(t) THEN "expired" ELSE status[t]

\* Any terminal ends the wait of the sender.
AnyTerminal(t) == Terminal(t) \* mutant

\* Only a completed task has a result to go on with.
HasResult(t) == status[t] = "completed"

\* The sender of a foreground task is thrown out of what it was in: a handler,
\* which is left with the error; a reaction or a hook, which contains it; or a
\* statement of the top level, and the turn fails.
SenderFaults(r, crashed) ==
  \/ /\ Rest(r) # << >>
     /\ raising' = [raising EXCEPT ![r] = "error"]
     /\ crashes' = crashed
     /\ UNCHANGED <<owned, topVars>>
  \/ /\ raising' = [raising EXCEPT ![r] = "no"]
     /\ crashes' = crashed + 1
     /\ UNCHANGED <<owned, topVars>>
  \/ /\ r = 0
     /\ Rest(r) = << >>
     /\ raising' = [raising EXCEPT ![r] = "no"]
     /\ crashes' = crashed
     /\ TurnFails

\* The delivery ends (the rest of deliverTask and of evalTaskSend): a crash of
\* the handler is recorded, a fiber is over, and a sender that waited goes on
\* with the result or is itself faulted.
DeliveryEnds(r, t) ==
  LET crashed == crashes + (IF raising[r] = "error" THEN 1 ELSE 0)
  IN  \/ /\ ~foreground[t]
         /\ turns' = Passed(r, << >>)
         /\ raising' = [raising EXCEPT ![r] = "no"]
         /\ crashes' = crashed
         /\ UNCHANGED <<status, ledger, owned, topVars>>
      \/ /\ foreground[t]
         /\ HasResult(t)
         /\ raising' = [raising EXCEPT ![r] = "no"]
         /\ crashes' = crashed
         /\ UNCHANGED <<status, turns, ledger, owned, topVars>>
      \/ /\ foreground[t]
         /\ ~HasResult(t)
         /\ status' = [status EXCEPT ![t] = AfterHandler(t)]
         /\ ledger' = [ledger EXCEPT ![t] = IF Open(t) THEN Append(@, "Expired") ELSE @]
         /\ SenderFaults(r, crashed)
         /\ UNCHANGED turns

\* The delivery throws: an error that is no crash, or one of the crash hook after
\* the crash is recorded, is not contained.  Nothing expires the task here; the
\* error of a fiber rejects the drain, and the turn fails before its sweep.
DeliveryThrows(r, t) ==
  /\ \E crashed \in {crashes, crashes + 1} :
       \/ /\ ~foreground[t]
          /\ turns' = Passed(r, << >>)
          /\ raising' = [raising EXCEPT ![r] = "no"]
          /\ crashes' = crashed
          /\ TurnFails
       \/ /\ foreground[t]
          /\ SenderFaults(r, crashed)
          /\ UNCHANGED turns
  /\ UNCHANGED <<status, ledger>>

\* The innermost handler of r, or a delivery that was not made, ends.
Unwind(r) ==
  /\ raising[r] # "no"
  /\ frames' = [frames EXCEPT ![r] = Rest(r)]
  /\ \/ (InHandler(r) \/ raising[r] = "done") /\ DeliveryEnds(r, Top(r))
     \/ raising[r] = "error" /\ DeliveryThrows(r, Top(r))
  /\ UNCHANGED <<sent, foreground, pending, working, lost, calls>>

-----------------------------------------------------------------------------
(* Drains.                                                                 *)

InBatch(t) == phase = "drain" \/ owned[t]

\* The elements of a sequence that are in S, in their order.
Among(seq, S) ==
  LET upTo[i \in 0 .. Len(seq)] ==
        IF i = 0 THEN << >>
        ELSE IF seq[i] \in S THEN Append(upTo[i - 1], seq[i]) ELSE upTo[i - 1]
  IN  upTo[Len(seq)]

Batch == Among(pending, {t \in Tasks : InBatch(t)})

\* drainTasks takes the whole queue, drainOwnedTasks what the scope owns.
StartBatch ==
  /\ phase \in {"drain", "closing"}
  /\ turns = << >>
  /\ Batch # << >>
  /\ turns' = Batch
  /\ pending' = Among(pending, {t \in Tasks : ~InBatch(t)})
  /\ UNCHANGED <<taskVars, working, lost, calls, frames, raising, topVars, rowVars>>

\* A delivery only asks whether the worker is awake.
WorkerAwake(t) == DestOf[t] \in awake \* mutant

\* A delivery goes ahead unless a tombstone won or the worker has no mailbox.
Deliverable(t) == Open(t) /\ DestOf[t] \in awake

Deliver(t) ==
  /\ HasTurn(t)
  /\ t \notin lost
  /\ frames[t] = << >>
  /\ Deliverable(t)
  /\ status' = [status EXCEPT ![t] = "delivered"]
  /\ frames' = [frames EXCEPT ![t] = <<t>>]
  /\ Lands(<<"Delivered">>, t)
  /\ UNCHANGED <<sent, foreground, owned, pending, fiberVars, raising, topVars>>

Skip(t) ==
  /\ HasTurn(t)
  /\ t \notin lost
  /\ frames[t] = << >>
  /\ ~Deliverable(t)
  /\ turns' = SubSeq(turns, 2, Len(turns))
  /\ UNCHANGED <<taskVars, pending, working, lost, calls, frames, raising, topVars, rowVars>>

\* Nothing is left to deliver: the next statement, or the sweep.
DrainDone ==
  /\ phase \in {"drain", "closing"}
  /\ turns = << >>
  /\ Batch = << >>
  /\ phase' = CASE phase = "closing" -> "closeSweep"
                [] left > 0 -> "statement"
                [] OTHER -> "sweep"
  /\ swept' = 0
  /\ UNCHANGED <<taskVars, pending, fiberVars, frames, raising, left, prompts, reacting, scope, awake, rowVars>>

-----------------------------------------------------------------------------
(* The top level.                                                          *)

AtStatement == phase = "statement" /\ frames[0] = << >> /\ raising[0] = "no"

EndStatement ==
  /\ AtStatement
  /\ ~scope
  /\ left' = IF left > 0 THEN left - 1 ELSE 0
  /\ phase' = "drain"
  /\ UNCHANGED <<taskVars, pending, fiberVars, frames, raising, prompts, swept, reacting, scope, awake, rowVars>>

\* A block with "when" statements is entered; it ends by draining and
\* sweeping what it owns, or a fault leaves it, which does neither.
OpenScope ==
  /\ AtStatement
  /\ ~scope
  /\ left > 0
  /\ left' = left - 1
  /\ scope' = TRUE
  /\ UNCHANGED <<taskVars, pending, fiberVars, frames, raising, phase, prompts, swept, reacting, awake, rowVars>>

CloseScope ==
  /\ AtStatement
  /\ scope
  /\ phase' = "closing"
  /\ UNCHANGED <<taskVars, pending, fiberVars, frames, raising, left, prompts, swept, reacting, scope, awake, rowVars>>

AbandonScope ==
  /\ AtStatement
  /\ scope
  /\ scope' = FALSE
  /\ owned' = [t \in Tasks |-> FALSE]
  /\ UNCHANGED <<sent, status, foreground, pending, fiberVars, frames, raising, phase, left,
                 prompts, swept, reacting, awake, rowVars>>

\* The sweep takes only what was delivered.
DeliveredOnly(t) == status[t] = "delivered" \* mutant

\* The sweep takes every task that has no terminal yet.
SweepTakes(t) == Open(t) /\ (phase = "sweep" \/ owned[t])

\* One step of a sweep.  Tasks a reaction sends meanwhile come at its end.
Sweep ==
  /\ phase \in {"sweep", "closeSweep"}
  /\ ~reacting
  /\ swept < sent
  /\ swept' = swept + 1
  /\ reacting' = SweepTakes(swept + 1)
  /\ IF SweepTakes(swept + 1)
     THEN /\ status' = [status EXCEPT ![swept + 1] = "expired"]
          /\ Lands(<<"Expired">>, swept + 1)
     ELSE UNCHANGED <<status, rowVars>>
  /\ UNCHANGED <<sent, foreground, owned, pending, fiberVars, frames, raising, phase, left,
                 prompts, scope, awake>>

\* The reactions to an expiry end.
Reacted ==
  /\ reacting
  /\ frames[0] = << >>
  /\ reacting' = FALSE
  /\ UNCHANGED <<taskVars, pending, fiberVars, frames, raising, phase, left, prompts, swept,
                 scope, awake, rowVars>>

SweepDone ==
  /\ phase \in {"sweep", "closeSweep"}
  /\ ~reacting
  /\ swept = sent
  /\ phase' = IF phase = "sweep" THEN "quiescent" ELSE "statement"
  /\ scope' = FALSE
  /\ owned' = [t \in Tasks |-> FALSE]
  /\ UNCHANGED <<sent, status, foreground, pending, fiberVars, frames, raising, left, prompts,
                 swept, reacting, awake, rowVars>>

\* The session gets its next prompt.  After a turn that failed it comes only when
\* what the failed drain had begun is over; the code does not wait for that.
Prompt ==
  /\ phase = "quiescent" \/ (phase = "failed" /\ turns = << >>)
  /\ prompts > 0
  /\ prompts' = prompts - 1
  /\ left' = 1
  /\ phase' = "statement"
  /\ UNCHANGED <<taskVars, pending, fiberVars, frames, raising, swept, reacting, scope, awake, rowVars>>

\* Statements of r awaken a worker or put it to sleep.
SleepOrAwake(r, w) ==
  /\ Runs(r)
  /\ awake' = IF w \in awake THEN awake \ {w} ELSE awake \cup {w}
  /\ UNCHANGED <<taskVars, pending, fiberVars, frames, raising, phase, left, prompts, swept,
                 reacting, scope, rowVars>>

-----------------------------------------------------------------------------

Send(r) == SendBackground(r) \/ SendForeground(r) \/ DeliverInline(r) \/ Unheard(r) \/ Throw(r)

Handler(r) == Call(r) \/ Back(r) \/ Complete(r) \/ Fail(r) \/ Refuse(r) \/ Return(r) \/ Unwind(r)

Statement(r) ==
  \/ Send(r)
  \/ Handler(r)
  \/ \E t \in Tasks : Cancel(r, t)
  \/ \E w \in Sleepers : SleepOrAwake(r, w)

TopLevel ==
  \/ EndStatement \/ OpenScope \/ CloseScope \/ AbandonScope
  \/ Sweep \/ Reacted \/ SweepDone \/ Prompt

Next ==
  \/ \E r \in Runners : Statement(r)
  \/ StartBatch
  \/ \E t \in Tasks : Deliver(t) \/ Skip(t)
  \/ DrainDone
  \/ TopLevel

Spec == Init /\ [][Next]_vars

\* Statements, handlers, drains and sweeps go on; provider calls end.
Fairness ==
  /\ \A r \in Runners :
       /\ WF_vars(DeliverInline(r) \/ Unheard(r))
       /\ WF_vars(Back(r))
       /\ WF_vars(Return(r))
       /\ WF_vars(Unwind(r))
  /\ WF_vars(StartBatch)
  /\ \A t \in Tasks : WF_vars(Deliver(t)) /\ WF_vars(Skip(t))
  /\ WF_vars(DrainDone)
  /\ WF_vars(EndStatement)
  /\ WF_vars(CloseScope)
  /\ WF_vars(Sweep)
  /\ WF_vars(Reacted)
  /\ WF_vars(SweepDone)

FairSpec == Spec /\ Fairness

-----------------------------------------------------------------------------
(* Properties.                                                             *)

Etypes == {"Sent", "Delivered", "Resolved", "TaskCompleted", "TaskFailed", "TaskCancelled",
           "Expired", "CompletionRefused"}

Statuses == {"unsent", "sent", "delivered"} \cup Terminals

\* Every variable has its type.
TypeOK ==
  /\ sent \in 0 .. MaxTasks
  /\ status \in [Tasks -> Statuses]
  /\ foreground \in [Tasks -> BOOLEAN]
  /\ owned \in [Tasks -> BOOLEAN]
  /\ pending \in Seq(Tasks)
  /\ turns \in Seq(Tasks)
  /\ working \subseteq Tasks
  /\ frames \in [Runners -> Seq(Tasks)]
  /\ lost \subseteq Tasks
  /\ raising \in [Runners -> {"no", "done", "error"}]
  /\ calls \in [Tasks -> Nat]
  /\ phase \in {"statement", "drain", "closing", "closeSweep", "sweep", "quiescent", "failed"}
  /\ left \in Nat
  /\ prompts \in Nat
  /\ swept \in 0 .. MaxTasks
  /\ reacting \in BOOLEAN
  /\ scope \in BOOLEAN
  /\ awake \subseteq Workers
  /\ ledger \in [Tasks -> Seq(Etypes)]
  /\ crashes \in Nat

\* The terminal rows and the terminals they record.
TerminalOf ==
  [TaskCompleted |-> "completed", TaskFailed |-> "failed", TaskCancelled |-> "cancelled",
   Expired |-> "expired"]

\* The status of a task is a projection of the ledger: its terminal row, of
\* which there is at most one, or how far its receipts go (SPEC 16.3a).
StatusIsProjection ==
  \A t \in Tasks :
    LET rows == {ledger[t][i] : i \in DOMAIN ledger[t]}
        ends == rows \cap DOMAIN TerminalOf
    IN  \/ \E e \in ends : ends = {e} /\ status[t] = TerminalOf[e]
        \/ ends = {} /\ "Delivered" \in rows /\ status[t] = "delivered"
        \/ rows = {"Sent"} /\ status[t] = "sent"
        \/ rows = {} /\ status[t] = "unsent"

\* The place of a row in the receipt chain of its task.
Stage(etype) ==
  CASE etype = "Sent" -> 1
    [] etype = "Delivered" -> 2
    [] etype = "Resolved" -> 3
    [] etype \in DOMAIN TerminalOf -> 4
    [] OTHER -> 5

\* The receipts of a task come in the order Sent, Delivered, Resolved,
\* terminal, each at most once, whatever lands between them; a late
\* completion is refused, and only after the terminal that came before it.
ReceiptChain ==
  \A t \in Tasks : \A i, j \in DOMAIN ledger[t] :
    i < j =>
      /\ Stage(ledger[t][i]) < Stage(ledger[t][j])
      /\ ledger[t][j] = "CompletionRefused" => Stage(ledger[t][j - 1]) = 4

\* When the session is quiescent every delegation has its terminal, and no
\* delivery is queued that could still run.
QuiescentIsTerminal ==
  phase = "quiescent" =>
    /\ \A t \in 1 .. sent : Terminal(t)
    /\ turns = << >> /\ \A r \in Runners : frames[r] = << >>

\* The ledger accounts for every delegation: its status is what its rows say,
\* its rows are a chain of receipts, and none is open when the session rests.
TasksAreAccounted == TypeOK /\ StatusIsProjection /\ ReceiptChain /\ QuiescentIsTerminal

\* A block with subscriptions that closes leaves none of its tasks open.
ScopeLeavesNothingOpen ==
  [][ phase = "closeSweep" /\ phase' = "statement" =>
        \A t \in Tasks : owned[t] => Terminal(t) ]_vars

\* A sender that waited goes on only with the result of a completed task: else it
\* is left with the error, a reaction or a hook contains it, or the turn fails.
ForegroundReturnsResult ==
  [][ \A r \in Runners :
        /\ Len(frames'[r]) < Len(frames[r])
        /\ foreground[Top(r)]
        /\ status[Top(r)] # "completed"
        => raising'[r] = "error" \/ crashes' > crashes \/ phase' = "failed" ]_vars

\* Whoever waits for delegations goes on only when they have ended: the block
\* that closes, and the sender in the foreground, who needs the result too.
WaitsForTerminals == ScopeLeavesNothingOpen /\ ForegroundReturnsResult

\* In the end every delegation that was sent has a terminal ("every task is
\* terminal by construction", interp.ts:3516), unless an error has failed the last
\* turn of the session before its sweep, or a fiber has lost its turn and the drain
\* never ends.  What a failed turn leaves open, a later turn sweeps.
EveryTaskTerminates ==
  <>[](\A t \in Tasks : sent >= t => Terminal(t) \/ phase = "failed" \/ lost # {})

\* The statuses of the tasks implement the life cycle of a delegation.
LifeCycle == INSTANCE Delegation

ImplementsDelegation == LifeCycle!Spec

\* Handlers of one worker never overlap ("Reactions for one agent instance
\* never overlap", SPEC.md 16.1); two background deliveries to it do.
ReactionsAreSerial ==
  \A s, t \in Tasks :
    s # t /\ frames[s] # << >> /\ frames[t] # << >> => DestOf[s] # DestOf[t]
=============================================================================
