# Agape: verification project

TLA+ models of Agape, an interpreter for an agent language (`agape-ts/`) with a
studio around it (`studio/`), their TLC runs, and theorems checked by TLAPS.
Every definition is translated from the source; `PROJECT.json` gives the lines
of each ("map"), the hazards the properties are for, the runs, the mutants that
show that each property can fail, and the theorems.

    tlc -workers 2 -config Turns.cfg MCTurnScheduler
    tlapm TurnScheduler_proofs.tla

## 1. Inventory

Agape runs on one JavaScript event loop: a step is everything between two
awaits, and another activity may run at every await. There are five sources
of concurrency: the paths of a fan-out (`coll |> fn`), the background deliveries
of one batch, the requests of browsers to one studio session, the host's calls
of the evidence store, and, for durable memory, several processes on one
directory. The language itself has no unbounded loop; what makes its front end
hard is that parser, linker, checker, graph and interpreter each decide about
the same program on their own and have to agree.

| Component (source under `src/`) | State | Operations | Talks to | Hard behaviour | Correct when |
|---|---|---|---|---|---|
| Named-memory coordinator, session barrier (`agape-ts/src/named_memory_coordinator.ts`) | pending map and `#closed` per region, ledger rows | store, forget, recall, close, snapshot, reconcileAll | driver (awaits), ledger (sync append) | the commit is in the ledger, the data in the driver; either side fails, acknowledgements get lost, calls overlap | one row per evaluation; a committed mutation is recoverable and its receipt true |
| In-process driver (`named_memory_local.ts`) | regions, generations, operations, region lock | prepare, finalize, abort, reconcile, status, recall, snapshot | coordinator | stage against stale state, generations | one stage per region; shown in ledger order |
| Durable Markdown driver (`named_memory_markdown.ts`) | `state.json`, a copy per process, fence, rendered files | open, prepare, finalize, abort, reconcile, status, close | file system, lease, coordinator | crashes and restarts, writes of unknown outcome, another writer | the file is the committed memory; no answer from a stale copy |
| Writer lease (`named_memory_markdown.ts`) | `writer.lock`, claim files | acquire, take over, release | other processes | takeover of a dead owner's lease by several processes | one holder |
| Named-memory runtime, recording and replay (`named_memory_runtime.ts`, `runtime_recording.ts`) | driver promise, coordinators, recorded operations, cursors | acquire, record, replay, close | coordinators, ledger, providers | shared openings, head read after an await, close that fails half way | everything opened is released; a replay reads what the live run read |
| Ledger (`runtime.ts`, `ledger_hash.ts`) | rows, origin, last time, observer | append, appendBatch, restore, observe | everything that appends, recordings, hosts that resume a session | the clock is set back, batches share a time, a prefix is resumed | what this runtime wrote it can restore |
| Turn scheduler (`interp.ts`: drainTasks, runTurnFiber, inTurnOrder) | queue of deliveries, promise chain, turn held per fiber | enqueue, drain, call, resume, end | task runtime, providers | provider calls resolve in any order, reject, or are answered with a value that does not fit | ledger in issue order; nobody waits for ever |
| Fan-out (`interp.ts`: evalPipe, inResolutionOrder) | result chain, paths | call, resolve, join | turn scheduler, providers | the same, several calls in one fiber | results in issue order; the fan-out ends |
| Task runtime (`interp.ts`) | task map, queue, subscriptions, awake agents | delegate, deliver, complete, fail, cancel, sweep, scope, prompt | turn scheduler, ledger | late completions, cancels before delivery, sweeps while reactions delegate | one terminal per task, the status is the ledger's |
| Decision gate, authorization (`interp.ts` evalGate, execPerform; `runtime-session.ts` certificates) | ledger rows, path state, endorsements | judge, decide, consult, attest, endorse, perform, certify | evidence store, principals | awaits between check and row, rulings by somebody else | what was performed has a lineage of rows that authorizes it |
| Protected evidence store (`protected_evidence.ts`) | evidence, binding and deletion files, tokens | retain, bind, authorize, inspect, export, delete | file system, gate, host | delete races the others, crash between two removals | nothing is answered from deleted evidence; one decision per record |
| Studio session registry (`studio/agent-server/runtime-session.ts`) | entry, pending ruling, used rulings, active turn | create, sendPrompt, rule, close | interpreter, browsers | late or double ruling, close in between, lost notification | a ruling is used once; every request is answered |
| Studio run server (`agape-ts/studio/server.ts`) | listening session, pending, run state | listen, prompt, attest, stop, run | interpreter, browsers | nested consults, responses after a beat | rulings go to the run that asked |
| Flow editor saves (`studio/agent-server/server.ts`) | project file, save queue | save, plain write | file system | compare, await, rename | no save overwrites an edit it has not seen |
| Evaluation (`interp.ts`) | scopes, instances, subscriptions, ledger, fault | statements, expressions, hooks, prompts | providers, tools, principals | faults that unwind blocks, retries, handlers that crash | un-endorsed cognition does not act; a block ends clean |
| Parser (`lexer.ts`, `parser.ts`), linker and checker (`check.ts`), graph (`graph.ts`) | tokens; module table; scopes, trust, grants; nodes and edges | parse, link, check, build | each other | lookahead, republished names, narrowing, arms | they agree about a program, and with what runs |
| Configuration, CLI; conformance runners; older memory forms; web interface | | | | I/O, test code, superseded | not modelled, see section 8 |

## 2. Modules

| Module | Models | Composition |
|---|---|---|
| `NamedMemory` | what named memory promises: rows committed one at a time per region, shown in ledger order | abstract specification |
| `NamedMemoryDriver` | the transactional driver, and when a journal that was written can be restored: operations bound once, replayed in the order of their ticks | extended by the coordinator; instantiated by `MarkdownMemory` on the payload of the file |
| `NamedMemoryCoordinator` | coordinators, ledger and barrier, every await of a call | extends the driver, implements `NamedMemory` |
| `WriterLease` | acquisition and takeover of `writer.lock`, one action per look at the directory | |
| `MarkdownMemory` | the durable driver | extends `WriterLease`, opens its file when the `Restores` of the driver allows it, implements `NamedMemory` |
| `MemoryRuntime` | the driver and the coordinators a session opens on demand, its journal and its close | a coordinator's operation is one row or one failure |
| `Ledger` | the times of a ledger: batches, a clock that is set back, restoring | put beside `Recording` by `MCRecording` and `Recording_proofs` |
| `Recording` | a recorded session and its replay, provider and memory journals | extends `MemoryRuntime` |
| `TurnQueue` | a first-in-first-out queue of turns | abstract specification |
| `TurnScheduler` | drain, batches, promise chain, held turns | implements `TurnQueue` |
| `FanOut` | evalPipe at the top level and in a delivery | instantiated beside `TurnScheduler` by `MCTurnScheduler` |
| `Delegation` | life cycle of one task | abstract specification |
| `TaskRuntime` | delegations, handlers, sweeps, scopes, prompts | takes turns as `TurnQueue` says, implements `Delegation` |
| `GateRules` | the arithmetic of a decision rule and of what binds it to its evidence | |
| `EvidenceStore` | the three files of each record and the calls on them, one action per await | |
| `DecisionGate` | the paths of a run that judge, decide, consult, endorse and perform; what Studio certifies of their ledger, knowing its rows only | extends `GateRules` and `EvidenceStore`: path and host share the store |
| `RuntimeSession` | a session of the interpreter as its hosts see it: operations, consults, close | |
| `SessionRegistry`, `RunServer` | the two HTTP services that drive a session | extend `RuntimeSession` |
| `FlowSave` | checked and plain writes of a flow file | |
| `Syntax` | abstract syntax as records | |
| `Parser`, `SourceText` | the recursive descent over tokens; the text of a program by the grammar, the reference the parser is compared with | extend `Syntax` |
| `ModuleLinker` | imports, republished names, visibility | extends `Syntax` |
| `CheckerScans`, `Checker` | the passes of `check()` without and with scopes | extend `Syntax` |
| `Values`, `Evaluation` | values with trust and provenance; the interpreter on a machine record | extend `Syntax` |
| `Fusion` | all, any and quorum of credences: cover, union-find, clusters, distribution, odds; one action per iteration of a loop | put beside the front end by `MCLanguage` |
| `Graph` | the orchestration graph and what can be reached in it | extends `Syntax` |
| `*_proofs` | theorems | |
| `MC*` | instances for TLC; `MCLanguage` composes the front end (read, link, check, draw, run) and puts `Fusion` beside it | |

How state and actions correspond to the code:

* **Coordinator.** `pc[c]` is the await call `c` is suspended at: `Invoke` runs
  store, forget, recall or close up to the barrier; `Visit`,
  `ReconcilePending`, `PendingReconciled` and `BarrierPassed` are the loops of
  reconcileAll and reconcileOwnPending; `PrepareMutation` to `Observe` are the
  awaits of store or forget and of commitMutation, in which the append and
  the entry in `pending` are one step because the append is synchronous. A
  seam named in `Faults` may throw before or (the `...Ack` names) after it
  took effect. Values are cells named by the operation that stored them.
* **Ledger.** A row is its tick and its times. `clock` may be set to anything at any
  time; `Restore` is another session that goes on from a prefix it was given, with or
  without its times.
* **Writer lease.** An opening is one process with its random token; tokens
  are ordered as the openings. `lock` is the token in `writer.lock`, and
  `unlink` removes whatever is there (`Removes`). `raced` is auxiliary: a lease
  was removed by somebody who had examined another one.
* **Durable driver.** `disk` is `state.json`, `payload[p]` the copy of process
  `p`, `work[p]` the call it is in and its next step (exclusive allows one).
  `CheckLease`, `CheckRevision`, `Rename`, `Observe`, `Render` are persistNext,
  atomicWrite and ensureProjection. The ledger is the caller's and survives a
  crash, as it does for a session that resumes; the ticks of an operation count in the
  ledger of its session (`OpSession`) from 1, as 0 is no tick, and an opening is one
  session (`OpenSession`). A region belongs to one session, whose lineage names it.
* **Turn scheduler.** A promise on turnChain is a ticket; `released` are the
  resolved ones. `Call`, `Settle`, `Resume`, `Finish`, `Crash` and `Fault` are the
  awaits and ends of a fiber; outcome "throw" is a result whose application
  throws (a structured send on a failure of its connector or a reply of the wrong type),
  "fault" an error that deliverTask does not contain. `lost` is auxiliary: the tickets
  an `apply` threw under. `stopped` is a session whose start or prompt has rejected.
* **Task runtime.** `frames[r]` is the stack of handlers runner `r` (the top
  level or a fiber) is in, `phase` where the top level is, `ledger[t]` the rows
  with the correlation of task `t`. `Throw` is an error in a handler; it is contained at
  the end of a delivery, or leaves the turn, which then ends without its sweep.
* **Decision gate.** `path[p].at` is the await path `p` is suspended at; `chain`
  are its provider and tool calls in issue order, applied in that order. A row
  keeps the fields that tie rows together (tick, id, principal, ruling, reference),
  scores are integers in units of 1 / `Unit`. Slot `p` of `call` in the store is the
  call path `p` makes, the other slots are the host's.
* **Evidence store.** `call[c].at` is the next look at the directory; `evidence`,
  `binding`, `deleted` are the files. A crash empties the slots and leaves the files.
* **Studio.** `work[o]` is the stage of an operation (start or a prompt) of the session,
  `consult` the rulings it has asked for; `reply[r]` the response a request got. The
  registry reads one request between two microtasks.
* **Recording.** `at[l]`, `asking[l]`, `lane[l]` are where a path of the program is,
  `tool[l]` the tool it has called; `chain` are the lanes that wait for a call, whose
  results are applied in call order (inResolutionOrder). `program.lacks` are the keys whose
  scope identity the program was started without: an operation on one crashes, and where
  a handler contains the crash the lane goes on. The
  chain head of a ledger is the prefix it is the hash of. `Microtasks` says whether the
  replay resumes its paths in the order in which they wait, as the event loop does when
  nothing comes from outside.
* **Language.** A machine `m` holds heap, instances, subscriptions, ledger and the fault
  that unwinds; a statement of the program is one step and the answers of the world are
  the script `m.oracle`. `origins` is auxiliary: which replies and recalls a value stems
  from, whatever trust the code gives it.
* **Fusion.** `parent` is the forest of `clusterByDependence`, `clusters` its map of
  roots, `dp` the array of `poissonBinomialTail`. `Find` hangs all it passes below the
  root, as the code does on the way; probabilities are integers in units of 1 / `Scale`,
  a fused one is a fraction: a sum of log-odds is a product of odds.

## 3. Runs

Deadlock checking is off where behaviours end: every bound, and every finished
program, is a state without a successor. A run whose instance has a `mix`, `job`,
`setup` or `service` chooses it in the initial state: each is an instance of its own,
and they share one run because they share a question.

| Run | Question | Shows | States |
|---|---|---|---|
| `coordinator` | Do overlapping mutations, recalls, a close and a snapshot of two regions survive retries and failures of driver and ledger? | one stage per region, single commit, recoverability, truthful answers, what a consultation and the barrier may rely on, refinement of `NamedMemory` | 869 000 |
| `markdown_memory` | Does the file stay the committed memory while three openings crash, take over and race, and two file system calls fail? | current copies, checked writes, durable commits, rendered receipts, refinement of `NamedMemory` | 879 000 |
| `turns` | Do deliveries and the paths of a fan-out keep their order and end, whatever their calls do? | turns in issue order, none lost but by an `apply` that throws, everything ends that does not stand behind such a turn, refinement of `TurnQueue`; results of a fan-out in issue order, the top-level fan-out ends | 202 000 |
| `tasks` | Does every delegation get one terminal, also over two turns, scopes and a sleeping worker? | status is the ledger's, receipts, scopes and foreground senders wait for terminals, refinement of `Delegation`, every task ends but those of a turn that was left by an error or whose fiber waits for a lost turn | 941 000 |
| `decision_gate` | Is every action authorized by what the ledger says, while paths overlap and the host deletes their evidence? | justified actions, rows with their own id and evidence, rulings by who was asked, certificates of attested rulings only, the promises of the store | 1 162 000 |
| `studio` | Do overlapping browser requests leave sessions, rulings and files in order? | rulings taken once and refused by the verifier for one reason only, nothing runs after close but what an operation that failed left behind, every request is answered, no edit overwritten unseen | 428 000 |
| `language` | Do parser, linker, checker, interpreter and graph agree about a program, and does a fusion count each judgment once? | see section 4 | 100 000 |
| `recording` | Is what a session opens released, and what it recorded replayed? Can its ledger be restored? | one driver, a close that releases all, a completed replay reads the recorded values, a session is refused only where invocations overlapped, one crashed or a tool answers otherwise; every beginning of a ledger is accepted by `restore`, whatever the clock did | 731 000 |

Four runs show where the code does not do what a document says:

| Run | Disagreement |
|---|---|
| `fan_out_fiber_doc` | The paths of a fan-out in a background delivery share one held turn: the first keeps what the second waits for, while `Promise.all` waits for both. |
| `task_serial_doc` | Two tasks of one batch to one worker: their handlers overlap at a provider call, against SPEC 16.1. |
| `replay_doc` | Two paths of a fan-out that ask twice each: the live ledger interleaves them by when the provider answers, the replay by the order in which they wait, and the replay of a correct recording is refused, against SPEC 16.5. |
| `durable_doc` | Two sessions of one project store in memories of their own. Ticks count per session and the file is one: both operations have the first tick, the write goes through, and nobody can load the file again, against SPEC.md:1434. |

### Bounds

* `MaxFaults` (failures in a behaviour), `MaxAttempts` (invocations of one call),
  `MaxRevision` (writes of the file), `MaxFibers`, `MaxTopLevel` (deliveries, top
  level rows), `MaxTasks`, `MaxCalls`, `MaxStatements`, `MaxPrompts` (delegations,
  provider calls of a handler, statements and prompts of a session), `MaxRows`,
  `MaxDecides`, `MaxTokens` (rows, decisions on one credence, authorizations),
  `MaxAsks` (rulings an operation asks for), `MaxTime`, `MaxBatch` (clock and batch of a ledger), `Scale` (units of a probability), `Length`, `MaxDepth` (answers a statement
  may need, depth of reactions).
* `coordinator` has five mixes: three mutations of a region, each retried once, with
  one failure; a store and a forget, retried, with two; a store, a forget and a recall
  with one; two stores, a forget and a recall with none; and a store in each region, a
  close and a snapshot with one. Two failures are what a lost acknowledgement followed
  by a failed reconciliation needs; two stores and a forget give a store into the next
  generation. Of two like stores, the first is made first.
* `markdown_memory` has one store and one forget; six revisions are the first file,
  both mutations in full, and one stage that is aborted. Three openings are a dead owner
  and two candidates, the least with which a takeover can race. All openings are the same
  session; `durable_doc` has two openings of two sessions with one store each, which is the
  least that gives two operations one tick.
* `turns`: four deliveries allow a batch behind a batch and a delivery with two segments
  among others; a fan-out has three paths, one with two calls. `tasks`: three delegations
  in one turn (a nested one next to another one to the same worker), or two over two
  turns with a scope, and there either a sleeper or errors nothing contains and lost turns.
* `decision_gate` has five setups: two paths with a consult; one path beside a host that
  authorizes, inspects and deletes; one beside two host calls that retain and delete; one
  that decides twice; and nobody to ask. Scores are chosen so that one commits, one
  abstains over the floor and one under it; one failure or crash.
* `studio`: a start that may pause twice, a prompt, three rulings (one twice, one for a later
  pause), a close; two saves, a plain write and three sources.
* `language`: the pools of `MCLanguage`, one for each feature: every sequence of up to two
  or three steps of a small vocabulary, every answer of the world for three questions in
  a statement. The reading pool has every kind of expression in every place of every other,
  every statement and declaration, and five programs without each one of their tokens. The pools
  of the host's side have prompts with an input of the declared type or of another one, tools
  whose adapter is missing, tasks as literals, and memories of every kind of type.
  Fusions are of up to four credences, with and without names and one named twice, of every
  threshold from 0 to 3 and of chains of groups that meet in every order. `Machinery` says
  which of the two, programs and fusions, an instance has.
* `recording`: two lanes of up to three steps, with or without a tool and a handler, with their
  own or one shared memory, all in scope or one not; tools that answer as they did,
  otherwise or with a failure; a ledger
  of four rows in batches of one or two under a clock of four values, so that a batch
  can be earlier than the one before it and than the origin.
* The theorems of section 5 hold for all values of the constants of their modules.

### Fairness

`Fairness` of `TurnScheduler`, `FanOut` and `TaskRuntime` assumes weak fairness of each
continuation whose promise is resolved (the event loop runs every one in turn) and of
the end of a provider call (a connector has a timeout). `RegistryFairness` assumes it of
the session's due continuations, and that the user gives the ruling a run waits for: a
pause has no timeout in the code, and without the ruling nothing can be promised. No
fairness is assumed of new deliveries, prompts, cancels, requests or top-level rows; so
what waits in a session that has rejected may wait for a prompt that never comes, and
`EveryDeliveryEnds` and `EveryTaskTerminates` say so. The
memory models state no liveness: their callers may give up.

## 4. Properties and why they are hard to test

Each needs several steps of several activities to violate, or a program nobody would
write a test for. Some of the larger ones:

* `CommitsForGood`: what is exposed is committed by one row of its own, and what is
  committed is exposed or recoverable. It fails if the pending entry came one await
  after the append, or a retry appended again.
* `BarrierSettles` fails if a call visited only its own coordinator; `ConsultsOnlyCommitted`
  if a recall read the generation after its ranking.
* `LeaseGuardsCopy`: a holder whose lease was not raced is the one the lock names, its copy
  is the file, and a write replaces what it was computed from. `ReportedIsOnDisk`: what
  the ledger holds and a receipt names is in the file and rendered, and the file can be
  loaded again (in the run by every opening; in general unless operations of two sessions
  have one tick in it). Both fail if a write of unknown outcome did not fence the driver.
* `LedgerRestores`: what this runtime appended, every beginning of it (with its times or
  as a host hands it on without them) and what a resumed session adds are accepted by
  `restore`. It fails if a batch took the time of the clock.
* `BlocksEndClean`: whatever ends a block or a reaction, no handler stays armed, retries are
  counted, and a crash goes no further than the code contains it.
* `TurnsInOrder` fails if a delivery that arrives during a batch were started at once.
  Its part `NoOrphanTurn` gives the extent of what a throwing `apply` does (section 6): the
  turns that nobody will release are those and no other. `EveryDeliveryEnds` exempts only
  who waits behind such a turn, or for the prompt of a session that has rejected.
* `EveryTaskTerminates` fails if the sweep skipped a task that is queued and not delivered;
  a task without a terminal is one of a turn an error has left, until the sweep of a later
  turn, or stands behind a lost turn.
* `AuthorizedActionsAreJustified`: whoever reads the ledger backwards from an authorized
  action finds the endorsement, the decision and, for a principal, the ruling it names,
  with the same subject, variant and evidence, although other paths append in between.
  `LedgerIsExplained`: the evidence a `Decided` row names is bound to that decision, unless
  it was deleted since. `CertifiesWhatWasAttested` compares the reader of certificates,
  which has nothing but rows, with what happened.
* `StoreKeepsItsWord`: no answer after a deletion is from what was deleted, residue of an
  interrupted clean-up is transient, and a record is bound to one decision.
* `RulingsStand`, `RequestsAreServed`: a pause takes one ruling, its own, for good (the
  verifier behind it refuses it only under a driver that is not the host), and a
  waiter is notified whatever comes between pause and registration; a reply says "ready"
  when nothing runs but paths of a fan-out whose operation failed and told its caller.
* `SourceReadsBack`: a text of the core grammar reads as the program it was written from,
  others are refused, and what is read from a text with a token missing is a program that
  reads back as itself. `CheckerIsSound`: an accepted program does not meet an endorsement by an abstained
  decision, a return that does not end its function, a fusion of names no declaration
  covers, a memory it cannot describe (but for the one exception of section 6), or an action
  beyond an inherited grant. `NothingUnendorsedActs`: nothing a model
  said is an argument of an action without an endorsement by a decision about it,
  tracked by origins and not by the code's trust. `GraphShowsWhatRuns`: every row of a run
  lights a node of its agent that can be reached, in the arm that was decided.
* `FusionIsExact`: the clusters are the connected components of the declared dependence, in
  whatever order groups meet, and a quorum's probability is the chance that so many of them
  commit. It fails if a credence were hung below a node that is no root any more.
* `ReplayIsFaithful`: a replay that is not refused reads what the live run read;
  `SequentialRunsReplay`: it is refused only where invocations overlapped, one of them
  crashed, or a tool answers otherwise than it did. `DriversAreReleased`: at
  most one driver lives, and a close that succeeded left none open.

## 5. Proofs

| Module | Theorems | Assumptions beyond the named ASSUMEs |
|---|---|---|
| `NamedMemoryCoordinator_proofs` | `TypeCorrect`, `Invariance`, `Locking`, `CommitsOnce`, `LedgerDecides`, `BarrierIsSound`, `ReportsTruth`, `SnapshotIsComplete`, `RecallsWhatIsCommitted`, `Implements` (refinement of `NamedMemory`) | none |
| `TurnScheduler_proofs` | `TypeCorrect`, `Invariance`, `TakesTurns`, `OrderIsIssueOrder`, `Implements` (refinement of `TurnQueue`), `PipeKeepsOrder` (of the fan-out), `NoTurnIsLost`, `TakesTurnsInOrder` | none |
| `TaskRuntime_proofs` | `Invariance`, `Accounts`, `WaitersWait`, `Implements` (refinement of `Delegation`) | none |
| `MarkdownMemory_proofs` | of the lease `LeaseIsHeld`, `ExclusiveUnlessRaced`; of the driver `UsesLease`, `DriverHasLease`, `CopiesAreCurrent`, `WritesReplaceTheirBase`, `LeaseGuards`, `TypeCorrect`, `Durable`, `Implements` (refinement of `NamedMemory`), `ReceiptsAreRendered`, `Reopens`, `ReportedStays` | none; `Reopens` says of any number of sessions that the file can be loaded exactly when no operations of two of them have one tick in it, which `durable_doc` shows they may |
| `DecisionGate_proofs` | `Invariance`, `ActionsAreJustified`, `PrincipalsAreAttested`, `DecisionsAreExplained`, `CertificatesAgree`, `StoreIsTrue` | none |
| `Recording_proofs` | of the ledger `Restorable`; of runtime, recording and replay `Invariance`, `Released`, `ReplaysFaithfully`, `SequentialReplays` | none; the last is about runs whose lanes do not overlap, none of which crashed, and tools that answer alike, as its property says |
| `Studio_proofs` | `Invariance`, `TakesEachRulingOnce`, `QuietOnceClosed`, `ReadyIsDone`, `LosesNoEdit` | none |
| `Fusion_proofs` | `Clusters`, `FusedExactly` | none: `FusionAssumption` says what a fusion is |

The inductive invariants, and why the properties are not inductive alone:

* **Coordinator.** `RegionSerial` holds because the
  region of a prepared operation is locked; `CommitsForGood` needs to know,
  for each await, what the driver may answer there, that an operation has no row
  before its append, and that a coordinator does not close over a pending entry
  of its own barrier. `BarrierSettles` rests on the copy of the pending map a call
  goes through containing what was committed before it. A recall holds the
  generation it ranked in from the ranking on (`ConsultsOnlyCommitted`). For the
  refinement, the rows of mutations are ranked without gaps, so that the ledger has one
  sequence of committed operations and an append adds one at its end; a finalize or a
  reconciliation shows one, and every other step is a stutter of `NamedMemory`.
* **Turn scheduler.** The live deliveries stand in the order of their next
  segments, nobody is more than one segment ahead, released tickets form a prefix
  of the chain, and every row lies behind the next row of every live delivery; this part
  holds until an error is not contained, which is where `IssueOrder` and the refinement
  end too. For `Implements` there is a list without repetitions of the live deliveries in
  the order of their tickets, and a list with these two properties is unique (`OneList`),
  so it is the queue of `TurnQueue`. For the fan-out (`FanInv`) the released tickets are a
  prefix of the chain, the turn held is the first that is not released, and at most one
  ticket, the second, belongs to a delivery beside the fan-out. `NoTurnIsLost` needs that
  nobody acts behind a lost ticket: it is not released, and released tickets form a prefix.
* **Task runtime.** `TasksAreAccounted` says of the rows of a task what they look like,
  not why the next action may append the next one. `Rows` therefore lists the few chains
  a status allows; `Queues` says that what is queued, or is first in a batch and has no frame,
  is in the background and was not delivered, so that a delivery finds status "sent" or a
  tombstone; `Stacks` that a task stands in one place of one stack, the fiber's own task at
  the bottom and foreground delegations above it, so that an expiry at the end of a handler
  is of a task nobody else runs; `Ends` that a refused completion is followed by nothing in
  that handler; `Phases` that fibers run in drains only and that what a sweep has passed is
  terminal, from which `QuiescentIsTerminal` and `WaitersWait` follow; a turn that an error
  has left without a sweep, or in which a fiber waits for a lost turn, is marked and exempt. A queue is split by
  `Among`; that this keeps elements and repeats none is proved by least element
  (`AmongFacts`), since induction takes an operator. `Implements` needs only that whoever
  gets a terminal was "sent" or "delivered", and whoever completes was delivered.
* **Lease.** A candidate has found the owner of its stale lease dead, and the
  dead stay dead; so as long as every removal is of the lease that was examined
  (`~raced`) a live holder keeps its lease. `ExclusiveUnlessRaced` says that a
  raced removal is the only way to two holders.
* **Durable driver.** Its steps are steps of the lease (`UsesLease`). The copy is
  the file at every step of a call but one: between a failed write and the second
  look, when the file is what the call was writing. Every write marks the processes
  that have compared and not yet written. `MInv` adds, with or without races: each
  payload is staged on its own regions and finalized with rows of the ledger
  (`PayloadOK`), and each call still has what it began with (`CallPre`); while the lease
  is exclusive, no call aborts what has a row (`KeepsRows`), from which `Durable` and the
  refinement follow: an append commits, the write of a finalize shows, the rest
  stutters. A receipt needs `Ordered`: of two rows of one region the first is finalized
  before the second is committed, so what is finalized next is the latest of its region
  (`NextIsLatest`). For `Reopens` a `History` follows the file: the regions before
  each tick, the stages of the finalized operations being those they have there, and the
  regions of the file at its end. It is one history for each region, whose rows are of one
  session, so two sessions may share a tick in it. A finalize inserts its operation at its
  tick, behind all others of its region and possibly before ticks of other regions, which
  it leaves alone (`HistoryFinalized`). Where no tick is shared, the
  replay of `restoreJournalSnapshot` goes through the history (`ReplayTells`): an
  induction over ticks, done by least counterexample.
* **Gate and evidence store.** `GateInv` has three layers. Of the store: each call knows,
  unless its reference was deleted meanwhile, what it looked at (`Found`, `Matched`), and
  what is left of a deleted reference has somebody who will remove it; the residue of the
  evidence file needs one who has not yet passed `removeEvidence`, which is what makes
  `ResidueIsTransient` inductive. Of the rows: `DecidedOK`, `RulingOK` and `AuthorizedOK`
  say of each row what it points at, always further back, so that an append disturbs
  nothing (`RowStays`). Of the paths: what a path carries is what its own rows say, and
  nobody has answered the request it waits on. The decision id is the length of the ledger
  before the await of `bind`, so another path may append at that very tick: without
  evidence the row is appended at once and the id is its own tick; with evidence the
  reference in the row is the path's own, which is how `LineageIsOwn` concludes that the
  lineage that was validated is the path's and not that of a path that read the same id. `SlotOK`
  ties the path to its call of the store: `ok` means bound to this id or deleted since.
  `CertificatesAgree` needs that a ruling is earlier than the id of the decision.
* **Ledger.** `Accepts(rows)`, that the last elapsed time is the time of the last batch
  as counted from the origin, and that the observer has the tail. The one delicate step is
  a batch of a clock behind `originMs`, where both differences are cut off at 0.
* **Runtime and recording.** `RuntimeInv`: a pending driver is the promise every waiter
  has joined, a creation awaits one that lives, a coordinator belongs to the driver in use, and a close
  has been through every coordinator it leaves. `ValuesAreRows`: what a lane has read last
  is the value of its last row, so the ledger determines what is read; a replay whose rows
  are the recorded ones therefore read the same (`ReplaysFaithfully`). For
  `SequentialReplays` rows have to determine the rest too (`RunInv`): they are in program
  order, every step that was reached has its rows and no other, the n-th question is that
  of the n-th Sent row with its answer behind it, the n-th operation of the journal that
  of the n-th memory row with its tick and head; a call of a tool has its row behind it
  and the answer is what the property takes as given. Rows are only added (`RowsStay`), so
  a crash or another answer stays visible. Then the replay has a prefix of these
  rows, its cursors are what the prefix counts, and each request finds what it asks for.
* **Studio.** `RulingsStand` is not inductive: that the verifier never rejects what was
  accepted needs the record of `resolved` beside the ruling, that a ruling is used once
  needs `used`, and both hang on the pending request being the one in state "asked".
  `QuietWhenClosed` and `ReadyIsDone` rest on `GoingIsActive` (what runs, or is queued, is
  the active operation) with `AwaitsTheActive` (who awaits, awaits that one or one that has
  ended): when it has ended nothing else runs, so Create may close and a reply may say
  "ready". Both need `CreateIsFirst`: nobody has the capability before the reply of Create,
  which is what keeps a prompt from coming between start and the initial prompt. For
  `NoLostEdit`, a save that checks or graphs is the head of the queue and what it read
  again is its base. The liveness in `RequestsAreServed` is left to TLC.

* **Fusion.** That the clusters are components says nothing of the forest they are read off.
  `ClusterInv` gives it a root and a rank for every node (`Hangs`): a node that is not its own
  root hangs below one of higher rank and the same root. So `RootsOf` is that root (`RootsAre`),
  a `Find` changes no root whatever it compresses (`FindKeeps`), and a `Union` gives the nodes of
  one root the other one (`UnionJoins`). The roots never leave a set that keeps the
  dependent groups whole (`Separates`) and agree on all that was united so far (`Gathers`);
  once all groups are through, sets of one root are the components (`RootsAreComponents`), and
  `Sorted` says that the clusters are sets of one root. `QuorumInv` says of the array that, after
  `n` units, the sum from `k` on is the chance that at least `k` of the first `n` commit, for
  every `k`: a shift changes each sum as one more unit changes the chance. What the recursive
  functions compute is shown by the least number at which two of them differ
  (`Agree`); that they exist, by the least one without a start of that length (`StartsExist`).
  Both take the place of an induction.

Model-checked only: the liveness properties, and of the `language` run `SourceReadsBack`,
`NothingUnendorsedActs`, `CheckerIsSound`, `NamesResolveToExports`, `BlocksEndClean` and
`GraphShowsWhatRuns`: the modules they are about declare RECURSIVE operators over syntax
trees, which the prover does not take, and what a recursive definition does to every tree is
an induction over data. Liveness under fairness and ENABLED are out of its reach too. Every
other property of a passing run is stated by a theorem, the safety part of a property that
has both.

## 6. Differences between code and documents without a run of their own

* Recall and close leave the barrier without a second look: a store that commits in
  a member already visited is read over, or stays pending in a closed coordinator,
  though SPEC.md:3235 says that a committed mutation must be reconciled before recall
  or close can proceed. `BarrierSettles` is what does hold.
* A failure of `status` between prepare and commit leaves the region staged until the
  evaluation is retried (SPEC.md:3231); a failed reconciliation is reported as a failure
  of the later call (SPEC.md:3234).
* `Promise.all` of a fan-out rejects with the first failure, the other paths go on
  detached (interp.ts:2818, 2825).
* An error that deliverTask does not contain rejects the batch while the other
  fibers go on behind the next statement (interp.ts:1532, 1538); hence `Broken` in
  `IssueOrder` and `TurnQueue`.
* A crash is contained in a handler and in an awake hook alone: one in a sleep hook
  (interp.ts:1141), a constructor (interp.ts:1395) or a top-level statement (interp.ts:966)
  ends the session, though SPEC 16.6 (SPEC.md:3179) says that the invocation alone is
  abandoned and the agent goes on.
  `CrashIsContained`, a part of `BlocksEndClean`, names the exceptions.
* A retry block around a call whose `apply` threw waits for its own turn
  (interp.ts:1127).
* The durable driver answers "aborted" and forgets the operation, so that it may be
  prepared again; the in-process driver remembers it as aborted.
* After a forget whose rendering failed and a store that opened the next generation,
  nothing rewrites the Markdown file of the forgotten generation
  (named_memory_markdown.ts:913).
* `inTurnOrder` stores the held turn only after `apply` returned (interp.ts:2158). A
  structured send throws in `apply` on every failure of its connector and on a reply of the wrong
  type (interp.ts:3426-3463); that turn is then never released, the deliveries behind
  it wait for ever and the drain never ends, although interp.ts:2165 says that the turn is
  always released, whatever the outcome. `Turns.cfg` has the outcome "throw", and
  `NoOrphanTurn` says how far this goes: no other turn is lost.
* "Every task is terminal by construction" (interp.ts:3516) holds for turns that reach
  their sweep. An error deliverTask does not contain (interp.ts:1592), or the crash of a
  foreground delegation at the top level, leaves `start` or `sendPrompt` before the
  sweep (interp.ts:965, 981): tasks stay without a terminal until a later turn, and
  for ever if nobody prompts; so do deliveries still queued, since nothing drains them.
* A ruling the studio session has accepted may be refused by its own verifier: the
  configuration takes any driver for an attester (config.ts:74, 279), `verifyAttester`
  takes "host" alone (runtime-session.ts:763). The consult then faults.
* After an operation of a studio session failed in one path of a fan-out, the other
  paths run on. The session has no active operation and answers "ready"
  (runtime-session.ts:698) while they run; they may append rows after a close.
* A memory operation whose scope identity is missing crashes its invocation
  (`raiseMemoryFault`, interp.ts:3235) and leaves nothing in the journal. Contained in a handler, it lets `run`
  return and the recording is written (cli.ts:391), but `replayStore`
  (named_memory_runtime.ts:432) looks at no scope: the replay meets an exhausted or another
  entry and is refused, although nothing overlapped.
* A replay calls wired tools again (interp.ts:2033, tool_adapters.ts:15): their results are in
  the ledger and not in the recording. The comment at interp.ts:2031 calls the pair of rows
  the replay journal of the seam, and SPEC.md:3159 promises an identical head without
  invoking an external seam; both hold only of tools that answer as they did.
  `SequentialRunsReplay` names these two exceptions.
* Three processes and the lease: the owner dies and two take over. One passes its check of
  the lock, the other wins, links its lease and drops its claim; the first now lists only
  its own claim, unlinks the live lease and links another. Both hold it
  (named_memory_markdown.ts:267). `ExclusiveLease` is refuted by it and
  `ExclusiveUnlessRaced` is what does hold.
* A decision id is the length of the ledger before awaits (interp.ts:2302); SPEC.md:1764
  says that it is the tick of the `Decided` row; two paths that overlap may have read the same
  one. What still holds is that evidence and row agree on the id (`LedgerIsExplained`) and that no
  action is authorized by the row of another path (`AuthorizedActionsAreJustified`).
* An endorsement compares its subject with that of the decision only when both are
  plain names (interp.ts:2441), though interp.ts:2393 says that another subject cannot be
  laundered by a decision about something else. Members of a record pass on the
  authorization of the record (interp.ts:3673). The memory pool stores no values of structured types.
* `pending` of the run server describes the ruling that is asked for (server.ts:715); a second consult
  from another path overwrites it (server.ts:828), and attesting answers the later one.
* The initial prompt of a studio session is dropped when start pauses for a ruling
  (runtime-session.ts:575); a second consult while one is pending fails the run
  (runtime-session.ts:720); `/api/stop` forgets a session without closing it; the response of a saved
  flow pairs its source with the graph of a file that may be newer (server.ts:1231).
* `when (TypeMismatch ...)`, `RetryExhausted` and `AgentCrashed` handlers never fire, because those
  rows are appended without cascade. Assigning a decision does not clear its narrowing in the checker.
* A companion module with a header or imports is refused by `parse` (check.ts:190); a whole
  import with an alias exposes private names of the module it republishes (check.ts:394);
  two ways to one module make a legal import fail (the shared `seen` of check.ts:239).
* `f(a < b, c > (d))` is read as a call with type arguments (parser.ts:1229 says comparisons
  are safe). A chain of `<-` is refused though parser.ts:955 calls it right-associative; `when (T about x)`
  without a name is refused though SPEC.md:2236 has it; argument lists take missing and
  trailing commas.
* Memory of a struct that contains itself is accepted by the checker (`isPersistable` takes a
  struct it is already looking at to be persistable, check.ts:1141) and refused by the runtime
  when the session opens (`resolvePersistedSchema`, interp.ts:3158). `KeepsRecursively`, a part
  of `CheckerIsSound`, names the exception.
* Not in the graph: handlers hoisted in blocks (graph.ts:601 says they have a context of their
  own), bodies an agent inherits, events of tools, the `tool` nodes of GRAPH.md.

## 7. Plan

Done, in this order: coordinator and driver; turn scheduler and fan-out; task runtime;
lease and durable driver and their theorems; evidence store, decision gate and
certificates; studio services; runtime, recording and replay; parser, linker, checker,
evaluation, graph and fusion; theorems about each of them but the modules over syntax
trees. Next:

1. Proofs: what remains is in the language, of the helpers that need no recursion.
2. Language: stored values of structured types, margins (`enforceMarginFloor`), several modules at run time.

## 8. Not modelled

* Validation of values, schemas, hashing, paths and formatting: sequential data code. The
  hash of a ledger is taken to be injective.
* In the durable driver: memory of session retention (it is `NamedMemoryDriver`), the
  archive of a forgotten generation (written with the projection), temporary files and
  their clean-up, platforms without process start markers. A crash ends a process, not
  the machine: what a rename left in the file stays there.
* In the task runtime: a scope inside a delivered handler, a delegation inside a
  fan-out. A prompt of a session that has rejected comes when no fiber of the turn
  before is left (the code does not wait for that). A reaction to Expired that delegates
  without condition is cut off by `MaxTasks`; in the code the sweep would go on for ever.
* In the gate: more than one guarded argument of an action, the gate of an entailment, what
  evidence says (only what it is bound to). Among what a certificate compares, that the agent of
  the decision is the one of the request (runtime-session.ts:433): a path here is one agent.
* In the language: the characters of tokens and the wording of errors; margins; a call with
  type arguments that is a comparison, lower-case type names, statements that begin with a
  gate and go on with an operator or with a brace.
* Encryption and the envelope of a recording file.
* Older Markdown memory and the classified memory runtime (`memory*.ts`): the interpreter
  is still given such a driver and never calls it; only tests reach their operations.
* Conformance adapters: runners of scenarios around the public calls modelled here.
* The adapters of tools (a call of one and its answer or failure are steps of `Recording`).
* Configuration, command line, the Python server and the web interface: I/O and
  presentation. Authentication, tokens, rate limits and child processes of the servers.
