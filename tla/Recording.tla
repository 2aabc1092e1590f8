----------------------------- MODULE Recording -----------------------------
(* A session of the command line that is recorded, and its replay: the       *)
(* recording provider keeps every answer in the slot of its question, the    *)
(* memory runtime journals every operation, and the replay serves both from  *)
(* the recording and compares what it reads and writes with it.  The tools   *)
(* of the catalog are in no journal: the replay calls them again.            *)
EXTENDS MemoryRuntime

CONSTANTS Answers,   \* what a provider or a recall may return
          Programs,  \* [steps: lane -> sequence of step kinds, key: lane -> key,
                     \*  lacks: keys whose scope the identity does not give, overlap]
          Microtasks \* TRUE: a replay resumes its lanes in the order they wait

StepKinds == {"validate", "reply", "store", "recall", "tool"}

ASSUME LanesAssumption == Lanes \subseteq Nat
ASSUME ProgramsAssumption ==
  Programs \subseteq [steps : [Lanes -> Seq(StepKinds)], key : [Lanes -> Keys],
                      lacks : SUBSET Keys, overlap : BOOLEAN]

VARIABLES program,   \* the source, the same for the recorded run and its replay
          at,        \* lane -> steps finished
          asking,    \* lane -> slot of the question it waits on, 0 for none
          tool,      \* lane -> the tool it has called: "none", "called", "back", and its result
          chain,     \* the lanes that wait for a call, in the order of their calls
          value,     \* lane -> the value it read last
          slots,     \* the provider recording: question and answer in order of issue
          errors,    \* an invocation of the recorded run failed
          artifact,  \* the written recording, <<>> before
          taken, cursor, \* what the replay has consumed of each journal
          ready,     \* the lanes of the replay in the order they wait
          verdict    \* "none", "replayed", "refused", "failed" (as a tool did)
vars == <<memoryVars, program, at, asking, tool, chain, value, slots, errors, artifact, taken, cursor,
          ready, verdict>>
replayVars == <<taken, cursor, ready, verdict>>

None == "none"
Order == SetToSortSeq(Lanes, <)
Steps(l) == program.steps[l]
IsDone(l) == at[l] = Len(Steps(l))
Step(l) == Steps(l)[at[l] + 1]
\* lanes that do not overlap run one behind the other
MayRun(l) == /\ ~IsDone(l)
             /\ program.overlap \/ \A m \in Lanes : m < l => IsDone(m)

\* a question is its text, not who asks: two lanes may ask the same one
Question(l) == [step |-> at[l], about |-> value[l]]
Row(etype, l, v) == [etype |-> etype, lane |-> l, step |-> at[l], val |-> v]
Request(l, v) == [kind |-> Step(l), lane |-> l, step |-> at[l], val |-> v]

AtStart == [l \in Lanes |-> 0]
NoValue == [l \in Lanes |-> None]
NoTool == [at |-> "none", result |-> None]

Init ==
  /\ MemoryInit
  /\ at = AtStart /\ asking = AtStart /\ value = NoValue /\ slots = << >>
  /\ tool = [l \in Lanes |-> NoTool] /\ chain = << >>
  /\ program \in Programs
  /\ errors = FALSE /\ artifact = << >>
  /\ taken = 0 /\ cursor = 0 /\ ready = Order /\ verdict = "none"

IsLive == artifact = << >>
Moves(l) == at' = [at EXCEPT ![l] = @ + 1]
memoryRest == <<driverPromise, driver, drivers, coordinators, creations, operations, closing,
                closed, handled, lane, faults>>
Recorded == artifact[1]

\* lane l waits for no provider and no tool
Free(l) == asking[l] = 0 /\ tool[l].at = "none"
HasAnswer(l) == IF asking[l] # 0 THEN IsLive => slots[asking[l]].answer # None
                ELSE tool[l].at = "back"
\* results are applied in the order of the calls (inResolutionOrder)
Waits(l) == chain' = Append(chain, l)
Returns(l) == chain' = SelectSeq(chain, LAMBDA m : m # l)
\* what the event loop may do without waiting for the outside
CanGo(l) == /\ MayRun(l) /\ verdict = "none"
            /\ IF Free(l) THEN lane[l].stage = "idle" ELSE HasAnswer(l) /\ chain[1] = l
First(l) == \A m \in Lanes : CanGo(m) => m = l \/ \E i, j \in DOMAIN ready :
                                i < j /\ ready[i] = l /\ ready[j] = m
Resumes(l) == /\ CanGo(l)
              /\ Microtasks => First(l)
              /\ ready' = Append(SelectSeq(ready, LAMBDA m : m # l), l)
\* the outside answers when nothing is left to do
Outside == Microtasks => \A m \in Lanes : ~CanGo(m)

------------------------------------------------------------------------------
\* the recorded run
\* the slot is reserved when the question is asked
Reserved(n) == n + 1

Asks(l) ==
  /\ IsLive /\ Resumes(l) /\ Step(l) = "reply" /\ Free(l)
  /\ ledger' = Append(ledger, Row("Sent", l, value[l])) /\ Waits(l)
  /\ asking' = [asking EXCEPT ![l] = Reserved(Len(slots))]
  /\ slots' = Append(slots, [question |-> Question(l), answer |-> None])
  /\ UNCHANGED <<memoryRest, program, at, tool, value, errors, artifact, taken, cursor, verdict>>

Arrives(l) ==
  /\ IsLive /\ asking[l] # 0 /\ slots[asking[l]].answer = None /\ Outside
  /\ \E a \in Answers : slots' = [slots EXCEPT ![asking[l]].answer = a]
  /\ UNCHANGED <<memoryVars, program, at, asking, tool, chain, value, errors, artifact, replayVars>>

Applied(l, a) ==
  /\ value' = [value EXCEPT ![l] = a]
  /\ ledger' = Append(ledger, Row("Resolved", l, a))
  /\ asking' = [asking EXCEPT ![l] = 0] /\ Moves(l) /\ Returns(l)

Answered(l) ==
  /\ IsLive /\ asking[l] # 0 /\ Resumes(l)
  /\ Applied(l, slots[asking[l]].answer)
  /\ UNCHANGED <<memoryRest, program, tool, slots, errors, artifact, taken, cursor, verdict>>

\* what the lane's memory operation reads: a recall whatever is stored
Reads(l) == IF Step(l) = "recall" THEN Answers ELSE {value[l]}
Given(l) == IF Step(l) = "recall" THEN None ELSE value[l]

\* the synchronous part of a memory step ...
MemoryStarts(l) ==
  /\ IsLive /\ Resumes(l) /\ Step(l) \notin {"reply", "tool"} /\ Free(l)
  /\ \/ Step(l) = "validate" /\ Validates(l) /\ UNCHANGED <<at, errors>>
     \/ /\ Step(l) = "validate" /\ IsOpen /\ driver # 0
        /\ Moves(l) /\ UNCHANGED <<memoryVars, errors>>
     \/ Step(l) # "validate" /\ Call(l, program.key[l]) /\ UNCHANGED <<at, errors>>
     \/ ~IsOpen /\ Moves(l) /\ errors' = TRUE /\ UNCHANGED memoryVars
  /\ UNCHANGED <<program, asking, tool, chain, value, slots, artifact, taken, cursor, verdict>>

\* a CrashError that a handler contains: its AgentCrashed row, and the handler is over
Contained(l) ==
  /\ ledger' = Append(ledger, Row("AgentCrashed", l, value[l]))
  /\ at' = [at EXCEPT ![l] = Len(Steps(l))]

InScope(l) == program.key[l] \notin program.lacks

\* assertOpenAndScoped: the identity of the session has no subject of this scope.
\* In a handler that is a contained crash, at the top level the run rejects.
OutOfScope(l) ==
  /\ lane[l].stage = "inside" /\ ~InScope(l)
  /\ lane' = [lane EXCEPT ![l] = Idle]
  /\ \/ Contained(l) /\ UNCHANGED errors
     \/ Moves(l) /\ errors' = TRUE /\ UNCHANGED ledger
  /\ UNCHANGED <<driverPromise, driver, drivers, coordinators, creations, operations,
                 closing, closed, handled, faults>>

\* ... and what follows its awaits.  Any other failure rejects the run.
MemoryGoesOn(l) ==
  /\ IsLive /\ lane[l].stage # "idle" /\ Outside
  /\ \/ Validated(l) /\ Moves(l) /\ UNCHANGED value /\ errors' = (errors \/ driver' = 0)
     \/ Enter(l) /\ UNCHANGED <<at, value, errors>>
     \/ OutOfScope(l) /\ UNCHANGED value
     \/ \E v \in Reads(l) : /\ InScope(l) /\ Commits(l, Row(Step(l), l, v))
                            /\ value' = [value EXCEPT ![l] = v]
                            /\ UNCHANGED <<at, errors>>
     \/ Finishes(l, Request(l, Given(l))) /\ Moves(l) /\ UNCHANGED <<value, errors>>
     \/ /\ Refused(l) \/ (InScope(l) /\ Fails(l))
        /\ Moves(l) /\ errors' = TRUE /\ UNCHANGED value
  /\ UNCHANGED <<program, asking, tool, chain, slots, artifact, replayVars>>

------------------------------------------------------------------------------
\* the tools of the catalog, called in the recorded run and in the replay

\* invokeWired up to its await
ToolCalled(l) ==
  /\ Resumes(l) /\ Step(l) = "tool" /\ Free(l)
  /\ ledger' = Append(ledger, Row("ToolStarted", l, value[l])) /\ Waits(l)
  /\ tool' = [tool EXCEPT ![l].at = "called"]
  /\ UNCHANGED <<memoryRest, program, at, asking, value, slots, errors, artifact, taken, cursor,
                 verdict>>

\* the tool answers, with None when it fails
ToolReturns(l) ==
  /\ tool[l].at = "called" /\ Outside
  /\ \E a \in Answers \cup {None} : tool' = [tool EXCEPT ![l] = [at |-> "back", result |-> a]]
  /\ UNCHANGED <<memoryVars, program, at, asking, chain, value, slots, errors, artifact, replayVars>>

ToolAnswered(l) ==
  /\ tool[l].at = "back" /\ tool[l].result # None /\ Resumes(l)
  /\ value' = [value EXCEPT ![l] = tool[l].result]
  /\ ledger' = Append(ledger, Row("ToolResolved", l, tool[l].result))
  /\ tool' = [tool EXCEPT ![l] = NoTool] /\ Moves(l) /\ Returns(l)
  /\ UNCHANGED <<memoryRest, program, asking, slots, errors, artifact, taken, cursor, verdict>>

\* a failed tool rejects the run; what its arguments hold of a private memory
\* makes it a crash, which a handler contains
ToolFailed(l) ==
  /\ tool[l].at = "back" /\ tool[l].result = None /\ Resumes(l)
  /\ tool' = [tool EXCEPT ![l] = NoTool] /\ Returns(l)
  /\ \/ Contained(l) /\ UNCHANGED <<errors, verdict>>
     \/ IsLive /\ Moves(l) /\ errors' = TRUE /\ UNCHANGED <<ledger, verdict>>
     \/ ~IsLive /\ verdict' = "failed" /\ UNCHANGED <<ledger, at, errors>>
  /\ UNCHANGED <<memoryRest, program, asking, value, slots, artifact, taken, cursor>>

ToolStep == \E l \in Lanes : ToolCalled(l) \/ ToolReturns(l) \/ ToolAnswered(l) \/ ToolFailed(l)

AllDone == \A l \in Lanes : IsDone(l)

\* the driver and the creations go on by themselves; the run closes at its end
Runtime ==
  /\ IsLive /\ Outside
  /\ \/ \E p \in DOMAIN drivers : DriverSettles(p)
     \/ \E c \in DOMAIN creations : CreationSettles(c)
     \/ (AllDone \/ errors) /\ BeginClose
     \/ CloseCoordinator
     \/ CloseDriver
  /\ errors' = (errors \/ (closing /\ ~closing'))
  /\ UNCHANGED <<program, at, asking, tool, chain, value, slots, artifact, replayVars>>

------------------------------------------------------------------------------
\* the recording is written when the run returns, and a replay starts from it
Records ==
  /\ IsLive /\ closed /\ ~errors /\ AllDone
  /\ \A i \in DOMAIN slots : slots[i].answer # None
  /\ artifact' = <<[provider |-> slots, memory |-> operations, head |-> ledger, read |-> value]>>
  /\ at' = AtStart /\ asking' = AtStart /\ value' = NoValue /\ slots' = << >>
  /\ ready' = Order /\ ledger' = << >> /\ operations' = << >>
  /\ UNCHANGED <<driverPromise, driver, drivers, coordinators, creations, closing, closed,
                 handled, lane, faults, program, tool, chain, errors, taken, cursor, verdict>>

Refuses == verdict' = "refused" /\ UNCHANGED <<ledger, at, asking, chain, value, taken, cursor>>

\* the next provider answer, when it is one to this very question
ReplayAsks(l) ==
  /\ ~IsLive /\ Resumes(l) /\ Step(l) = "reply" /\ Free(l)
  /\ IF taken < Len(Recorded.provider) /\ Recorded.provider[taken + 1].question = Question(l)
     THEN /\ taken' = taken + 1
          /\ asking' = [asking EXCEPT ![l] = taken + 1]
          /\ ledger' = Append(ledger, Row("Sent", l, value[l])) /\ Waits(l)
          /\ UNCHANGED <<at, value, cursor, verdict>>
     ELSE Refuses

ReplayAnswered(l) ==
  /\ ~IsLive /\ asking[l] # 0 /\ Resumes(l)
  /\ Applied(l, Recorded.provider[asking[l]].answer)
  /\ UNCHANGED <<taken, cursor, verdict>>

\* appendRecorded: the row of the journal, at its tick and under its head
Appends(op) == /\ Len(ledger) = op.tick
               /\ Append(ledger, op.row) = op.head

ReplayMemory(l) ==
  /\ ~IsLive /\ Resumes(l) /\ Step(l) \notin {"reply", "validate", "tool"}
  /\ LET op == Recorded.memory[cursor + 1]
     IN IF /\ cursor < Len(Recorded.memory)
           /\ op.request = Request(l, Given(l))
           /\ Appends(op)
        THEN /\ cursor' = cursor + 1
             /\ ledger' = Append(ledger, op.row)
             /\ value' = [value EXCEPT ![l] = op.row.val]
             /\ Moves(l)
             /\ UNCHANGED <<asking, chain, taken, verdict>>
        ELSE Refuses

\* a replay needs no driver
ReplayValidates(l) ==
  /\ ~IsLive /\ Resumes(l) /\ Step(l) = "validate" /\ Moves(l)
  /\ UNCHANGED <<ledger, asking, chain, value, taken, cursor, verdict>>

\* mutant: the head is not compared
AnyHead(head) == Len(ledger) = Len(Recorded.head)
\* the head of the replay is the head of the recording
SameHead(head) == head = Recorded.head

ReplayEnds ==
  /\ ~IsLive /\ verdict = "none" /\ AllDone
  /\ verdict' = IF /\ cursor = Len(Recorded.memory) /\ taken = Len(Recorded.provider)
                   /\ SameHead(ledger)
                THEN "replayed" ELSE "refused"
  /\ UNCHANGED <<ledger, at, asking, chain, value, taken, cursor, ready>>

ReplayStep ==
  /\ \/ \E l \in Lanes : \/ ReplayAsks(l) \/ ReplayAnswered(l)
                         \/ ReplayMemory(l) \/ ReplayValidates(l)
     \/ ReplayEnds
  /\ UNCHANGED <<memoryRest, program, tool, slots, errors, artifact>>

Next ==
  \/ \E l \in Lanes : Asks(l) \/ Arrives(l) \/ Answered(l) \/ MemoryStarts(l) \/ MemoryGoesOn(l)
  \/ ToolStep
  \/ Runtime
  \/ Records
  \/ ReplayStep
Spec == Init /\ [][Next]_vars

------------------------------------------------------------------------------
\* A replay that is accepted read in every lane what the recorded run read, even
\* where two lanes ask the same question and the journals alone would let their
\* answers change places (the comparison of heads in cli.ts).
ReplayIsFaithful == verdict = "replayed" => value = Recorded.read

\* No invocation of the recorded run crashed.
NothingCrashed == \A i \in DOMAIN Recorded.head : Recorded.head[i].etype # "AgentCrashed"

\* So far the tools have answered the replay as they answered the recorded run.
ToolsAnswerAlike ==
  \A i \in DOMAIN ledger :
    ledger[i].etype \in {"ToolResolved", "AgentCrashed"} =>
      i \in DOMAIN Recorded.head /\ ledger[i] = Recorded.head[i]

\* What a replay may be refused for, when it is one of a correct recording: its
\* invocations overlapped, one of them crashed (a fault of a missing scope that
\* a handler contained is in no journal, and the replay asks for what was not
\* recorded), or a tool answers otherwise (NamedMemoryRuntime, ReplayProvider
\* and the comparison of heads in cli.ts).
SequentialRunsReplay ==
  verdict = "refused" => program.overlap \/ ~NothingCrashed \/ ~ToolsAnswerAlike

\* Every recorded run replays: SPEC.md and the conformance manifest promise it
\* with no exception for invocations that overlap.
EveryRecordingReplays == verdict # "refused"
==============================================================================
