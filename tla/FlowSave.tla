------------------------------ MODULE FlowSave ------------------------------
(* Saves of the flow editor (agent-server/server.ts PUT /project/flow,       *)
(* serializeFlowSave, checkAndReplaceProjectFile) beside plain writes of the *)
(* same file.  A source stands for its revision, which is its hash.          *)
EXTENDS Naturals, Sequences

CONSTANTS
    Saves,          \* PUT /project/flow
    Writes,         \* POST /project/file
    Sources         \* contents of the file

VARIABLES
    file,           \* content of the project file
    queue,          \* flowSaveTails: saves in order, the head runs
    save,           \* save -> where it is, what it was based on, what it writes
    writes          \* plain writes still to come

flowVars == <<file, queue, save, writes>>

Steps == {"idle", "loaded", "queued", "checking", "graphing", "saved", "stale", "invalid"}

FlowInit ==
    /\ file \in Sources
    /\ queue = << >>
    /\ save = [s \in Saves |-> [at |-> "idle", base |-> file, new |-> file, current |-> file]]
    /\ writes = Writes

Load(s) ==
    /\ save[s].at = "idle"
    /\ save' = [save EXCEPT ![s].at = "loaded", ![s].base = file]
    /\ UNCHANGED <<file, queue, writes>>

Put(s) ==
    /\ save[s].at = "loaded"
    /\ save' = [save EXCEPT ![s].at = "queued"]
    /\ queue' = Append(queue, s)
    /\ UNCHANGED <<file, writes>>

Ends(s, at) ==
    /\ save' = [save EXCEPT ![s].at = at]
    /\ queue' = Tail(queue)

\* The turn of a save: the revision it was based on is the current one, and
\* its changes apply; a candidate is written beside the file and checked.
First(s) == queue # << >> /\ Head(queue) = s

Begin(s) ==
    /\ First(s) /\ save[s].at = "queued"
    /\ IF save[s].base # file THEN Ends(s, "stale")
       ELSE \/ Ends(s, "invalid")
            \/ /\ \E new \in Sources : save' =
                     [save EXCEPT ![s].at = "checking", ![s].new = new, ![s].current = file]
               /\ UNCHANGED queue
    /\ UNCHANGED <<file, writes>>

\* The check of the candidate ran in another process; the revision is read
\* again, and the rename follows without an await.
Unchecked(s) == TRUE \* mutant
StillCurrent(s) == file = save[s].current

Replace(s) ==
    /\ save[s].at = "checking"
    /\ IF StillCurrent(s)
       THEN /\ file' = save[s].new
            /\ save' = [save EXCEPT ![s].at = "graphing"]
            /\ UNCHANGED queue
       ELSE Ends(s, "stale") /\ UNCHANGED file
    /\ UNCHANGED writes

Rejected(s) ==
    /\ save[s].at = "checking" /\ Ends(s, "invalid")
    /\ UNCHANGED <<file, writes>>

\* The graph for the response is compiled from the file before the next save.
Graphed(s) ==
    /\ save[s].at = "graphing" /\ Ends(s, "saved")
    /\ UNCHANGED <<file, writes>>

\* POST /project/file asks nobody.
Write(w) ==
    /\ w \in writes /\ writes' = writes \ {w}
    /\ file' \in Sources
    /\ UNCHANGED <<queue, save>>

FlowNext ==
    \/ \E s \in Saves : Load(s) \/ Put(s) \/ Begin(s) \/ Replace(s) \/ Rejected(s) \/ Graphed(s)
    \/ \E w \in Writes : Write(w)

-----------------------------------------------------------------------------
\* A flow save replaces the source its editor had loaded and no other: no
\* edit, of another editor or a plain write, is lost under it, although the
\* check of the candidate takes a process (checkAndReplaceProjectFile).
NoLostEdit ==
    [][\A s \in Saves :
          save'[s].at = "graphing" /\ save[s].at # "graphing" => file = save[s].base]_flowVars
=============================================================================
