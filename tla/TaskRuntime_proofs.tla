------------------------- MODULE TaskRuntime_proofs -------------------------
(***************************************************************************)
(* Every delegation is accounted for, whoever waits goes on only after the *)
(* terminal it waits for, and the statuses implement Delegation: theorems  *)
(* about TaskRuntime for any number of tasks, workers, calls, statements   *)
(* and prompts.                                                            *)
(***************************************************************************)
EXTENDS TaskRuntime, WellFoundedInduction, TLAPS

-----------------------------------------------------------------------------
(* The inductive invariant.                                                *)

\* What the rows of a task can be before a completion of it is refused.
RowsOf(s) ==
  CASE s = "unsent" -> {<< >>}
    [] s = "sent" -> {<<"Sent">>}
    [] s = "delivered" -> {<<"Sent", "Delivered">>}
    [] s = "completed" -> {<<"Sent", "Delivered", "Resolved", "TaskCompleted">>}
    [] s = "failed" -> {<<"Sent", "Delivered", "TaskFailed">>}
    [] s = "cancelled" -> {<<"Sent", "TaskCancelled">>, <<"Sent", "Delivered", "TaskCancelled">>}
    [] s = "expired" -> {<<"Sent", "Expired">>, <<"Sent", "Delivered", "Expired">>}

Plain(t) == ledger[t] \in RowsOf(status[t])

Refused(t) ==
  /\ Terminal(t)
  /\ \E rows \in RowsOf(status[t]) : ledger[t] = Append(rows, "CompletionRefused")

\* The rows of a task say its status, and tasks are sent in their order.
Rows ==
  \A t \in Tasks :
    /\ Plain(t) \/ Refused(t)
    /\ status[t] = "unsent" <=> sent < t

NoRepeats(seq) == \A i, j \in DOMAIN seq : seq[i] = seq[j] => i = j

\* The task is one of the running batch.
InTurns(t) == \E i \in DOMAIN turns : turns[i] = t

\* A task is queued or in a batch once, in the background, and until its
\* handler runs it is not delivered; a fiber that lost its turn stays behind.
Queues ==
  /\ NoRepeats(pending)
  /\ NoRepeats(turns)
  /\ \A i \in DOMAIN pending :
       pending[i] <= sent /\ ~foreground[pending[i]] /\ ~InTurns(pending[i])
         /\ status[pending[i]] # "delivered"
  /\ \A i \in DOMAIN turns :
       turns[i] <= sent /\ ~foreground[turns[i]]
         /\ (frames[turns[i]] = << >> /\ turns[i] \notin lost => status[turns[i]] # "delivered")

\* The stack of a fiber is in its own task and in foreground delegations below
\* it; a task is in one place only.
Stacks ==
  /\ \A r \in Runners : \A i \in DOMAIN frames[r] :
       /\ frames[r][i] <= sent
       /\ foreground[frames[r][i]] <=> r = 0 \/ i > 1
       /\ r # 0 => frames[r][1] = r /\ InTurns(r)
  /\ \A r, s \in Runners : \A i \in DOMAIN frames[r], j \in DOMAIN frames[s] :
       frames[r][i] = frames[s][j] => r = s /\ i = j

\* Who leaves a handler has the turn, and a refused completion leaves it.
Ends ==
  /\ \A r \in Runners : raising[r] # "no" =>
       frames[r] # << >> /\ (r # 0 => turns # << >> /\ turns[1] = r)
  /\ \A r \in Runners : \A i \in DOMAIN frames[r] :
       Refused(frames[r][i]) => i = Len(frames[r]) /\ raising[r] = "done"

\* Where the top level is when fibers run, and what a sweep has passed.
Phases ==
  /\ turns # << >> => phase \in {"drain", "closing", "failed"}
  /\ frames[0] # << >> => phase = "statement" \/ reacting
  /\ reacting => phase \in {"sweep", "closeSweep"}
  /\ swept <= sent
  /\ \A t \in Tasks : owned[t] => t <= sent
  /\ phase = "sweep" => \A t \in Tasks : t <= swept => Terminal(t)
  /\ phase = "closeSweep" => \A t \in Tasks : t <= swept /\ owned[t] => Terminal(t)
  /\ phase = "quiescent" => \A t \in Tasks : t <= sent => Terminal(t)

IInv == TypeOK /\ Rows /\ Queues /\ Stacks /\ Ends /\ Phases

-----------------------------------------------------------------------------
(* Filtering a queue.                                                      *)

\* One step of the function in Among.
Picked(seq, S, f, i) ==
  IF i = 0 THEN << >>
  ELSE IF seq[i] \in S THEN Append(f[i - 1], seq[i]) ELSE f[i - 1]

\* Every set of naturals has a least element.
LEMMA Least ==
  ASSUME NEW S \in SUBSET Nat, S # {}
  PROVE  \E n \in S : \A m \in S : n <= m
<1>1. PICK n \in S : \A m \in S : ~(<<m, n>> \in OpToRel(<, Nat))
  BY NatLessThanWellFounded, WFMin
<1>2. \A m \in S : ~(m < n) BY <1>1, Zenon DEF OpToRel
<1> QED BY <1>2

\* The function that filters the first n elements.
UpTo(seq, S, n) == {f \in [0 .. n -> Seq(Tasks)] : \A i \in 0 .. n : f[i] = Picked(seq, S, f, i)}

LEMMA UpToExists ==
  ASSUME NEW seq \in Seq(Tasks), NEW S
  PROVE  \A n \in 0 .. Len(seq) : UpTo(seq, S, n) # {}
<1> DEFINE Bad == {n \in 0 .. Len(seq) : UpTo(seq, S, n) = {}}
<1>1. SUFFICES ASSUME Bad # {} PROVE FALSE OBVIOUS
<1>2. PICK n \in Bad : \A m \in Bad : n <= m
  <2>1. Bad \in SUBSET Nat OBVIOUS
  <2> HIDE DEF Bad
  <2> QED BY <1>1, <2>1, Least
<1>3. n # 0
  <2>1. [i \in 0 .. 0 |-> << >>] \in UpTo(seq, S, 0) BY DEF UpTo, Picked
  <2> QED BY <2>1
<1>4. n - 1 \in 0 .. Len(seq) /\ n - 1 \notin Bad BY <1>2, <1>3
<1>5. PICK f \in UpTo(seq, S, n - 1) : TRUE BY <1>4
<1> DEFINE next == IF seq[n] \in S THEN Append(f[n - 1], seq[n]) ELSE f[n - 1]
           g == [i \in 0 .. n |-> IF i = n THEN next ELSE f[i]]
<1>6. n \in Nat /\ n \in 1 .. Len(seq) /\ seq[n] \in Tasks BY <1>2, <1>3
<1>7. f \in [0 .. n - 1 -> Seq(Tasks)] /\ \A i \in 0 .. n - 1 : f[i] = Picked(seq, S, f, i)
  BY <1>5 DEF UpTo
<1>8. f[n - 1] \in Seq(Tasks) /\ next \in Seq(Tasks) BY <1>6, <1>7
<1>9. g \in [0 .. n -> Seq(Tasks)]
  <2>1. \A i \in 0 .. n : i # n => i \in 0 .. n - 1 BY <1>6
  <2>2. \A i \in 0 .. n : g[i] \in Seq(Tasks) BY <1>7, <1>8, <2>1
  <2> QED BY <2>2
<1>10. \A i \in 0 .. n : g[i] = Picked(seq, S, g, i)
  <2>1. ASSUME NEW i \in 0 .. n PROVE g[i] = Picked(seq, S, g, i)
    <3>1. CASE i = 0 BY <3>1, <1>6, <1>7 DEF Picked
    <3>2. CASE i = n
      <4>1. g[n - 1] = f[n - 1] /\ g[n] = next BY <1>6
      <4> QED BY <3>2, <4>1, <1>6 DEF Picked
    <3>3. CASE i # 0 /\ i # n
      <4>1. g[i - 1] = f[i - 1] /\ g[i] = f[i] /\ i \in 0 .. n - 1 BY <3>3, <1>6
      <4> QED BY <3>3, <4>1, <1>7 DEF Picked
    <3> QED BY <3>1, <3>2, <3>3
  <2> QED BY <2>1
<1>11. g \in UpTo(seq, S, n) BY <1>9, <1>10 DEF UpTo
<1> QED BY <1>2, <1>11

\* Among is the filter of the whole sequence.
LEMMA AmongIsPicked ==
  ASSUME NEW seq \in Seq(Tasks), NEW S
  PROVE  \E f : /\ f = [i \in 0 .. Len(seq) |-> Picked(seq, S, f, i)]
                /\ Among(seq, S) = f[Len(seq)]
<1>1. Len(seq) \in Nat OBVIOUS
<1>2. PICK f \in UpTo(seq, S, Len(seq)) : TRUE BY <1>1, UpToExists
<1>3. f = [i \in 0 .. Len(seq) |-> Picked(seq, S, f, i)] BY <1>2 DEF UpTo
<1>4. \E g : g = [i \in 0 .. Len(seq) |-> Picked(seq, S, g, i)] BY <1>3
<1> QED BY <1>4, Zenon DEF Among, Picked

\* The result of filtering is a sequence of elements of S, in the places they
\* had, one place for each.
LEMMA AmongFacts ==
  ASSUME NEW seq \in Seq(Tasks), NEW S
  PROVE  /\ Among(seq, S) \in Seq(Tasks)
         /\ \A k \in DOMAIN Among(seq, S) :
              Among(seq, S)[k] \in S /\ \E i \in DOMAIN seq : Among(seq, S)[k] = seq[i]
         /\ NoRepeats(seq) => NoRepeats(Among(seq, S))
<1>1. PICK f : /\ f = [i \in 0 .. Len(seq) |-> Picked(seq, S, f, i)]
               /\ Among(seq, S) = f[Len(seq)]
  BY AmongIsPicked
<1> DEFINE Fine(n) ==
      /\ f[n] \in Seq(Tasks)
      /\ \A k \in DOMAIN f[n] : f[n][k] \in S /\ \E i \in 1 .. n : f[n][k] = seq[i]
      /\ NoRepeats(seq) => NoRepeats(f[n])
    Bad == {n \in 0 .. Len(seq) : ~Fine(n)}
<1>2. Bad = {}
  <2>1. SUFFICES ASSUME Bad # {} PROVE FALSE OBVIOUS
  <2>2. PICK n \in Bad : \A m \in Bad : n <= m
    <3>1. Bad \in SUBSET Nat OBVIOUS
    <3> HIDE DEF Bad
    <3> QED BY <2>1, <3>1, Least
  <2>3. n \in 0 .. Len(seq) /\ ~Fine(n) BY <2>2
  <2>4. n # 0
    <3>1. f[0] = << >> BY <1>1 DEF Picked
    <3>2. Fine(0) BY <3>1 DEF NoRepeats
    <3> QED BY <2>3, <3>2
  <2>5. n - 1 \in 0 .. Len(seq) /\ n \in 1 .. Len(seq) /\ seq[n] \in Tasks /\ n \in Nat BY <2>3, <2>4
  <2>6. Fine(n - 1) BY <2>2, <2>5
  <2>7. f[n] = IF seq[n] \in S THEN Append(f[n - 1], seq[n]) ELSE f[n - 1]
    BY <1>1, <2>3, <2>4 DEF Picked
  <2> HIDE <1>1
  <2>8. \A i \in 1 .. n - 1 : i \in 1 .. n BY <2>5
  <2>9. CASE seq[n] \notin S BY <2>3, <2>6, <2>7, <2>8, <2>9
  <2>10. CASE seq[n] \in S
    <3> DEFINE p == f[n - 1]
    <3>1. f[n] = Append(p, seq[n]) /\ p \in Seq(Tasks) BY <2>6, <2>7, <2>10
    <3>2. f[n] \in Seq(Tasks) /\ DOMAIN f[n] = 1 .. Len(p) + 1 /\ f[n][Len(p) + 1] = seq[n]
          /\ \A k \in 1 .. Len(p) : f[n][k] = p[k] /\ k \in DOMAIN p
      BY <3>1, <2>5
    <3>3. \A k \in DOMAIN f[n] : k \in 1 .. Len(p) \/ k = Len(p) + 1 BY <3>1, <3>2
    <3>4. \A k \in DOMAIN f[n] : f[n][k] \in S /\ \E i \in 1 .. n : f[n][k] = seq[i]
      <4>1. ASSUME NEW k \in 1 .. Len(p) PROVE f[n][k] \in S /\ \E i \in 1 .. n : f[n][k] = seq[i]
        BY <3>2, <2>6, <2>8
      <4>2. f[n][Len(p) + 1] \in S /\ \E i \in 1 .. n : f[n][Len(p) + 1] = seq[i]
        BY <3>2, <2>5, <2>10
      <4> QED BY <3>3, <4>1, <4>2
    <3>5. ASSUME NoRepeats(seq) PROVE NoRepeats(f[n])
      <4>1. \A k \in 1 .. Len(p) : p[k] # seq[n]
        <5>1. SUFFICES ASSUME NEW k \in 1 .. Len(p), p[k] = seq[n] PROVE FALSE OBVIOUS
        <5>2. PICK i \in 1 .. n - 1 : p[k] = seq[i] BY <2>6, <3>1
        <5>3. i \in DOMAIN seq /\ n \in DOMAIN seq /\ i # n BY <2>5
        <5> QED BY <5>1, <5>2, <5>3, <3>5 DEF NoRepeats
      <4>2. NoRepeats(p) BY <2>6, <3>5
      <4>3. SUFFICES ASSUME NEW i \in DOMAIN f[n], NEW j \in DOMAIN f[n], f[n][i] = f[n][j] PROVE i = j
        BY DEF NoRepeats
      <4>4. CASE i \in 1 .. Len(p) /\ j \in 1 .. Len(p)
        <5>1. p[i] = p[j] /\ i \in DOMAIN p /\ j \in DOMAIN p BY <4>3, <4>4, <3>2
        <5> QED BY <5>1, <4>2 DEF NoRepeats
      <4>5. CASE i = Len(p) + 1 \/ j = Len(p) + 1 BY <4>1, <4>3, <4>5, <3>2, <3>3
      <4> QED BY <4>3, <4>4, <4>5, <3>3
    <3> QED BY <2>3, <3>2, <3>4, <3>5
  <2> QED BY <2>9, <2>10
<1>3. Len(seq) \in 0 .. Len(seq) /\ DOMAIN seq = 1 .. Len(seq) OBVIOUS
<1>4. Fine(Len(seq)) BY <1>2, <1>3
<1> QED BY <1>1, <1>3, <1>4

-----------------------------------------------------------------------------
(* The rows of a task.                                                     *)

LEMMA RowsOfFinal ==
  ASSUME NEW s \in Statuses, NEW rows \in RowsOf(s)
  PROVE  rows \in Seq(Etypes) /\ (rows # << >> => rows[Len(rows)] # "CompletionRefused")
<1>1. CASE s = "unsent" BY <1>1 DEF RowsOf
<1>2. CASE s = "sent"
  <2>1. rows = <<"Sent">> BY <1>2 DEF RowsOf
  <2> QED BY <2>1 DEF Etypes
<1>3. CASE s = "delivered"
  <2>1. rows = <<"Sent", "Delivered">> BY <1>3 DEF RowsOf
  <2> QED BY <2>1 DEF Etypes
<1>4. CASE s = "completed"
  <2>1. rows = <<"Sent", "Delivered", "Resolved", "TaskCompleted">> BY <1>4 DEF RowsOf
  <2> QED BY <2>1 DEF Etypes
<1>5. CASE s = "failed"
  <2>1. rows = <<"Sent", "Delivered", "TaskFailed">> BY <1>5 DEF RowsOf
  <2> QED BY <2>1 DEF Etypes
<1>6. CASE s = "cancelled"
  <2>1. rows \in {<<"Sent", "TaskCancelled">>, <<"Sent", "Delivered", "TaskCancelled">>} BY <1>6 DEF RowsOf
  <2>2. CASE rows = <<"Sent", "TaskCancelled">> BY <2>2 DEF Etypes
  <2>3. CASE rows = <<"Sent", "Delivered", "TaskCancelled">> BY <2>3 DEF Etypes
  <2> QED BY <2>1, <2>2, <2>3
<1>7. CASE s = "expired"
  <2>1. rows \in {<<"Sent", "Expired">>, <<"Sent", "Delivered", "Expired">>} BY <1>7 DEF RowsOf
  <2>2. CASE rows = <<"Sent", "Expired">> BY <2>2 DEF Etypes
  <2>3. CASE rows = <<"Sent", "Delivered", "Expired">> BY <2>3 DEF Etypes
  <2> QED BY <2>1, <2>2, <2>3
<1> QED BY <1>1, <1>2, <1>3, <1>4, <1>5, <1>6, <1>7 DEF Statuses, Terminals

\* A refused completion can be read off the last row.
LEMMA RefusedIsLast ==
  ASSUME NEW s \in Statuses, NEW rows \in RowsOf(s), NEW others \in RowsOf(s)
  PROVE  rows # Append(others, "CompletionRefused")
<1>1. SUFFICES ASSUME rows = Append(others, "CompletionRefused") PROVE FALSE OBVIOUS
<1>2. others \in Seq(Etypes) BY RowsOfFinal
<1>3. rows # << >> /\ rows[Len(rows)] = "CompletionRefused" BY <1>1, <1>2
<1> QED BY <1>3, RowsOfFinal

LEMMA OpenIsPlain ==
  ASSUME TypeOK, Rows, NEW t \in Tasks, Open(t)
  PROVE  /\ Plain(t)
         /\ status[t] \in {"unsent", "sent", "delivered"}
         /\ t <= sent => status[t] \in {"sent", "delivered"}
<1>1. Plain(t) BY DEF Rows, Open, Refused
<1>2. status[t] \in {"unsent", "sent", "delivered"}
  BY DEF TypeOK, Open, Terminal, Statuses, Terminals
<1>3. t \in Nat /\ sent \in Nat BY TaskAssumption DEF TypeOK, Tasks
<1>4. status[t] = "unsent" <=> sent < t BY DEF Rows
<1> QED BY <1>1, <1>2, <1>3, <1>4

\* What may happen to a task that was sent, and the rows it leaves.
Advance(from, to, rows) ==
  \/ from = "sent" /\ to = "delivered" /\ rows = <<"Delivered">>
  \/ from = "delivered" /\ to = "completed" /\ rows = <<"Resolved", "TaskCompleted">>
  \/ from = "delivered" /\ to = "failed" /\ rows = <<"TaskFailed">>
  \/ from \in {"sent", "delivered"} /\ to = "cancelled" /\ rows = <<"TaskCancelled">>
  \/ from \in {"sent", "delivered"} /\ to = "expired" /\ rows = <<"Expired">>

LEMMA Tuples ==
  /\ \A a, b : <<a>> \o <<b>> = <<a, b>>
  /\ \A a, b, c : <<a, b>> \o <<c>> = <<a, b, c>>
  /\ \A a, b, c, d : <<a, b>> \o <<c, d>> = <<a, b, c, d>>
<1>1. ASSUME NEW a, NEW b PROVE <<a>> \o <<b>> = <<a, b>>
  <2> DEFINE p == <<a>> \o <<b>> q == <<a, b>>
  <2>1. p \in Seq({a, b}) /\ q \in Seq({a, b}) OBVIOUS
  <2>2. Len(p) = 2 /\ Len(q) = 2 /\ p[1] = q[1] /\ p[2] = q[2] OBVIOUS
  <2> HIDE DEF p, q
  <2>3. \A i \in 1 .. 2 : p[i] = q[i] BY <2>2
  <2>4. p = q BY <2>1, <2>2, <2>3
  <2> QED BY <2>4 DEF p, q
<1>2. ASSUME NEW a, NEW b, NEW c PROVE <<a, b>> \o <<c>> = <<a, b, c>>
  <2> DEFINE p == <<a, b>> \o <<c>> q == <<a, b, c>>
  <2>1. p \in Seq({a, b, c}) /\ q \in Seq({a, b, c}) OBVIOUS
  <2>2. Len(p) = 3 /\ Len(q) = 3 /\ p[1] = q[1] /\ p[2] = q[2] /\ p[3] = q[3] OBVIOUS
  <2> HIDE DEF p, q
  <2>3. \A i \in 1 .. 3 : p[i] = q[i] BY <2>2
  <2>4. p = q BY <2>1, <2>2, <2>3
  <2> QED BY <2>4 DEF p, q
<1>3. ASSUME NEW a, NEW b, NEW c, NEW d PROVE <<a, b>> \o <<c, d>> = <<a, b, c, d>>
  <2> DEFINE p == <<a, b>> \o <<c, d>> q == <<a, b, c, d>>
  <2>1. p \in Seq({a, b, c, d}) /\ q \in Seq({a, b, c, d}) OBVIOUS
  <2>2. Len(p) = 4 /\ Len(q) = 4 /\ p[1] = q[1] /\ p[2] = q[2] /\ p[3] = q[3] /\ p[4] = q[4]
    OBVIOUS
  <2> HIDE DEF p, q
  <2>3. \A i \in 1 .. 4 : p[i] = q[i] BY <2>2
  <2>4. p = q BY <2>1, <2>2, <2>3
  <2> QED BY <2>4 DEF p, q
<1> QED BY <1>1, <1>2, <1>3

LEMMA AdvanceRows ==
  ASSUME NEW from, NEW to, NEW rows, Advance(from, to, rows), NEW old \in RowsOf(from)
  PROVE  old \o rows \in RowsOf(to)
<1>1. CASE from = "sent"
  <2>1. old = <<"Sent">> BY <1>1 DEF RowsOf
  <2>2. CASE to = "delivered" /\ rows = <<"Delivered">> BY <2>1, <2>2, Tuples DEF RowsOf
  <2>3. CASE to = "cancelled" /\ rows = <<"TaskCancelled">> BY <2>1, <2>3, Tuples DEF RowsOf
  <2>4. CASE to = "expired" /\ rows = <<"Expired">> BY <2>1, <2>4, Tuples DEF RowsOf
  <2> QED BY <1>1, <2>2, <2>3, <2>4 DEF Advance
<1>2. CASE from = "delivered"
  <2>1. old = <<"Sent", "Delivered">> BY <1>2 DEF RowsOf
  <2>2. CASE to = "completed" /\ rows = <<"Resolved", "TaskCompleted">> BY <2>1, <2>2, Tuples DEF RowsOf
  <2>3. CASE to = "failed" /\ rows = <<"TaskFailed">> BY <2>1, <2>3, Tuples DEF RowsOf
  <2>4. CASE to = "cancelled" /\ rows = <<"TaskCancelled">> BY <2>1, <2>4, Tuples DEF RowsOf
  <2>5. CASE to = "expired" /\ rows = <<"Expired">> BY <2>1, <2>5, Tuples DEF RowsOf
  <2> QED BY <1>2, <2>2, <2>3, <2>4, <2>5 DEF Advance
<1> QED BY <1>1, <1>2 DEF Advance

\* The step gives task t another status, with its rows, and no other task.
Advances(t, to, rows) ==
  /\ Advance(status[t], to, rows)
  /\ sent' = sent
  /\ status' = [status EXCEPT ![t] = to]
  /\ ledger' = [ledger EXCEPT ![t] = @ \o rows]

LEMMA AdvancesRows ==
  ASSUME TypeOK, Rows, NEW t \in Tasks, NEW to, NEW rows, Open(t), Advances(t, to, rows)
  PROVE  /\ Rows'
         /\ status'[t] = to /\ status[t] # "unsent" /\ to # "unsent"
         /\ Plain(t)' /\ ~Refused(t)'
         /\ \A s \in Tasks : s # t =>
              status'[s] = status[s] /\ Plain(s)' = Plain(s) /\ Refused(s)' = Refused(s)
         /\ status' \in [Tasks -> Statuses] /\ ledger' \in [Tasks -> Seq(Etypes)]
<1>1. /\ status'[t] = to /\ ledger'[t] = ledger[t] \o rows
      /\ \A s \in Tasks : s # t => status'[s] = status[s] /\ ledger'[s] = ledger[s]
  BY DEF Advances, TypeOK
<1>2. status[t] # "unsent" /\ to # "unsent" /\ to \in Statuses
  BY DEF Advances, Advance, Statuses, Terminals
<1>3. ledger'[t] \in RowsOf(to)
  <2>1. ledger[t] \in RowsOf(status[t]) /\ Advance(status[t], to, rows)
    BY OpenIsPlain DEF Plain, Advances
  <2> QED BY <1>1, <2>1, AdvanceRows
<1>4. Plain(t)' BY <1>1, <1>3 DEF Plain
<1>5. \A s \in Tasks : s # t => Plain(s)' = Plain(s) /\ Refused(s)' = Refused(s)
  BY <1>1 DEF Plain, Refused, Terminal
<1>6. ledger'[t] \in Seq(Etypes) BY <1>2, <1>3, RowsOfFinal
<1>7. status' \in [Tasks -> Statuses] /\ ledger' \in [Tasks -> Seq(Etypes)]
  BY <1>1, <1>2, <1>6 DEF Advances, TypeOK
<1>8. Rows' BY <1>1, <1>2, <1>4, <1>5 DEF Rows, Advances
<1>9. ~Refused(t)' BY <1>1, <1>2, <1>3, RefusedIsLast DEF Refused
<1> QED BY <1>1, <1>2, <1>4, <1>5, <1>7, <1>8, <1>9

\* The rows of every task are a projection of its status, and a chain.
LEMMA RowsAreAccounts ==
  ASSUME TypeOK, Rows
  PROVE  StatusIsProjection /\ ReceiptChain
<1>1. ASSUME NEW t \in Tasks
      PROVE  /\ LET rows == {ledger[t][i] : i \in DOMAIN ledger[t]}
                    ends == rows \cap DOMAIN TerminalOf
                IN  \/ \E e \in ends : ends = {e} /\ status[t] = TerminalOf[e]
                    \/ ends = {} /\ "Delivered" \in rows /\ status[t] = "delivered"
                    \/ rows = {"Sent"} /\ status[t] = "sent"
                    \/ rows = {} /\ status[t] = "unsent"
             /\ \A i, j \in DOMAIN ledger[t] :
                  i < j =>
                    /\ Stage(ledger[t][i]) < Stage(ledger[t][j])
                    /\ ledger[t][j] = "CompletionRefused" => Stage(ledger[t][j - 1]) = 4
  <2> DEFINE row == ledger[t]
             rows == {row[i] : i \in DOMAIN row}
             ends == rows \cap DOMAIN TerminalOf
             Says(s) ==
               \/ \E e \in ends : ends = {e} /\ s = TerminalOf[e]
               \/ ends = {} /\ "Delivered" \in rows /\ s = "delivered"
               \/ rows = {"Sent"} /\ s = "sent"
               \/ rows = {} /\ s = "unsent"
             Chain == \A i, j \in DOMAIN row :
                  i < j =>
                    /\ Stage(row[i]) < Stage(row[j])
                    /\ row[j] = "CompletionRefused" => Stage(row[j - 1]) = 4
  <2>0. DOMAIN TerminalOf = {"TaskCompleted", "TaskFailed", "TaskCancelled", "Expired"}
        /\ TerminalOf["TaskCompleted"] = "completed" /\ TerminalOf["TaskFailed"] = "failed"
        /\ TerminalOf["TaskCancelled"] = "cancelled" /\ TerminalOf["Expired"] = "expired"
    BY DEF TerminalOf
  <2>s. /\ Stage("Sent") = 1 /\ Stage("Delivered") = 2 /\ Stage("Resolved") = 3
        /\ Stage("TaskCompleted") = 4 /\ Stage("TaskFailed") = 4 /\ Stage("TaskCancelled") = 4
        /\ Stage("Expired") = 4 /\ Stage("CompletionRefused") = 5
    BY <2>0 DEF Stage
  <2>e. SUFFICES Says(status[t]) /\ Chain OBVIOUS
  <2>1. CASE status[t] = "unsent"
    <3>1. row = << >> BY <1>1, <2>1 DEF Rows, Plain, Refused, Terminal, Terminals, RowsOf
    <3>2. rows = {} BY <3>1
    <3> HIDE DEF row, rows
    <3> QED BY <2>1, <3>1, <3>2
  <2>2. CASE status[t] = "sent"
    <3>1. row = <<"Sent">> BY <1>1, <2>2 DEF Rows, Plain, Refused, Terminal, Terminals, RowsOf
    <3>2. rows = {"Sent"} BY <3>1
    <3>3. Chain BY <3>1
    <3> QED BY <2>2, <3>2, <3>3
  <2>3. CASE status[t] = "delivered"
    <3>1. row = <<"Sent", "Delivered">>
      BY <1>1, <2>3 DEF Rows, Plain, Refused, Terminal, Terminals, RowsOf
    <3>2. rows = {"Sent", "Delivered"} BY <3>1
    <3>3. ends = {} BY <2>0, <3>2
    <3>4. Chain BY <3>1, <2>s
    <3> QED BY <2>3, <3>2, <3>3, <3>4
  <2>4. ASSUME NEW e \in DOMAIN TerminalOf, status[t] = TerminalOf[e],
               NEW body \in {<<"Sent">>, <<"Sent", "Delivered">>, <<"Sent", "Delivered", "Resolved">>},
               row = Append(body, e) \/ row = Append(Append(body, e), "CompletionRefused")
        PROVE  Says(status[t]) /\ Chain
    <3>1. ends = {e}
      <4>1. CASE body = <<"Sent">> BY <2>0, <2>4, <4>1
      <4>2. CASE body = <<"Sent", "Delivered">> BY <2>0, <2>4, <4>2
      <4>3. CASE body = <<"Sent", "Delivered", "Resolved">> BY <2>0, <2>4, <4>3
      <4> QED BY <2>4, <4>1, <4>2, <4>3
    <3>2. Stage(e) = 4 BY <2>0, <2>4, <2>s
    <3> HIDE DEF Stage
    <3>3. Chain
      <4>1. CASE body = <<"Sent">> BY <2>4, <2>s, <3>2, <4>1
      <4>2. CASE body = <<"Sent", "Delivered">> BY <2>4, <2>s, <3>2, <4>2
      <4>3. CASE body = <<"Sent", "Delivered", "Resolved">> BY <2>4, <2>s, <3>2, <4>3
      <4> QED BY <2>4, <4>1, <4>2, <4>3
    <3> QED BY <2>4, <3>1, <3>3
  <2>5. ASSUME NEW e \in DOMAIN TerminalOf, status[t] = TerminalOf[e],
               \A p \in RowsOf(status[t]) : p = Append(<<"Sent">>, e) \/ p = Append(<<"Sent", "Delivered">>, e)
                     \/ p = Append(<<"Sent", "Delivered", "Resolved">>, e)
        PROVE  Says(status[t]) /\ Chain
    <3>1. PICK p \in RowsOf(status[t]) : row = p \/ row = Append(p, "CompletionRefused")
      BY DEF Rows, Plain, Refused
    <3> HIDE DEF Says, Chain, row
    <3> QED BY <2>4, <2>5, <3>1
  <2>6. CASE status[t] = "completed"
    <3>1. \A p \in RowsOf(status[t]) : p = Append(<<"Sent", "Delivered", "Resolved">>, "TaskCompleted")
      BY <2>6 DEF RowsOf
    <3> HIDE DEF Says, Chain
    <3> QED BY <2>0, <2>5, <2>6, <3>1
  <2>7. CASE status[t] = "failed"
    <3>1. \A p \in RowsOf(status[t]) : p = Append(<<"Sent", "Delivered">>, "TaskFailed")
      BY <2>7 DEF RowsOf
    <3> HIDE DEF Says, Chain
    <3> QED BY <2>0, <2>5, <2>7, <3>1
  <2>8. CASE status[t] = "cancelled"
    <3>1. \A p \in RowsOf(status[t]) : p = Append(<<"Sent">>, "TaskCancelled")
                                      \/ p = Append(<<"Sent", "Delivered">>, "TaskCancelled")
      BY <2>8 DEF RowsOf
    <3> HIDE DEF Says, Chain
    <3> QED BY <2>0, <2>5, <2>8, <3>1
  <2>9. CASE status[t] = "expired"
    <3>1. \A p \in RowsOf(status[t]) : p = Append(<<"Sent">>, "Expired")
                                      \/ p = Append(<<"Sent", "Delivered">>, "Expired")
      BY <2>9 DEF RowsOf
    <3> HIDE DEF Says, Chain
    <3> QED BY <2>0, <2>5, <2>9, <3>1
  <2>10. status[t] \in Statuses BY DEF TypeOK
  <2> QED BY <2>1, <2>2, <2>3, <2>6, <2>7, <2>8, <2>9, <2>10 DEF Statuses, Terminals
<1> QED BY <1>1 DEF StatusIsProjection, ReceiptChain

-----------------------------------------------------------------------------
(* Types.                                                                  *)

LEMMA Numbers ==
  /\ MaxTasks \in Nat
  /\ Tasks = 1 .. MaxTasks
  /\ Runners = 0 .. MaxTasks
  /\ Tasks \subseteq Runners
  /\ 0 \in Runners
  /\ 0 \notin Tasks
  /\ \A r \in Runners : r # 0 => r \in Tasks
BY TaskAssumption DEF Tasks, Runners

\* What is read off a stack that is not empty.
LEMMA TopFacts ==
  ASSUME TypeOK, NEW r \in Runners, frames[r] # << >>
  PROVE  /\ frames[r] \in Seq(Tasks)
         /\ Len(frames[r]) \in Nat \ {0}
         /\ Len(frames[r]) \in DOMAIN frames[r]
         /\ Top(r) \in Tasks
         /\ Rest(r) \in Seq(Tasks)
         /\ Len(Rest(r)) = Len(frames[r]) - 1
         /\ \A i \in DOMAIN Rest(r) : i \in DOMAIN frames[r] /\ Rest(r)[i] = frames[r][i]
<1>1. frames[r] \in Seq(Tasks) BY DEF TypeOK
<1> QED BY <1>1 DEF Top, Rest

\* Whoever runs a handler has one.
LEMMA RunsFacts ==
  ASSUME TypeOK, NEW r \in Runners, Runs(r)
  PROVE  /\ raising[r] = "no"
         /\ r # 0 => frames[r] # << >> /\ turns # << >> /\ turns[1] = r /\ r \in Tasks /\ r \notin working
         /\ r = 0 /\ frames[0] = << >> => phase = "statement" \/ reacting
  BY Numbers DEF Runs, HasTurn

LEMMA InitType == Init => TypeOK
<1> SUFFICES ASSUME Init PROVE TypeOK OBVIOUS
<1>1. << >> \in Seq(Tasks) /\ << >> \in Seq(Etypes) OBVIOUS
<1>2. 0 \in 0 .. MaxTasks BY Numbers
<1>3. left \in Nat /\ prompts \in Nat BY TaskAssumption DEF Init
<1> QED BY <1>1, <1>2, <1>3 DEF Init, TypeOK, Statuses

LEMMA LandsType ==
  ASSUME TypeOK, NEW t \in Tasks, NEW rows \in Seq(Etypes), Lands(rows, t)
  PROVE  ledger' \in [Tasks -> Seq(Etypes)] /\ crashes' \in Nat
<1>1. ledger[t] \o rows \in Seq(Etypes) BY DEF TypeOK
<1> QED BY <1>1 DEF Lands, TypeOK

LEMMA RowTypes ==
  /\ <<"Sent">> \in Seq(Etypes) /\ <<"Delivered">> \in Seq(Etypes)
  /\ <<"Resolved", "TaskCompleted">> \in Seq(Etypes) /\ <<"TaskFailed">> \in Seq(Etypes)
  /\ <<"TaskCancelled">> \in Seq(Etypes) /\ <<"Expired">> \in Seq(Etypes)
  /\ <<"CompletionRefused">> \in Seq(Etypes)
BY DEF Etypes

LEMMA TailType ==
  ASSUME TypeOK, turns # << >>
  PROVE  SubSeq(turns, 2, Len(turns)) \in Seq(Tasks)
<1>1. turns \in Seq(Tasks) BY DEF TypeOK
<1> QED BY <1>1

\* The turns once the first passes his on.
LEMMA PassedType ==
  ASSUME TypeOK, NEW r \in Tasks, turns # << >>
  PROVE  Passed(r, <<r>>) \in Seq(Tasks) /\ Passed(r, << >>) \in Seq(Tasks)
<1>1. SubSeq(turns, 2, Len(turns)) \in Seq(Tasks) BY TailType
<1>2. <<r>> \in Seq(Tasks) /\ << >> \in Seq(Tasks) OBVIOUS
<1>3. \A rest \in Seq(Tasks) : SubSeq(turns, 2, Len(turns)) \o rest \in Seq(Tasks) BY <1>1
<1> QED BY <1>1, <1>2, <1>3 DEF Passed, TypeOK

\* A turn of the session that fails keeps the types of the top level.
LEMMA FailsType ==
  ASSUME TypeOK, TurnFails
  PROVE  /\ owned' \in [Tasks -> BOOLEAN]
         /\ phase' \in {"statement", "drain", "closing", "closeSweep", "sweep", "quiescent", "failed"}
         /\ left' \in Nat /\ prompts' \in Nat /\ swept' \in 0 .. MaxTasks
         /\ reacting' \in BOOLEAN /\ scope' \in BOOLEAN /\ awake' \subseteq Workers
  BY DEF TurnFails, TypeOK

LEMMA NewTaskType ==
  ASSUME TypeOK, NEW fg \in BOOLEAN, NewTask(fg),
         status' = [status EXCEPT ![sent + 1] = "sent"], Lands(<<"Sent">>, sent + 1)
  PROVE  /\ sent + 1 \in Tasks /\ sent' = sent + 1 /\ sent' \in 0 .. MaxTasks
         /\ status' \in [Tasks -> Statuses] /\ foreground' \in [Tasks -> BOOLEAN]
         /\ owned' \in [Tasks -> BOOLEAN]
         /\ ledger' \in [Tasks -> Seq(Etypes)] /\ crashes' \in Nat
<1>1. sent + 1 \in Tasks /\ sent' = sent + 1 /\ sent' \in 0 .. MaxTasks
  BY Numbers DEF NewTask, TypeOK
<1>2. status' \in [Tasks -> Statuses] BY DEF TypeOK, Statuses
<1>3. foreground' \in [Tasks -> BOOLEAN] BY DEF NewTask, TypeOK
<1>4. owned' \in [Tasks -> BOOLEAN]
  <2>1. PICK o \in {FALSE, scope} : owned' = [owned EXCEPT ![sent + 1] = o] BY DEF NewTask
  <2>2. o \in BOOLEAN BY DEF TypeOK
  <2> QED BY <2>1, <2>2 DEF TypeOK
<1>5. ledger' \in [Tasks -> Seq(Etypes)] /\ crashes' \in Nat BY <1>1, LandsType, RowTypes
<1> QED BY <1>1, <1>2, <1>3, <1>4, <1>5

LEMMA SendType ==
  ASSUME TypeOK, NEW r \in Runners, Send(r)
  PROVE  TypeOK'
<1>1. CASE SendBackground(r)
  <2>1. NewTask(FALSE) /\ status' = [status EXCEPT ![sent + 1] = "sent"] /\ Lands(<<"Sent">>, sent + 1)
    BY <1>1 DEF SendBackground
  <2>2. sent + 1 \in Tasks BY <2>1, NewTaskType
  <2>3. pending' \in Seq(Tasks)
    <3>1. pending \in Seq(Tasks) /\ pending' \in {pending, Append(pending, sent + 1)}
      BY <1>1 DEF SendBackground, TypeOK
    <3>2. Append(pending, sent + 1) \in Seq(Tasks) BY <2>2, <3>1
    <3> QED BY <3>1, <3>2
  <2> QED BY <1>1, <2>1, <2>3, NewTaskType DEF SendBackground, TypeOK, fiberVars, topVars
<1>2. CASE SendForeground(r)
  <2>1. NewTask(TRUE) /\ status' = [status EXCEPT ![sent + 1] = "sent"] /\ Lands(<<"Sent">>, sent + 1)
    BY <1>2 DEF SendForeground
  <2>2. sent + 1 \in Tasks BY <2>1, NewTaskType
  <2>3. frames' \in [Runners -> Seq(Tasks)] BY <1>2, <2>2 DEF SendForeground, TypeOK
  <2> QED BY <1>2, <2>1, <2>3, NewTaskType DEF SendForeground, TypeOK, fiberVars, topVars
<1>3. CASE DeliverInline(r)
  <2>1. Top(r) \in Tasks BY <1>3, TopFacts DEF DeliverInline, AtDelivery
  <2>2. ledger' \in [Tasks -> Seq(Etypes)] /\ crashes' \in Nat
    BY <1>3, <2>1, LandsType, RowTypes DEF DeliverInline
  <2> QED BY <1>3, <2>2 DEF DeliverInline, TypeOK, fiberVars, topVars, Statuses
<1>4. CASE Unheard(r) BY <1>4 DEF Unheard, TypeOK, taskVars, fiberVars, topVars, rowVars
<1>5. CASE Throw(r)
  <2>1. CASE raising' = [raising EXCEPT ![r] = "error"] /\ UNCHANGED <<owned, topVars>>
    BY <1>5, <2>1 DEF Throw, TypeOK, fiberVars, topVars, rowVars
  <2>2. CASE TurnFails /\ UNCHANGED raising
    BY <1>5, <2>2, FailsType DEF Throw, TypeOK, fiberVars, rowVars
  <2> QED BY <1>5, <2>1, <2>2 DEF Throw
<1> QED BY <1>1, <1>2, <1>3, <1>4, <1>5 DEF Send

\* A sender that is faulted, whether or not its turn of the session fails.
LEMMA FaultsType ==
  ASSUME TypeOK, NEW r \in Runners, NEW n \in Nat, SenderFaults(r, n)
  PROVE  /\ raising' \in [Runners -> {"no", "done", "error"}] /\ crashes' \in Nat
         /\ owned' \in [Tasks -> BOOLEAN]
         /\ phase' \in {"statement", "drain", "closing", "closeSweep", "sweep", "quiescent", "failed"}
         /\ left' \in Nat /\ prompts' \in Nat /\ swept' \in 0 .. MaxTasks
         /\ reacting' \in BOOLEAN /\ scope' \in BOOLEAN /\ awake' \subseteq Workers
<1>1. raising' \in [Runners -> {"no", "done", "error"}] /\ crashes' \in Nat
  <2>1. PICK e \in {"no", "error"} : raising' = [raising EXCEPT ![r] = e] BY DEF SenderFaults
  <2>2. crashes' \in {n, n + 1} BY DEF SenderFaults
  <2> QED BY <2>1, <2>2 DEF TypeOK
<1>2. CASE UNCHANGED <<owned, topVars>> BY <1>1, <1>2 DEF TypeOK, topVars
<1>3. CASE TurnFails BY <1>1, <1>3, FailsType
<1> QED BY <1>2, <1>3 DEF SenderFaults

LEMMA UnwindType ==
  ASSUME TypeOK, NEW r \in Runners, Unwind(r), frames[r] # << >>, r # 0 => turns # << >>
  PROVE  TypeOK'
<1> DEFINE crashed == crashes + (IF raising[r] = "error" THEN 1 ELSE 0)
<1>1. PICK t \in Tasks : t = Top(r) BY TopFacts
<1>2. frames' \in [Runners -> Seq(Tasks)]
  <2>1. frames' = [frames EXCEPT ![r] = Rest(r)] /\ Rest(r) \in Seq(Tasks) BY TopFacts DEF Unwind
  <2> QED BY <2>1 DEF TypeOK
<1>3. crashed \in Nat /\ crashes \in Nat /\ crashes + 1 \in Nat BY DEF TypeOK
<1>4. UNCHANGED <<sent, foreground, pending, working, lost, calls>> BY DEF Unwind
<1>6. Passed(r, << >>) \in Seq(Tasks)
  <2>1. CASE r # 0 BY <2>1, PassedType, Numbers
  <2>2. CASE r = 0
    <3>1. turns \in Seq(Tasks) BY DEF TypeOK
    <3>2. SubSeq(turns, 2, Len(turns)) \o << >> \in Seq(Tasks)
      <4>1. CASE turns = << >>
        <5>1. SubSeq(turns, 2, Len(turns)) = << >> BY <4>1
        <5>2. << >> \o << >> \in Seq(Tasks) OBVIOUS
        <5> QED BY <5>1, <5>2
      <4>2. CASE turns # << >>
        <5>1. SubSeq(turns, 2, Len(turns)) \in Seq(Tasks) BY <4>2, TailType
        <5> QED BY <5>1
      <4> QED BY <4>1, <4>2
    <3> QED BY <3>1, <3>2 DEF Passed
  <2> QED BY <2>1, <2>2
<1>7. CASE DeliveryEnds(r, t)
  <2>1. CASE /\ turns' = Passed(r, << >>) \/ UNCHANGED turns
             /\ raising' = [raising EXCEPT ![r] = "no"] /\ crashes' = crashed
             /\ UNCHANGED <<status, ledger, owned, topVars>>
    BY <1>2, <1>3, <1>4, <1>6, <2>1 DEF TypeOK, topVars
  <2>2. CASE /\ status' = [status EXCEPT ![t] = AfterHandler(t)]
             /\ ledger' = [ledger EXCEPT ![t] = IF Open(t) THEN Append(@, "Expired") ELSE @]
             /\ SenderFaults(r, crashed)
             /\ UNCHANGED turns
    <3>1. AfterHandler(t) \in Statuses BY DEF AfterHandler, TypeOK, Statuses, Terminals
    <3>2. ledger[t] \in Seq(Etypes) /\ Append(ledger[t], "Expired") \in Seq(Etypes)
      BY DEF TypeOK, Etypes
    <3>3. ledger' \in [Tasks -> Seq(Etypes)] BY <2>2, <3>2 DEF TypeOK
    <3>4. status' \in [Tasks -> Statuses] BY <2>2, <3>1 DEF TypeOK
    <3>5. turns' \in Seq(Tasks) BY <2>2 DEF TypeOK
    <3> HIDE DEF crashed
    <3> QED BY <1>2, <1>3, <1>4, <2>2, <3>3, <3>4, <3>5, FaultsType DEF TypeOK
  <2> QED BY <1>7, <2>1, <2>2 DEF DeliveryEnds
<1>8. CASE DeliveryThrows(r, t)
  <2>1. PICK n \in {crashes, crashes + 1} :
          \/ /\ turns' = Passed(r, << >>) /\ raising' = [raising EXCEPT ![r] = "no"]
             /\ crashes' = n /\ TurnFails
          \/ SenderFaults(r, n) /\ UNCHANGED turns
    BY <1>8 DEF DeliveryThrows
  <2>2. n \in Nat /\ UNCHANGED <<status, ledger>> BY <1>3, <1>8 DEF DeliveryThrows
  <2>3. CASE /\ turns' = Passed(r, << >>) /\ raising' = [raising EXCEPT ![r] = "no"]
             /\ crashes' = n /\ TurnFails
    <3>1. raising' \in [Runners -> {"no", "done", "error"}] BY <2>3 DEF TypeOK
    <3> QED BY <1>2, <1>4, <1>6, <2>2, <2>3, <3>1, FailsType DEF TypeOK
  <2>4. CASE SenderFaults(r, n) /\ UNCHANGED turns
    BY <1>2, <1>4, <2>2, <2>4, FaultsType DEF TypeOK
  <2> QED BY <2>1, <2>3, <2>4
<1> QED BY <1>1, <1>7, <1>8 DEF Unwind

LEMMA HandlerType ==
  ASSUME TypeOK, Ends, NEW r \in Runners, Handler(r)
  PROVE  TypeOK'
<1>1. CASE Call(r)
  <2>1. frames[r] # << >> /\ turns # << >> /\ r \in Tasks BY <1>1, RunsFacts DEF Call
  <2>2. Top(r) \in Tasks BY <2>1, TopFacts
  <2>3. turns' \in Seq(Tasks) BY <1>1, <2>1, PassedType DEF Call
  <2>4. calls' \in [Tasks -> Nat]
    <3>1. calls' = [calls EXCEPT ![Top(r)] = @ + 1] /\ calls \in [Tasks -> Nat] BY <1>1 DEF Call, TypeOK
    <3> QED BY <2>2, <3>1
  <2> QED BY <1>1, <2>1, <2>3, <2>4 DEF Call, TypeOK, taskVars, topVars, rowVars
<1>2. CASE Back(r)
  <2>1. lost' \subseteq Tasks BY <1>2 DEF Back, TypeOK
  <2> QED BY <1>2, <2>1 DEF Back, TypeOK, taskVars, topVars, rowVars
<1>3. CASE Complete(r)
  <2>1. Top(r) \in Tasks BY <1>3, TopFacts DEF Complete, InHandler
  <2>2. ledger' \in [Tasks -> Seq(Etypes)] /\ crashes' \in Nat
    BY <1>3, <2>1, LandsType, RowTypes DEF Complete
  <2> QED BY <1>3, <2>2 DEF Complete, TypeOK, fiberVars, topVars, Statuses, Terminals
<1>4. CASE Fail(r)
  <2>1. Top(r) \in Tasks BY <1>4, TopFacts DEF Fail, InHandler
  <2>2. ledger' \in [Tasks -> Seq(Etypes)] /\ crashes' \in Nat
    BY <1>4, <2>1, LandsType, RowTypes DEF Fail
  <2> QED BY <1>4, <2>2 DEF Fail, TypeOK, fiberVars, topVars, Statuses, Terminals
<1>5. CASE Refuse(r)
  <2>1. Top(r) \in Tasks BY <1>5, TopFacts DEF Refuse, InHandler
  <2>2. ledger' \in [Tasks -> Seq(Etypes)] /\ crashes' \in Nat
    BY <1>5, <2>1, LandsType, RowTypes DEF Refuse
  <2> QED BY <1>5, <2>2 DEF Refuse, TypeOK, taskVars, fiberVars, topVars
<1>6. CASE Return(r)
  <2>1. PICK e \in {"done", "error"} : raising' = [raising EXCEPT ![r] = e] BY <1>6 DEF Return
  <2> QED BY <1>6, <2>1 DEF Return, TypeOK, taskVars, fiberVars, topVars, rowVars
<1>7. CASE Unwind(r)
  <2>1. frames[r] # << >> /\ (r # 0 => turns # << >>) BY <1>7 DEF Unwind, Ends
  <2> QED BY <1>7, <2>1, UnwindType
<1> QED BY <1>1, <1>2, <1>3, <1>4, <1>5, <1>6, <1>7 DEF Handler

LEMMA SelfType ==
  ASSUME TypeOK, NEW r \in Runners
  PROVE  /\ \A t \in Tasks : Cancel(r, t) => TypeOK'
         /\ \A w \in Sleepers : SleepOrAwake(r, w) => TypeOK'
<1>1. ASSUME NEW t \in Tasks, Cancel(r, t) PROVE TypeOK'
  <2>1. ledger' \in [Tasks -> Seq(Etypes)] /\ crashes' \in Nat
    BY <1>1, LandsType, RowTypes DEF Cancel
  <2> QED BY <1>1, <2>1 DEF Cancel, TypeOK, fiberVars, topVars, Statuses, Terminals
<1>2. ASSUME NEW w \in Sleepers, SleepOrAwake(r, w) PROVE TypeOK'
  <2>1. awake' \subseteq Workers BY <1>2, TaskAssumption DEF SleepOrAwake, TypeOK
  <2> QED BY <1>2, <2>1 DEF SleepOrAwake, TypeOK, taskVars, fiberVars, rowVars
<1> QED BY <1>1, <1>2

LEMMA DrainType ==
  ASSUME TypeOK
  PROVE  /\ StartBatch => TypeOK'
         /\ \A t \in Tasks : Deliver(t) \/ Skip(t) => TypeOK'
         /\ DrainDone => TypeOK'
<1>1. CASE StartBatch
  <2>1. turns' \in Seq(Tasks) /\ pending' \in Seq(Tasks)
    BY <1>1, AmongFacts DEF StartBatch, Batch, TypeOK
  <2> QED BY <1>1, <2>1 DEF StartBatch, TypeOK, taskVars, topVars, rowVars
<1>2. ASSUME NEW t \in Tasks, Deliver(t) PROVE TypeOK'
  <2>1. ledger' \in [Tasks -> Seq(Etypes)] /\ crashes' \in Nat
    BY <1>2, LandsType, RowTypes DEF Deliver
  <2>2. <<t>> \in Seq(Tasks) OBVIOUS
  <2>3. frames' \in [Runners -> Seq(Tasks)] BY <1>2, <2>2, Numbers DEF Deliver, TypeOK
  <2> QED BY <1>2, <2>1, <2>3 DEF Deliver, TypeOK, fiberVars, topVars, Statuses
<1>3. ASSUME NEW t \in Tasks, Skip(t) PROVE TypeOK'
  <2>1. turns' \in Seq(Tasks) BY <1>3, TailType DEF Skip, HasTurn
  <2> QED BY <1>3, <2>1 DEF Skip, TypeOK, taskVars, topVars, rowVars
<1>4. CASE DrainDone
  BY <1>4, Numbers DEF DrainDone, TypeOK, taskVars, fiberVars, rowVars
<1> QED BY <1>1, <1>2, <1>3, <1>4

LEMMA TopLevelType ==
  ASSUME TypeOK, TopLevel
  PROVE  TypeOK'
<1>1. CASE EndStatement BY <1>1 DEF EndStatement, TypeOK, taskVars, fiberVars, rowVars
<1>2. CASE OpenScope BY <1>2 DEF OpenScope, TypeOK, taskVars, fiberVars, rowVars
<1>3. CASE CloseScope BY <1>3 DEF CloseScope, TypeOK, taskVars, fiberVars, rowVars
<1>4. CASE AbandonScope BY <1>4 DEF AbandonScope, TypeOK, fiberVars, rowVars
<1>5. CASE Sweep
  <2>1. swept + 1 \in Tasks /\ swept + 1 \in 0 .. MaxTasks BY <1>5, Numbers DEF Sweep, TypeOK
  <2>2. status' \in [Tasks -> Statuses] /\ ledger' \in [Tasks -> Seq(Etypes)] /\ crashes' \in Nat
    <3>1. CASE SweepTakes(swept + 1)
      <4>1. status' = [status EXCEPT ![swept + 1] = "expired"] /\ Lands(<<"Expired">>, swept + 1)
        BY <1>5, <3>1 DEF Sweep
      <4> QED BY <2>1, <4>1, LandsType, RowTypes DEF TypeOK, Statuses, Terminals
    <3>2. CASE ~SweepTakes(swept + 1)
      BY <1>5, <3>2 DEF Sweep, TypeOK, rowVars
    <3> QED BY <3>1, <3>2
  <2>3. reacting' \in BOOLEAN
    BY <1>5, Zenon DEF Sweep, SweepTakes, Open, Terminal, TypeOK
  <2> QED BY <1>5, <2>1, <2>2, <2>3 DEF Sweep, TypeOK, fiberVars
<1>6. CASE Reacted BY <1>6 DEF Reacted, TypeOK, taskVars, fiberVars, rowVars
<1>7. CASE SweepDone BY <1>7 DEF SweepDone, TypeOK, fiberVars, rowVars
<1>8. CASE Prompt BY <1>8 DEF Prompt, TypeOK, taskVars, fiberVars, rowVars
<1> QED BY <1>1, <1>2, <1>3, <1>4, <1>5, <1>6, <1>7, <1>8 DEF TopLevel

-----------------------------------------------------------------------------
(* Steps that move nothing, and steps of one task.                         *)

LEMMA Still ==
  ASSUME IInv, UNCHANGED <<sent, status, foreground, ledger, pending, turns, frames, raising>>,
         lost \subseteq lost'
  PROVE  Rows' /\ Queues' /\ Stacks' /\ Ends' /\ \A t \in Tasks : Terminal(t) => Terminal(t)'
<1>1. \A t : Terminal(t)' = Terminal(t) /\ Plain(t)' = Plain(t) /\ InTurns(t)' = InTurns(t)
  BY DEF Terminal, Plain, InTurns
<1>2. \A t : Refused(t)' = Refused(t) BY DEF Refused, Terminal
<1>3. Rows' BY <1>1, <1>2 DEF IInv, Rows
<1>4. Queues' BY <1>1 DEF IInv, Queues
<1>5. Stacks' BY <1>1 DEF IInv, Stacks
<1>6. Ends' BY <1>2 DEF IInv, Ends
<1> QED BY <1>1, <1>3, <1>4, <1>5, <1>6

\* Where the top level is stays true while it stays there.
LEMMA PhasesStay ==
  ASSUME IInv, TypeOK', phase' = phase, swept' = swept, reacting' = reacting,
         turns' # << >> => turns # << >> \/ phase \in {"drain", "closing"},
         frames'[0] # << >> => frames[0] # << >> \/ phase = "statement" \/ reacting,
         \A t \in Tasks : owned'[t] => t <= sent' /\ (t <= sent => owned[t]),
         sent' = sent \/ (sent' = sent + 1 /\ phase # "quiescent"),
         \A t \in Tasks : Terminal(t) => Terminal(t)'
  PROVE  Phases'
<1>1. \A t \in Tasks : t \in Nat BY Numbers
<1>2. sent \in Nat /\ swept \in Nat /\ sent' \in Nat BY DEF IInv, TypeOK
<1>3. /\ turns' # << >> => phase' \in {"drain", "closing", "failed"}
      /\ frames'[0] # << >> => phase' = "statement" \/ reacting'
      /\ reacting' => phase' \in {"sweep", "closeSweep"}
      /\ swept' <= sent'
      /\ \A t \in Tasks : owned'[t] => t <= sent'
  BY <1>2 DEF IInv, Phases
<1>4. phase' = "sweep" => \A t \in Tasks : t <= swept' => Terminal(t)'
  BY DEF IInv, Phases
<1>5. phase' = "closeSweep" => \A t \in Tasks : t <= swept' /\ owned'[t] => Terminal(t)'
  <2>1. ASSUME phase = "closeSweep", NEW t \in Tasks, t <= swept, owned'[t] PROVE Terminal(t)
    <3>1. t <= sent BY <1>1, <1>2, <2>1 DEF IInv, Phases
    <3> QED BY <2>1, <3>1 DEF IInv, Phases
  <2> QED BY <2>1
<1>6. phase' = "quiescent" => \A t \in Tasks : t <= sent' => Terminal(t)'
  BY DEF IInv, Phases
<1> QED BY <1>3, <1>4, <1>5, <1>6 DEF Phases

LEMMA PhasesStand ==
  ASSUME IInv, TypeOK', UNCHANGED <<sent, owned, phase, swept, reacting, turns, frames>>,
         \A t \in Tasks : Terminal(t) => Terminal(t)'
  PROVE  Phases'
<1>1. \A t \in Tasks : owned[t] => t <= sent BY DEF IInv, Phases
<1> QED BY <1>1, PhasesStay

\* A turn of the session fails when the top level is in no handler.
LEMMA PhasesFail ==
  ASSUME IInv, TypeOK', TurnFails, sent' = sent, frames'[0] = << >>
  PROVE  Phases'
<1>1. swept <= sent BY DEF IInv, Phases
<1>2. phase' = "failed" /\ reacting' = FALSE /\ swept' = swept /\ \A t \in Tasks : ~owned'[t]
  BY DEF TurnFails
<1> QED BY <1>1, <1>2 DEF Phases

\* A session that rests runs nothing.
LEMMA RunsIsNotQuiescent ==
  ASSUME IInv, NEW r \in Runners, Runs(r)
  PROVE  phase # "quiescent"
<1>1. CASE r = 0
  <2>1. phase = "statement" \/ reacting BY <1>1 DEF Runs, IInv, Phases
  <2> QED BY <2>1 DEF IInv, Phases
<1>2. CASE r # 0
  <2>1. turns # << >> BY <1>2, RunsFacts DEF IInv
  <2> QED BY <2>1 DEF IInv, Phases
<1> QED BY <1>1, <1>2

\* A task gets another status, and nothing moves.
LEMMA AdvanceInv ==
  ASSUME IInv, TypeOK', NEW t \in Tasks, NEW to, NEW rows, Open(t), Advances(t, to, rows),
         UNCHANGED <<foreground, pending, turns, frames, raising, lost>>,
         to = "delivered" => /\ \A i \in DOMAIN pending : pending[i] # t
                             /\ \A i \in DOMAIN turns : turns[i] = t => frames[t] # << >>
  PROVE  Rows' /\ Queues' /\ Stacks' /\ Ends' /\ \A s \in Tasks : Terminal(s) => Terminal(s)'
<1>1. /\ Rows' /\ ~Refused(t)' /\ status'[t] = to
      /\ \A s \in Tasks : s # t => status'[s] = status[s] /\ Refused(s)' = Refused(s)
  BY AdvancesRows DEF IInv
<1>3. \A s \in Tasks : Refused(s)' => Refused(s) BY <1>1
<1>4. sent' = sent BY DEF Advances
<1>5. \A s : InTurns(s)' = InTurns(s) BY DEF InTurns
<1>6. pending \in Seq(Tasks) /\ turns \in Seq(Tasks) /\ frames \in [Runners -> Seq(Tasks)]
  BY DEF IInv, TypeOK
<1>7. Queues'
  <2>1. \A i \in DOMAIN pending : status'[pending[i]] # "delivered"
    BY <1>1, <1>6 DEF IInv, Queues
  <2>2. ASSUME NEW i \in DOMAIN turns, frames[turns[i]] = << >>, turns[i] \notin lost
        PROVE  status'[turns[i]] # "delivered"
    <3>1. turns[i] \in Tasks /\ status[turns[i]] # "delivered" BY <1>6, <2>2 DEF IInv, Queues
    <3>2. CASE turns[i] = t
      <4>1. to # "delivered" BY <2>2, <3>2
      <4> QED BY <1>1, <3>2, <4>1
    <3>3. CASE turns[i] # t BY <1>1, <3>1, <3>3
    <3> QED BY <3>2, <3>3
  <2> QED BY <1>4, <1>5, <2>1, <2>2 DEF IInv, Queues
<1>8. Stacks' BY <1>4, <1>5 DEF IInv, Stacks
<1>9. Ends'
  <2>1. \A r \in Runners : \A i \in DOMAIN frames[r] : frames[r][i] \in Tasks BY <1>6
  <2> QED BY <1>3, <2>1 DEF IInv, Ends
<1>10. \A s \in Tasks : Terminal(s) => Terminal(s)' BY <1>1 DEF Terminal, Open
<1> QED BY <1>1, <1>7, <1>8, <1>9, <1>10

\* An innermost handler that is not refused begins to end.
LEMMA RaiseInv ==
  ASSUME IInv, NEW r \in Runners, Runs(r), frames[r] # << >>, NEW e \in {"done", "error"},
         UNCHANGED <<sent, status, foreground, pending, turns, frames, lost>>,
         raising' = [raising EXCEPT ![r] = e],
         \A s \in Tasks : Plain(s) => Plain(s)' \/ Refused(s)',
         \A s \in Tasks : Refused(s) => Refused(s)',
         \A s \in Tasks : Refused(s)' => Refused(s) \/ (s = Top(r) /\ e = "done")
  PROVE  Rows' /\ Queues' /\ Stacks' /\ Ends' /\ \A s \in Tasks : Terminal(s) => Terminal(s)'
<1>1. \A s : Terminal(s)' = Terminal(s) /\ InTurns(s)' = InTurns(s) BY DEF Terminal, InTurns
<1>2. Rows' BY DEF IInv, Rows
<1>3. Queues' BY <1>1 DEF IInv, Queues
<1>4. Stacks' BY <1>1 DEF IInv, Stacks
<1>5. raising'[r] = e /\ \A s \in Runners : s # r => raising'[s] = raising[s]
  BY DEF IInv, TypeOK
<1>6. raising[r] = "no" /\ (r # 0 => turns # << >> /\ turns[1] = r) BY RunsFacts DEF IInv
<1>7. ASSUME NEW s \in Runners, raising'[s] # "no"
      PROVE  frames'[s] # << >> /\ (s # 0 => turns' # << >> /\ turns'[1] = s)
  BY <1>5, <1>6, <1>7 DEF IInv, Ends
<1>8. ASSUME NEW s \in Runners, NEW i \in DOMAIN frames[s], Refused(frames[s][i])'
      PROVE  i = Len(frames[s]) /\ raising'[s] = "done"
  <2>1. frames[s][i] \in Tasks BY DEF IInv, TypeOK
  <2>2. CASE Refused(frames[s][i])
    <3>1. i = Len(frames[s]) /\ raising[s] = "done" BY <2>2 DEF IInv, Ends
    <3> QED BY <1>5, <1>6, <3>1
  <2>3. CASE frames[s][i] = Top(r) /\ e = "done"
    <3>1. Len(frames[r]) \in DOMAIN frames[r] BY TopFacts DEF IInv
    <3>2. s = r /\ i = Len(frames[r]) BY <2>3, <3>1 DEF IInv, Stacks, Top
    <3> QED BY <1>5, <2>3, <3>2
  <2> QED BY <1>8, <2>1, <2>2, <2>3
<1>9. Ends' BY <1>7, <1>8 DEF Ends
<1> QED BY <1>1, <1>2, <1>3, <1>4, <1>9

-----------------------------------------------------------------------------
(* Sending.                                                                *)

LEMMA NewTaskInv ==
  ASSUME IInv, TypeOK', NEW fg \in BOOLEAN, NewTask(fg),
         status' = [status EXCEPT ![sent + 1] = "sent"], Lands(<<"Sent">>, sent + 1)
  PROVE  \E n \in Tasks :
           /\ n = sent + 1
           /\ Rows' /\ sent' = n /\ sent \in Nat
           /\ \A s \in Tasks : s # n =>
                status'[s] = status[s] /\ foreground'[s] = foreground[s] /\ Refused(s)' = Refused(s)
           /\ foreground'[n] = fg /\ ~Refused(n)' /\ status'[n] = "sent"
           /\ \A s \in Tasks : Terminal(s) => Terminal(s)'
           /\ \A s \in Tasks : owned'[s] => s <= sent' /\ (s <= sent => owned[s])
           /\ status[n] = "unsent"
<1>0. PICK n \in Tasks : n = sent + 1 BY NewTaskType DEF IInv
<1>1. n \in Tasks /\ sent' = n /\ sent \in Nat /\ n = sent + 1 /\ sent < n
  <2>1. sent \in Nat BY Numbers DEF IInv, TypeOK
  <2> QED BY <1>0, <2>1 DEF NewTask
<1>2. status[n] = "unsent" BY <1>1 DEF IInv, Rows
<1>3. ledger[n] = << >>
  <2>1. ~Refused(n) BY <1>2 DEF Refused, Terminal, Terminals
  <2>2. Plain(n) BY <1>1, <2>1 DEF IInv, Rows
  <2> QED BY <1>2, <2>2 DEF Plain, RowsOf
<1>4. \A s \in Tasks : s # n => status'[s] = status[s] /\ ledger'[s] = ledger[s]
  BY <1>0 DEF Lands, IInv, TypeOK
<1>5. status'[n] = "sent" /\ ledger'[n] = <<"Sent">>
  <2>1. ledger'[n] = ledger[n] \o <<"Sent">> BY <1>0 DEF Lands, IInv, TypeOK
  <2>2. << >> \o <<"Sent">> = <<"Sent">> OBVIOUS
  <2> QED BY <1>0, <1>3, <2>1, <2>2 DEF IInv, TypeOK
<1>6. \A s \in Tasks : s # n => Plain(s)' = Plain(s) /\ Refused(s)' = Refused(s)
  BY <1>4 DEF Plain, Refused, Terminal
<1>7. Plain(n)' BY <1>5 DEF Plain, RowsOf
<1>8. ~Refused(n)' BY <1>5 DEF Refused, Terminal, Terminals
<1>9. ASSUME NEW s \in Tasks PROVE status'[s] = "unsent" <=> sent' < s
  <2>1. s \in Nat BY Numbers
  <2>2. CASE s = n BY <1>1, <1>5, <2>2
  <2>3. CASE s # n
    <3>1. status[s] = "unsent" <=> sent < s BY DEF IInv, Rows
    <3>2. sent < s <=> n < s BY <1>1, <2>1, <2>3
    <3> QED BY <1>1, <1>4, <2>3, <3>1, <3>2
  <2> QED BY <2>2, <2>3
<1>10. Rows' BY <1>6, <1>7, <1>9 DEF IInv, Rows
<1>11. /\ foreground'[n] = fg
       /\ \A s \in Tasks : s # n => foreground'[s] = foreground[s]
  BY <1>0 DEF NewTask, IInv, TypeOK
<1>12. \A s \in Tasks : Terminal(s) => Terminal(s)'
  BY <1>2, <1>4 DEF Terminal, Terminals
<1>13. ASSUME NEW s \in Tasks, owned'[s] PROVE s <= sent' /\ (s <= sent => owned[s])
  <2>1. s \in Nat BY Numbers
  <2>2. \E o \in {FALSE, scope} : owned' = [owned EXCEPT ![n] = o] BY <1>0 DEF NewTask
  <2>3. CASE s = n BY <1>1, <2>3
  <2>4. CASE s # n
    <3>1. owned[s] BY <1>13, <2>2, <2>4 DEF IInv, TypeOK
    <3>2. s <= sent BY <3>1 DEF IInv, Phases
    <3> QED BY <1>1, <2>1, <3>1, <3>2
  <2> QED BY <2>3, <2>4
<1> QED BY <1>0, <1>1, <1>2, <1>4, <1>5, <1>6, <1>8, <1>10, <1>11, <1>12, <1>13

\* What stands in queues and stacks was sent before.
LEMMA OldOnes ==
  ASSUME IInv
  PROVE  /\ pending \in Seq(Tasks) /\ turns \in Seq(Tasks)
         /\ \A i \in DOMAIN pending : pending[i] \in Tasks /\ pending[i] # sent + 1
         /\ \A i \in DOMAIN turns : turns[i] \in Tasks /\ turns[i] # sent + 1
         /\ \A r \in Runners : /\ frames[r] \in Seq(Tasks)
                               /\ \A i \in DOMAIN frames[r] :
                                    frames[r][i] \in Tasks /\ frames[r][i] # sent + 1
<1>1. sent \in Nat /\ \A s \in Tasks : s <= sent => s # sent + 1 BY Numbers DEF IInv, TypeOK
<1>2. pending \in Seq(Tasks) /\ turns \in Seq(Tasks) /\ \A r \in Runners : frames[r] \in Seq(Tasks)
  BY DEF IInv, TypeOK
<1>3. \A i \in DOMAIN pending : pending[i] \in Tasks /\ pending[i] # sent + 1
  BY <1>1, <1>2 DEF IInv, Queues
<1>4. \A i \in DOMAIN turns : turns[i] \in Tasks /\ turns[i] # sent + 1
  BY <1>1, <1>2 DEF IInv, Queues
<1>5. \A r \in Runners : \A i \in DOMAIN frames[r] :
        frames[r][i] \in Tasks /\ frames[r][i] # sent + 1
  BY <1>1, <1>2 DEF IInv, Stacks
<1> QED BY <1>2, <1>3, <1>4, <1>5

LEMMA AppendFacts ==
  ASSUME NEW S, NEW seq \in Seq(S), NEW e
  PROVE  /\ Append(seq, e) # << >>
         /\ DOMAIN Append(seq, e) = 1 .. Len(seq) + 1 /\ Len(seq) \in Nat
         /\ DOMAIN seq = 1 .. Len(seq)
         /\ Append(seq, e)[Len(seq) + 1] = e
         /\ \A i \in DOMAIN seq : i \in DOMAIN Append(seq, e) /\ Append(seq, e)[i] = seq[i]
         /\ \A i \in DOMAIN Append(seq, e) : i \in DOMAIN seq \/ i = Len(seq) + 1
<1> DEFINE longer == Append(seq, e)
<1>1. /\ DOMAIN longer = 1 .. Len(seq) + 1 /\ longer[Len(seq) + 1] = e /\ Len(seq) \in Nat
      /\ DOMAIN seq = 1 .. Len(seq) /\ longer # << >>
      /\ \A i \in DOMAIN seq : i \in DOMAIN longer /\ longer[i] = seq[i]
  OBVIOUS
<1>2. \A i \in DOMAIN longer : i \in DOMAIN seq \/ i = Len(seq) + 1 BY <1>1
<1> QED BY <1>1, <1>2

\* Appending what does not occur keeps a list without repetitions.
LEMMA AppendNoRepeats ==
  ASSUME NEW S, NEW seq \in Seq(S), NoRepeats(seq), NEW e, \A i \in DOMAIN seq : seq[i] # e
  PROVE  NoRepeats(Append(seq, e))
<1> DEFINE longer == Append(seq, e)
<1>1. /\ longer[Len(seq) + 1] = e
      /\ \A i \in DOMAIN seq : i \in DOMAIN longer /\ longer[i] = seq[i]
      /\ \A i \in DOMAIN longer : i \in DOMAIN seq \/ i = Len(seq) + 1
  BY AppendFacts
<1> HIDE DEF longer
<1>2. NoRepeats(longer) BY <1>1 DEF NoRepeats
<1> QED BY <1>2 DEF longer

LEMMA SendBackgroundInv ==
  ASSUME IInv, TypeOK', NEW r \in Runners, SendBackground(r)
  PROVE  IInv'
<1>1. /\ NewTask(FALSE) /\ status' = [status EXCEPT ![sent + 1] = "sent"]
      /\ Lands(<<"Sent">>, sent + 1)
      /\ pending' \in {pending, Append(pending, sent + 1)}
      /\ UNCHANGED <<turns, frames, raising, phase, swept, reacting, lost>>
  BY DEF SendBackground, fiberVars, topVars
<1>2. PICK n \in Tasks :
      /\ n = sent + 1
      /\ Rows' /\ sent' = n /\ sent \in Nat
      /\ \A s \in Tasks : s # n =>
           status'[s] = status[s] /\ foreground'[s] = foreground[s] /\ Refused(s)' = Refused(s)
      /\ foreground'[n] = FALSE /\ ~Refused(n)' /\ status'[n] = "sent"
      /\ \A s \in Tasks : Terminal(s) => Terminal(s)'
      /\ \A s \in Tasks : owned'[s] => s <= sent' /\ (s <= sent => owned[s])
  BY <1>1, NewTaskInv
<1>3. \A s : InTurns(s)' = InTurns(s) BY <1>1 DEF InTurns
<1>4. \A s \in Tasks : s <= sent => s <= sent' BY <1>2, Numbers
<1>5. /\ NoRepeats(pending')
      /\ \A i \in DOMAIN pending' :
           (i \in DOMAIN pending /\ pending'[i] = pending[i]) \/ pending'[i] = n
  <2>1. CASE pending' = pending BY <2>1 DEF IInv, Queues
  <2>2. CASE pending' = Append(pending, n)
    BY <1>2, <2>2, OldOnes, AppendFacts, AppendNoRepeats DEF IInv, Queues
  <2> QED BY <1>1, <1>2, <2>1, <2>2
<1>6. ~InTurns(n) BY <1>2, OldOnes DEF InTurns
<1>7. Queues'
  <2>0. \A s : InTurns(s) <=> \E i \in DOMAIN turns' : turns'[i] = s BY <1>1 DEF InTurns
  <2>1. ASSUME NEW i \in DOMAIN pending'
        PROVE  pending'[i] <= sent' /\ ~foreground'[pending'[i]] /\ ~InTurns(pending'[i])
                 /\ status'[pending'[i]] # "delivered"
    <3>1. CASE pending'[i] = n
      <4>1. n <= sent' BY <1>2
      <4> QED BY <1>2, <1>6, <3>1, <4>1
    <3>2. CASE i \in DOMAIN pending /\ pending'[i] = pending[i]
      <4>1. pending[i] \in Tasks /\ pending[i] # n BY <1>2, <3>2, OldOnes
      <4>2. pending[i] <= sent /\ ~foreground[pending[i]] /\ ~InTurns(pending[i])
            /\ status[pending[i]] # "delivered"
        BY <3>2 DEF IInv, Queues
      <4> QED BY <1>2, <1>4, <3>2, <4>1, <4>2
    <3> QED BY <1>5, <3>1, <3>2
  <2>2. ASSUME NEW i \in DOMAIN turns
        PROVE  turns[i] <= sent' /\ ~foreground'[turns[i]]
                 /\ (frames[turns[i]] = << >> /\ turns[i] \notin lost
                       => status'[turns[i]] # "delivered")
    <3>1. turns[i] \in Tasks /\ turns[i] # n BY <1>2, OldOnes
    <3> QED BY <1>2, <1>4, <3>1 DEF IInv, Queues
  <2>3. NoRepeats(turns) BY DEF IInv, Queues
  <2> QED BY <1>1, <1>5, <2>0, <2>1, <2>2, <2>3 DEF Queues, InTurns
<1>8. Stacks'
  <2>1. ASSUME NEW s \in Runners, NEW i \in DOMAIN frames[s]
        PROVE  /\ frames[s][i] <= sent'
               /\ foreground'[frames[s][i]] <=> s = 0 \/ i > 1
               /\ s # 0 => frames[s][1] = s /\ InTurns(s)'
    <3>1. frames[s][i] \in Tasks /\ frames[s][i] # n BY <1>2, OldOnes
    <3> QED BY <1>2, <1>3, <1>4, <3>1 DEF IInv, Stacks
  <2> QED BY <1>1, <2>1 DEF IInv, Stacks
<1>9. Ends'
  <2>1. ASSUME NEW s \in Runners, NEW i \in DOMAIN frames[s], Refused(frames[s][i])'
        PROVE  i = Len(frames[s]) /\ raising[s] = "done"
    <3>1. PICK k \in Tasks : k = frames[s][i] /\ k # n BY <1>2, OldOnes
    <3>2. frames'[s][i] = k /\ Refused(k)' = Refused(k) BY <1>1, <1>2, <3>1
    <3>3. Refused(frames[s][i]) BY <1>1, <2>1, <3>1, <3>2
    <3> QED BY <3>3 DEF IInv, Ends
  <2> QED BY <1>1, <2>1 DEF IInv, Ends
<1>10. Phases'
  <2>1. phase # "quiescent" BY RunsIsNotQuiescent DEF SendBackground
  <2> QED BY <1>1, <1>2, <2>1, PhasesStay
<1> QED BY <1>2, <1>7, <1>8, <1>9, <1>10 DEF IInv

LEMMA SendForegroundInv ==
  ASSUME IInv, TypeOK', NEW r \in Runners, SendForeground(r)
  PROVE  IInv'
<1>1. /\ NewTask(TRUE) /\ status' = [status EXCEPT ![sent + 1] = "sent"]
      /\ Lands(<<"Sent">>, sent + 1)
      /\ frames' = [frames EXCEPT ![r] = Append(@, sent + 1)]
      /\ UNCHANGED <<pending, turns, lost, raising, phase, swept, reacting>>
  BY DEF SendForeground, fiberVars, topVars
<1>2. PICK n \in Tasks :
      /\ n = sent + 1
      /\ Rows' /\ sent' = n /\ sent \in Nat
      /\ \A s \in Tasks : s # n =>
           status'[s] = status[s] /\ foreground'[s] = foreground[s] /\ Refused(s)' = Refused(s)
      /\ foreground'[n] = TRUE /\ ~Refused(n)' /\ status'[n] = "sent"
      /\ \A s \in Tasks : Terminal(s) => Terminal(s)'
      /\ \A s \in Tasks : owned'[s] => s <= sent' /\ (s <= sent => owned[s])
  BY <1>1, NewTaskInv
<1>3. \A s : InTurns(s)' = InTurns(s) BY <1>1 DEF InTurns
<1>4. \A s \in Tasks : s <= sent => s <= sent' BY <1>2, Numbers
<1>5. Runs(r) /\ raising[r] = "no" /\ (r # 0 => frames[r] # << >>)
  BY RunsFacts DEF IInv, SendForeground
<1>6. frames'[r] = Append(frames[r], n) /\ \A s \in Runners : s # r => frames'[s] = frames[s]
  BY <1>1, <1>2 DEF IInv, TypeOK
<1>7. /\ frames[r] \in Seq(Tasks) /\ frames'[r] # << >>
      /\ DOMAIN frames'[r] = 1 .. Len(frames[r]) + 1 /\ Len(frames[r]) \in Nat
      /\ DOMAIN frames[r] = 1 .. Len(frames[r])
      /\ frames'[r][Len(frames[r]) + 1] = n
      /\ \A i \in DOMAIN frames[r] : frames'[r][i] = frames[r][i]
      /\ \A i \in DOMAIN frames'[r] : i \in DOMAIN frames[r] \/ i = Len(frames[r]) + 1
  <2>1. frames[r] \in Seq(Tasks) BY OldOnes
  <2> DEFINE f == Append(frames[r], n)
  <2>2. /\ f # << >> /\ DOMAIN f = 1 .. Len(frames[r]) + 1 /\ Len(frames[r]) \in Nat
        /\ DOMAIN frames[r] = 1 .. Len(frames[r]) /\ f[Len(frames[r]) + 1] = n
        /\ \A i \in DOMAIN frames[r] : f[i] = frames[r][i]
        /\ \A i \in DOMAIN f : i \in DOMAIN frames[r] \/ i = Len(frames[r]) + 1
    BY <2>1, AppendFacts
  <2>3. f = frames'[r] BY <1>6
  <2> HIDE DEF f
  <2> QED BY <2>1, <2>2, <2>3
<1>8. Queues'
  <2>1. ASSUME NEW i \in DOMAIN pending
        PROVE  pending[i] <= sent' /\ ~foreground'[pending[i]] /\ status'[pending[i]] # "delivered"
    <3>1. pending[i] \in Tasks /\ pending[i] # n BY <1>2, OldOnes
    <3> QED BY <1>2, <1>4, <3>1 DEF IInv, Queues
  <2>2. ASSUME NEW i \in DOMAIN turns
        PROVE  turns[i] <= sent' /\ ~foreground'[turns[i]]
                 /\ (frames'[turns[i]] = << >> /\ turns[i] \notin lost
                       => status'[turns[i]] # "delivered")
    <3>1. turns[i] \in Tasks /\ turns[i] # n /\ turns[i] \in Runners BY <1>2, OldOnes, Numbers
    <3>2. frames'[turns[i]] = << >> => frames[turns[i]] = << >> BY <1>6, <1>7, <3>1
    <3> QED BY <1>2, <1>4, <3>1, <3>2 DEF IInv, Queues
  <2> QED BY <1>1, <1>3, <2>1, <2>2 DEF IInv, Queues
\* Every frame is an old one or the new one.
<1>9. ASSUME NEW s \in Runners, NEW i \in DOMAIN frames'[s]
      PROVE  \/ i \in DOMAIN frames[s] /\ frames'[s][i] = frames[s][i]
             \/ s = r /\ i = Len(frames[r]) + 1 /\ frames'[s][i] = n
  BY <1>6, <1>7
<1>10. Stacks'
  <2>1. ASSUME NEW s \in Runners, NEW i \in DOMAIN frames'[s]
        PROVE  /\ frames'[s][i] <= sent'
               /\ foreground'[frames'[s][i]] <=> s = 0 \/ i > 1
               /\ s # 0 => frames'[s][1] = s /\ InTurns(s)'
    <3>1. CASE i \in DOMAIN frames[s] /\ frames'[s][i] = frames[s][i]
      <4>1. frames[s][i] \in Tasks /\ frames[s][i] # n BY <1>2, <3>1, OldOnes
      <4>2. 1 \in DOMAIN frames[s] /\ frames'[s][1] = frames[s][1]
        <5>1. 1 \in DOMAIN frames[s] BY <3>1, OldOnes
        <5> QED BY <1>6, <1>7, <5>1
      <4>3. /\ frames[s][i] <= sent
            /\ foreground[frames[s][i]] <=> s = 0 \/ i > 1
            /\ s # 0 => frames[s][1] = s /\ InTurns(s)
        BY <3>1 DEF IInv, Stacks
      <4> QED BY <1>2, <1>3, <1>4, <3>1, <4>1, <4>2, <4>3
    <3>2. CASE s = r /\ i = Len(frames[r]) + 1 /\ frames'[s][i] = n
      <4>1. CASE r = 0 BY <1>2, <3>2, <4>1
      <4>2. CASE r # 0
        <5>1. 1 \in DOMAIN frames[r] /\ Len(frames[r]) > 0 BY <1>5, <1>7, <4>2, OldOnes
        <5>2. frames[r][1] = r /\ InTurns(r) BY <4>2, <5>1 DEF IInv, Stacks
        <5>3. frames'[r][1] = r BY <1>7, <5>1, <5>2
        <5> QED BY <1>2, <1>3, <1>7, <3>2, <4>2, <5>1, <5>2, <5>3
      <4> QED BY <4>1, <4>2
    <3> QED BY <1>9, <3>1, <3>2
  <2>2. ASSUME NEW s \in Runners, NEW q \in Runners, NEW i \in DOMAIN frames'[s],
               NEW j \in DOMAIN frames'[q], frames'[s][i] = frames'[q][j]
        PROVE  s = q /\ i = j
    <3>1. CASE i \in DOMAIN frames[s] /\ frames'[s][i] = frames[s][i]
      <4>1. frames'[q][j] # n BY <1>2, <2>2, <3>1, OldOnes
      <4>2. j \in DOMAIN frames[q] /\ frames'[q][j] = frames[q][j] BY <1>9, <2>2, <3>1, <4>1
      <4>3. frames[s][i] = frames[q][j] BY <2>2, <3>1, <4>2
      <4> QED BY <3>1, <4>2, <4>3 DEF IInv, Stacks
    <3>2. CASE s = r /\ i = Len(frames[r]) + 1 /\ frames'[s][i] = n
      <4>1. ~(j \in DOMAIN frames[q] /\ frames'[q][j] = frames[q][j]) BY <1>2, <2>2, <3>2, OldOnes
      <4> QED BY <1>9, <3>2, <4>1
    <3> QED BY <1>9, <3>1, <3>2
  <2> QED BY <2>1, <2>2 DEF Stacks
<1>11. Ends'
  <2>1. ASSUME NEW s \in Runners, raising'[s] # "no"
        PROVE  frames'[s] # << >> /\ (s # 0 => turns' # << >> /\ turns'[1] = s)
    <3>1. s # r BY <1>1, <1>5, <2>1
    <3> QED BY <1>1, <1>6, <2>1, <3>1 DEF IInv, Ends
  <2>2. ASSUME NEW s \in Runners, NEW i \in DOMAIN frames'[s],
               NEW t \in Tasks, t = frames'[s][i], Refused(t)'
        PROVE  i = Len(frames'[s]) /\ raising'[s] = "done"
    <3>1. i \in DOMAIN frames[s] /\ frames'[s][i] = frames[s][i] BY <1>2, <1>9, <2>2
    <3>2. frames[s][i] \in Tasks /\ frames[s][i] # n BY <1>2, <3>1, OldOnes
    <3>3. Refused(frames[s][i])
      <4>1. t # n /\ Refused(t) BY <1>2, <2>2, <3>1, <3>2
      <4> QED BY <2>2, <3>1, <4>1
    <3>4. i = Len(frames[s]) /\ raising[s] = "done" BY <3>1, <3>3 DEF IInv, Ends
    <3> QED BY <1>1, <1>5, <1>6, <3>4
  <2>3. \A s \in Runners : \A i \in DOMAIN frames'[s] : frames'[s][i] \in Tasks
    BY DEF TypeOK
  <2> QED BY <2>1, <2>2, <2>3 DEF Ends
<1>12. Phases'
  <2>1. phase # "quiescent" BY <1>5, RunsIsNotQuiescent
  <2>2. frames'[0] # << >> => frames[0] # << >> \/ phase = "statement" \/ reacting
    BY <1>5, <1>6, Numbers DEF Runs
  <2> QED BY <1>1, <1>2, <2>1, <2>2, PhasesStay
<1> QED BY <1>2, <1>8, <1>10, <1>11, <1>12 DEF IInv

LEMMA DeliverInlineInv ==
  ASSUME IInv, TypeOK', NEW r \in Runners, DeliverInline(r)
  PROVE  IInv'
<1> DEFINE t == Top(r)
<1>1. /\ Runs(r) /\ frames[r] # << >> /\ status[t] = "sent"
      /\ status' = [status EXCEPT ![t] = "delivered"] /\ Lands(<<"Delivered">>, t)
      /\ UNCHANGED <<sent, foreground, owned, pending, turns, lost, frames, raising, phase, swept, reacting>>
  BY DEF DeliverInline, AtDelivery, fiberVars, topVars
<1>2. t \in Tasks /\ Len(frames[r]) \in DOMAIN frames[r] /\ t = frames[r][Len(frames[r])]
  BY <1>1, TopFacts DEF IInv, Top
<1>3. Open(t) BY <1>1 DEF Open, Terminal, Terminals
<1>4. Advances(t, "delivered", <<"Delivered">>) BY <1>1 DEF Advances, Advance, Lands
<1>5. (r # 0 /\ t = r /\ InTurns(r)) \/ foreground[t]
  <2>1. CASE r = 0 \/ Len(frames[r]) > 1 BY <1>2, <2>1 DEF IInv, Stacks
  <2>2. CASE r # 0 /\ ~(Len(frames[r]) > 1)
    <3>1. Len(frames[r]) = 1 BY <1>1, <2>2, TopFacts DEF IInv
    <3> QED BY <1>2, <2>2, <3>1 DEF IInv, Stacks
  <2> QED BY <2>1, <2>2
<1>6. \A i \in DOMAIN pending : pending[i] # t BY <1>5 DEF IInv, Queues
<1>7. \A i \in DOMAIN turns : turns[i] = t => frames[t] # << >> BY <1>1, <1>5 DEF IInv, Queues
<1>8. Rows' /\ Queues' /\ Stacks' /\ Ends' /\ \A s \in Tasks : Terminal(s) => Terminal(s)'
  BY <1>1, <1>2, <1>3, <1>4, <1>6, <1>7, AdvanceInv
<1>9. Phases' BY <1>1, <1>8, PhasesStand
<1> QED BY <1>8, <1>9 DEF IInv

LEMMA UnheardInv ==
  ASSUME IInv, TypeOK', NEW r \in Runners, Unheard(r)
  PROVE  IInv'
<1>1. /\ Runs(r) /\ frames[r] # << >> /\ raising' = [raising EXCEPT ![r] = "done"]
      /\ UNCHANGED <<sent, status, foreground, owned, pending, turns, lost, frames, phase, swept, reacting,
                     ledger>>
  BY DEF Unheard, AtDelivery, taskVars, fiberVars, topVars, rowVars
<1>2. \A s : Plain(s)' = Plain(s) /\ Refused(s)' = Refused(s) BY <1>1 DEF Plain, Refused, Terminal
<1>3. Rows' /\ Queues' /\ Stacks' /\ Ends' /\ \A s \in Tasks : Terminal(s) => Terminal(s)'
  BY <1>1, <1>2, RaiseInv
<1>4. Phases' BY <1>1, <1>3, PhasesStand
<1> QED BY <1>3, <1>4 DEF IInv

LEMMA ThrowInv ==
  ASSUME IInv, TypeOK', NEW r \in Runners, Throw(r)
  PROVE  IInv'
<1>1. /\ Runs(r)
      /\ UNCHANGED <<sent, status, foreground, pending, turns, lost, frames, ledger>>
  BY DEF Throw, fiberVars, rowVars
<1>2. \A s : Plain(s)' = Plain(s) /\ Refused(s)' = Refused(s) BY <1>1 DEF Plain, Refused, Terminal
<1>3. CASE /\ AtDelivery(r)
           /\ raising' = [raising EXCEPT ![r] = "error"]
           /\ UNCHANGED <<owned, topVars>>
  <2>1. frames[r] # << >> /\ UNCHANGED <<owned, phase, swept, reacting>> BY <1>3 DEF AtDelivery, topVars
  <2>2. Rows' /\ Queues' /\ Stacks' /\ Ends' /\ \A s \in Tasks : Terminal(s) => Terminal(s)'
    BY <1>1, <1>2, <1>3, <2>1, RaiseInv
  <2>3. Phases' BY <1>1, <2>1, <2>2, PhasesStand
  <2> QED BY <2>2, <2>3 DEF IInv
<1>4. CASE frames[r] = << >> /\ TurnFails /\ UNCHANGED raising
  <2>1. Rows' /\ Queues' /\ Stacks' /\ Ends' BY <1>1, <1>4, Still
  <2>2. r = 0 BY <1>1, <1>4, RunsFacts DEF IInv
  <2>3. Phases' BY <1>1, <1>4, <2>2, PhasesFail
  <2> QED BY <2>1, <2>3 DEF IInv
<1> QED BY <1>3, <1>4 DEF Throw

-----------------------------------------------------------------------------
(* Taking turns.                                                           *)

\* The fibers behind the first, in their order.
LEMMA TailFacts ==
  ASSUME NEW seq \in Seq(Tasks), seq # << >>, NoRepeats(seq)
  PROVE  LET rest == SubSeq(seq, 2, Len(seq)) IN
         /\ rest \in Seq(Tasks)
         /\ NoRepeats(rest)
         /\ \A i \in DOMAIN rest : rest[i] # seq[1] /\ \E j \in DOMAIN seq : rest[i] = seq[j]
         /\ \A j \in DOMAIN seq : seq[j] = seq[1] \/ \E i \in DOMAIN rest : rest[i] = seq[j]
<1> DEFINE rest == SubSeq(seq, 2, Len(seq))
<1>1. /\ rest \in Seq(Tasks) /\ DOMAIN rest = 1 .. Len(seq) - 1 /\ Len(seq) \in Nat \ {0}
      /\ DOMAIN seq = 1 .. Len(seq)
      /\ \A i \in 1 .. Len(seq) - 1 : rest[i] = seq[i + 1]
  OBVIOUS
<1>2. \A i \in DOMAIN rest : i + 1 \in DOMAIN seq /\ i + 1 # 1 /\ rest[i] = seq[i + 1] BY <1>1
<1>3. 1 \in DOMAIN seq BY <1>1
<1> HIDE DEF rest
<1>4. NoRepeats(rest)
  <2>1. SUFFICES ASSUME NEW i \in DOMAIN rest, NEW j \in DOMAIN rest, rest[i] = rest[j] PROVE i = j
    BY DEF NoRepeats
  <2>2. i + 1 = j + 1 BY <1>2, <2>1 DEF NoRepeats
  <2> QED BY <1>1, <2>2
<1>5. \A i \in DOMAIN rest : rest[i] # seq[1] /\ \E j \in DOMAIN seq : rest[i] = seq[j]
  BY <1>2, <1>3 DEF NoRepeats
<1>6. ASSUME NEW j \in DOMAIN seq, j # 1 PROVE \E i \in DOMAIN rest : rest[i] = seq[j]
  <2>1. j - 1 \in 1 .. Len(seq) - 1 /\ (j - 1) + 1 = j BY <1>1, <1>6
  <2> QED BY <1>1, <2>1
<1> QED BY <1>1, <1>4, <1>5, <1>6 DEF rest

\* The turn passes on, and the first leaves or goes to the end.
LEMMA TurnPasses ==
  ASSUME IInv, turns # << >>, NEW back \in BOOLEAN,
         turns' = IF back THEN Append(SubSeq(turns, 2, Len(turns)), turns[1])
                  ELSE SubSeq(turns, 2, Len(turns))
  PROVE  /\ NoRepeats(turns')
         /\ \A s : InTurns(s)' <=> InTurns(s) /\ (back \/ s # turns[1])
<1> DEFINE rest == SubSeq(turns, 2, Len(turns))
<1>0. turns \in Seq(Tasks) /\ NoRepeats(turns) BY OldOnes DEF IInv, Queues
<1>1. /\ rest \in Seq(Tasks)
      /\ NoRepeats(rest)
      /\ \A i \in DOMAIN rest : rest[i] # turns[1] /\ \E j \in DOMAIN turns : rest[i] = turns[j]
      /\ \A j \in DOMAIN turns : turns[j] = turns[1] \/ \E i \in DOMAIN rest : rest[i] = turns[j]
  BY <1>0, TailFacts
<1>2. 1 \in DOMAIN turns BY <1>0
<1>3. turns' = IF back THEN Append(rest, turns[1]) ELSE rest OBVIOUS
<1> HIDE DEF rest
<1>4. CASE ~back
  <2>1. turns' = rest BY <1>3, <1>4
  <2>2. ASSUME NEW s PROVE InTurns(s)' <=> InTurns(s) /\ s # turns[1]
    <3>1. ASSUME InTurns(s)' PROVE InTurns(s) /\ s # turns[1]
      <4>1. PICK i \in DOMAIN rest : rest[i] = s BY <2>1, <3>1 DEF InTurns
      <4>2. rest[i] # turns[1] /\ \E j \in DOMAIN turns : rest[i] = turns[j] BY <1>1
      <4> QED BY <4>1, <4>2 DEF InTurns
    <3>2. ASSUME InTurns(s), s # turns[1] PROVE InTurns(s)'
      <4>1. PICK j \in DOMAIN turns : turns[j] = s BY <3>2 DEF InTurns
      <4>2. PICK i \in DOMAIN rest : rest[i] = s BY <1>1, <3>2, <4>1
      <4> QED BY <2>1, <4>2 DEF InTurns
    <3> QED BY <3>1, <3>2
  <2> QED BY <1>1, <1>4, <2>1, <2>2
<1>5. CASE back
  <2>1. turns' = Append(rest, turns[1]) BY <1>3, <1>5
  <2>0. rest \in Seq(Tasks) /\ NoRepeats(rest) /\ \A i \in DOMAIN rest : rest[i] # turns[1] BY <1>1
  <2>2. NoRepeats(turns')
    <3>1. NoRepeats(Append(rest, turns[1])) BY <2>0, AppendNoRepeats
    <3> QED BY <2>1, <3>1
  <2>3. /\ turns'[Len(rest) + 1] = turns[1] /\ Len(rest) + 1 \in DOMAIN turns'
        /\ \A i \in DOMAIN rest : i \in DOMAIN turns' /\ turns'[i] = rest[i]
        /\ \A i \in DOMAIN turns' : i \in DOMAIN rest \/ i = Len(rest) + 1
    <3> DEFINE longer == Append(rest, turns[1])
    <3>1. /\ longer[Len(rest) + 1] = turns[1] /\ DOMAIN longer = 1 .. Len(rest) + 1 /\ Len(rest) \in Nat
          /\ \A i \in DOMAIN rest : i \in DOMAIN longer /\ longer[i] = rest[i]
          /\ \A i \in DOMAIN longer : i \in DOMAIN rest \/ i = Len(rest) + 1
      BY <2>0, AppendFacts
    <3>2. turns' = longer BY <2>1
    <3> HIDE DEF longer
    <3> QED BY <3>1, <3>2
  <2>4. ASSUME NEW s PROVE InTurns(s)' <=> InTurns(s)
    <3>1. InTurns(s)' => InTurns(s) BY <1>1, <1>2, <2>3 DEF InTurns
    <3>2. ASSUME InTurns(s) PROVE InTurns(s)'
      <4>1. PICK j \in DOMAIN turns : turns[j] = s BY <3>2 DEF InTurns
      <4>2. CASE s = turns[1] BY <2>3, <4>2 DEF InTurns
      <4>3. CASE s # turns[1]
        <5>1. PICK i \in DOMAIN rest : rest[i] = s BY <1>1, <4>1, <4>3
        <5> QED BY <2>3, <5>1 DEF InTurns
      <4> QED BY <4>2, <4>3
    <3> QED BY <3>1, <3>2
  <2> QED BY <1>5, <2>2, <2>4
<1> QED BY <1>4, <1>5

\* The turn passes on, unless it is lost.
LEMMA TurnMoves ==
  ASSUME IInv, turns # << >>, NEW back \in BOOLEAN,
         turns' = Passed(turns[1], IF back THEN <<turns[1]>> ELSE << >>)
  PROVE  /\ NoRepeats(turns')
         /\ \A s : InTurns(s)' => InTurns(s)
         /\ \A s : s # turns[1] \/ back => InTurns(s)' = InTurns(s)
         /\ \A s : s = turns[1] /\ s \notin lost /\ ~back => ~InTurns(s)'
<1>1. CASE turns[1] \in lost
  <2>1. turns' = turns BY <1>1 DEF Passed
  <2>2. \A s : InTurns(s)' = InTurns(s) BY <2>1 DEF InTurns
  <2>3. NoRepeats(turns') BY <2>1 DEF IInv, Queues
  <2> QED BY <1>1, <2>2, <2>3
<1>2. CASE turns[1] \notin lost
  <2> DEFINE rest == SubSeq(turns, 2, Len(turns))
  <2>1. rest \in Seq(Tasks) /\ turns[1] \in Tasks
    <3>1. turns \in Seq(Tasks) BY OldOnes
    <3> QED BY <3>1
  <2>2. rest \o << >> = rest /\ rest \o <<turns[1]>> = Append(rest, turns[1])
    <3>1. \A q \in Seq(Tasks), x \in Tasks : q \o << >> = q /\ q \o <<x>> = Append(q, x) OBVIOUS
    <3> HIDE DEF rest
    <3> QED BY <2>1, <3>1
  <2>3. turns' = rest \o (IF back THEN <<turns[1]>> ELSE << >>) BY <1>2 DEF Passed
  <2>4. turns' = IF back THEN Append(rest, turns[1]) ELSE rest
    <3> HIDE DEF rest
    <3> QED BY <2>2, <2>3
  <2>5. NoRepeats(turns') /\ \A s : InTurns(s)' <=> InTurns(s) /\ (back \/ s # turns[1])
    BY <2>4, TurnPasses
  <2>6. \A s : s # turns[1] \/ back => InTurns(s)' = InTurns(s)
    <3>1. \A s : InTurns(s)' \in BOOLEAN /\ InTurns(s) \in BOOLEAN BY DEF InTurns
    <3> QED BY <2>5, <3>1
  <2> QED BY <2>5, <2>6
<1> QED BY <1>1, <1>2

\* Queues in terms of who is in the batch.
LEMMA QueuesFromTurns ==
  ASSUME IInv, UNCHANGED <<sent, foreground, pending, status, lost>>, NoRepeats(turns'),
         \A s : InTurns(s)' => InTurns(s),
         \A s \in Tasks : InTurns(s)' /\ frames'[s] = << >> => frames[s] = << >> \/ s \in lost
  PROVE  Queues'
<1>1. /\ \A i \in DOMAIN turns' : InTurns(turns'[i])
      /\ \A i \in DOMAIN turns' : \A s : s = turns'[i] => InTurns(s)'
  BY DEF InTurns
<1>2. \A s : InTurns(s) => /\ s \in Tasks /\ s <= sent /\ ~foreground[s]
                           /\ frames[s] = << >> /\ s \notin lost => status[s] # "delivered"
  BY OldOnes DEF IInv, Queues, InTurns
<1>3. \A i \in DOMAIN turns' :
        turns'[i] <= sent' /\ ~foreground'[turns'[i]]
          /\ (frames'[turns'[i]] = << >> /\ turns'[i] \notin lost' => status'[turns'[i]] # "delivered")
  BY <1>1, <1>2
<1>4. \A i \in DOMAIN pending' :
        pending'[i] <= sent' /\ ~foreground'[pending'[i]] /\ status'[pending'[i]] # "delivered"
  BY DEF IInv, Queues
<1>5. \A i \in DOMAIN pending : ~InTurns(pending[i])' BY DEF IInv, Queues
<1>6. NoRepeats(pending') BY DEF IInv, Queues
<1> QED BY <1>3, <1>4, <1>5, <1>6 DEF Queues

-----------------------------------------------------------------------------
(* Worker handlers.                                                        *)

LEMMA CallInv ==
  ASSUME IInv, TypeOK', NEW r \in Runners, Call(r)
  PROVE  IInv'
<1>1. /\ Runs(r) /\ r # 0 /\ turns' = Passed(r, <<r>>)
      /\ UNCHANGED <<sent, status, foreground, owned, pending, lost, frames, raising, phase, swept,
                     reacting, ledger>>
  BY DEF Call, taskVars, topVars, rowVars
<1>2. raising[r] = "no" /\ turns # << >> /\ turns[1] = r BY <1>1, RunsFacts DEF IInv
<1>3. NoRepeats(turns') /\ \A s : InTurns(s)' = InTurns(s)
  <2>1. turns' = Passed(turns[1], IF TRUE THEN <<turns[1]>> ELSE << >>) BY <1>1, <1>2
  <2> QED BY <1>2, <2>1, TurnMoves
<1>4. \A s : Terminal(s)' = Terminal(s) /\ Plain(s)' = Plain(s) /\ Refused(s)' = Refused(s)
  BY <1>1 DEF Terminal, Plain, Refused
<1>5. Rows' BY <1>1, <1>4 DEF IInv, Rows
<1>6. Queues' BY <1>1, <1>3, QueuesFromTurns
<1>7. Stacks' BY <1>1, <1>3 DEF IInv, Stacks
<1>8. Ends'
  <2>1. \A s \in Runners : raising[s] # "no" => s = 0 BY <1>2 DEF IInv, Ends
  <2> QED BY <1>1, <1>4, <2>1 DEF IInv, Ends
<1>9. Phases'
  <2>1. \A t \in Tasks : owned[t] => t <= sent BY DEF IInv, Phases
  <2> QED BY <1>1, <1>2, <1>4, <2>1, PhasesStay
<1> QED BY <1>5, <1>6, <1>7, <1>8, <1>9 DEF IInv

LEMMA BackInv ==
  ASSUME IInv, TypeOK', NEW r \in Runners, Back(r)
  PROVE  IInv'
<1>1. /\ UNCHANGED <<sent, status, foreground, owned, pending, turns, frames, raising, phase, swept,
                     reacting, ledger>>
      /\ lost \subseteq lost'
  BY DEF Back, taskVars, topVars, rowVars
<1>2. Rows' /\ Queues' /\ Stacks' /\ Ends' /\ \A t \in Tasks : Terminal(t) => Terminal(t)' BY <1>1, Still
<1>3. Phases' BY <1>1, <1>2, PhasesStand
<1> QED BY <1>2, <1>3 DEF IInv

\* An open task whose handler runs was delivered.
LEMMA HandlerIsDelivered ==
  ASSUME IInv, NEW r \in Runners, InHandler(r), Open(Top(r))
  PROVE  Top(r) \in Tasks /\ status[Top(r)] = "delivered"
<1>1. frames[r] # << >> /\ status[Top(r)] # "sent" BY DEF InHandler
<1>2. Top(r) \in Tasks /\ Len(frames[r]) \in DOMAIN frames[r] BY <1>1, TopFacts DEF IInv
<1>3. Top(r) <= sent BY <1>2 DEF IInv, Stacks, Top
<1> QED BY <1>1, <1>2, <1>3, OpenIsPlain DEF IInv

LEMMA ConcludeInv ==
  ASSUME IInv, TypeOK', NEW r \in Runners, Complete(r) \/ Fail(r)
  PROVE  IInv'
<1> DEFINE t == Top(r)
<1>1. /\ InHandler(r) /\ Open(t)
      /\ UNCHANGED <<sent, foreground, owned, pending, turns, lost, frames, raising, phase, swept, reacting>>
  BY DEF Complete, Fail, MayConclude, fiberVars, topVars
<1>2. t \in Tasks /\ status[t] = "delivered" BY <1>1, HandlerIsDelivered
<1>3. PICK to \in {"completed", "failed"}, rows \in {<<"Resolved", "TaskCompleted">>, <<"TaskFailed">>} :
        Advances(t, to, rows)
  BY <1>1, <1>2 DEF Complete, Fail, Advances, Advance, Lands
<1>4. Rows' /\ Queues' /\ Stacks' /\ Ends' /\ \A s \in Tasks : Terminal(s) => Terminal(s)'
  BY <1>1, <1>2, <1>3, AdvanceInv
<1>5. Phases' BY <1>1, <1>4, PhasesStand
<1> QED BY <1>4, <1>5 DEF IInv

LEMMA RefuseInv ==
  ASSUME IInv, TypeOK', NEW r \in Runners, Refuse(r)
  PROVE  IInv'
<1>0. PICK t \in Tasks : t = Top(r) BY TopFacts DEF Refuse, InHandler, IInv
<1>1. /\ Runs(r) /\ frames[r] # << >> /\ Terminal(t)
      /\ ledger' = [ledger EXCEPT ![t] = @ \o <<"CompletionRefused">>]
      /\ raising' = [raising EXCEPT ![r] = "done"]
      /\ UNCHANGED <<sent, status, foreground, owned, pending, turns, lost, frames, phase, swept, reacting>>
  BY <1>0 DEF Refuse, InHandler, MayConclude, Open, Lands, taskVars, fiberVars, topVars
<1>2. t \in Tasks /\ Len(frames[r]) \in DOMAIN frames[r] /\ t = frames[r][Len(frames[r])]
  BY <1>0, <1>1, TopFacts DEF IInv, Top
<1>3. ~Refused(t)
  <2>1. raising[r] = "no" BY <1>1, RunsFacts DEF IInv
  <2> QED BY <1>2, <2>1 DEF IInv, Ends
<1>4. Plain(t) BY <1>2, <1>3 DEF IInv, Rows
<1>5. Refused(t)'
  <2>1. ledger[t] \in Seq(Etypes) BY <1>2 DEF IInv, TypeOK
  <2>2. ledger'[t] = ledger[t] \o <<"CompletionRefused">> BY <1>1, <1>2 DEF IInv, TypeOK
  <2>3. ledger'[t] = Append(ledger[t], "CompletionRefused") BY <2>1, <2>2
  <2>4. ledger[t] \in RowsOf(status'[t]) BY <1>1, <1>4 DEF Plain
  <2> QED BY <1>1, <2>3, <2>4 DEF Refused, Terminal
<1>6. \A s \in Tasks : s # t => Plain(s)' = Plain(s) /\ Refused(s)' = Refused(s)
  <2>1. \A s \in Tasks : s # t => ledger'[s] = ledger[s] BY <1>1 DEF IInv, TypeOK
  <2> QED BY <1>1, <2>1 DEF Plain, Refused, Terminal
<1>7. Rows' /\ Queues' /\ Stacks' /\ Ends' /\ \A s \in Tasks : Terminal(s) => Terminal(s)'
  <2>1. \A s \in Tasks : Plain(s) => Plain(s)' \/ Refused(s)' BY <1>5, <1>6
  <2>2. \A s \in Tasks : Refused(s) => Refused(s)' BY <1>5, <1>6
  <2>3. \A s \in Tasks : Refused(s)' => Refused(s) \/ s = Top(r) BY <1>0, <1>6
  <2> QED BY <1>1, <2>1, <2>2, <2>3, RaiseInv
<1>8. Phases' BY <1>1, <1>7, PhasesStand
<1> QED BY <1>7, <1>8 DEF IInv

LEMMA ReturnInv ==
  ASSUME IInv, TypeOK', NEW r \in Runners, Return(r)
  PROVE  IInv'
<1>1. /\ Runs(r) /\ frames[r] # << >>
      /\ UNCHANGED <<sent, status, foreground, owned, pending, turns, lost, frames, phase, swept, reacting,
                     ledger>>
  BY DEF Return, InHandler, taskVars, fiberVars, topVars, rowVars
<1>2. PICK e \in {"done", "error"} : raising' = [raising EXCEPT ![r] = e] BY DEF Return
<1>3. \A s : Plain(s)' = Plain(s) /\ Refused(s)' = Refused(s) BY <1>1 DEF Plain, Refused, Terminal
<1>4. Rows' /\ Queues' /\ Stacks' /\ Ends' /\ \A s \in Tasks : Terminal(s) => Terminal(s)'
  BY <1>1, <1>2, <1>3, RaiseInv
<1>5. Phases' BY <1>1, <1>4, PhasesStand
<1> QED BY <1>4, <1>5 DEF IInv

-----------------------------------------------------------------------------
(* Handlers that end.                                                      *)

\* The top level stays where it is, or its turn fails and it is in no handler.
StaysOrFails ==
  \/ UNCHANGED <<owned, phase, swept, reacting>>
  \/ TurnFails /\ frames'[0] = << >>

LEMMA PhasesStayOrFail ==
  ASSUME IInv, TypeOK', StaysOrFails, sent' = sent, turns' # << >> => turns # << >>,
         frames'[0] # << >> => frames[0] # << >>,
         \A s \in Tasks : Terminal(s) => Terminal(s)'
  PROVE  Phases'
<1>1. \A t \in Tasks : owned[t] => t <= sent BY DEF IInv, Phases
<1>2. CASE UNCHANGED <<owned, phase, swept, reacting>> BY <1>1, <1>2, PhasesStay
<1>3. CASE TurnFails /\ frames'[0] = << >> BY <1>3, PhasesFail
<1> QED BY <1>2, <1>3 DEF StaysOrFails

\* A foreground handler leaves the stack, and may fault the one that sent.
LEMMA PopInv ==
  ASSUME IInv, TypeOK', NEW r \in Runners, frames[r] # << >>, foreground[Top(r)],
         raising[r] # "no",
         frames' = [frames EXCEPT ![r] = Rest(r)],
         NEW e, raising' = [raising EXCEPT ![r] = e], e = "no" \/ Rest(r) # << >>,
         UNCHANGED <<sent, foreground, pending, turns, lost>>, StaysOrFails,
         \A s \in Tasks : Refused(s)' => Refused(s),
         \A s \in Tasks : status'[s] = "delivered" => status[s] = "delivered",
         \A s \in Tasks : Terminal(s) => Terminal(s)'
  PROVE  Queues' /\ Stacks' /\ Ends' /\ Phases'
<1>1. /\ frames'[r] = Rest(r) /\ raising'[r] = e
      /\ \A s \in Runners : s # r => frames'[s] = frames[s] /\ raising'[s] = raising[s]
  BY DEF IInv, TypeOK
<1>2. /\ Len(frames[r]) \in Nat \ {0}
      /\ Len(frames[r]) \in DOMAIN frames[r]
      /\ Rest(r) \in Seq(Tasks)
      /\ Len(Rest(r)) = Len(frames[r]) - 1
      /\ \A i \in DOMAIN Rest(r) : i \in DOMAIN frames[r] /\ Rest(r)[i] = frames[r][i]
  BY TopFacts DEF IInv
<1>3. \A s : InTurns(s)' = InTurns(s) BY DEF InTurns
<1>4. r # 0 => Rest(r) # << >>
  <2>1. r # 0 => Len(frames[r]) > 1 BY <1>2 DEF IInv, Stacks, Top
  <2> QED BY <1>2, <2>1
<1>5. ASSUME NEW s \in Runners, NEW i \in DOMAIN frames'[s]
      PROVE  i \in DOMAIN frames[s] /\ frames'[s][i] = frames[s][i] /\ frames[s][i] \in Tasks
  <2>1. i \in DOMAIN frames[s] /\ frames'[s][i] = frames[s][i] BY <1>1, <1>2
  <2> QED BY <2>1, OldOnes
<1>6. Queues'
  <2>1. ASSUME NEW i \in DOMAIN turns, frames'[turns[i]] = << >>, turns[i] \notin lost
        PROVE  status'[turns[i]] # "delivered"
    <3>1. turns[i] \in Tasks /\ turns[i] \in Runners /\ turns[i] # 0 BY OldOnes, Numbers
    <3>2. frames[turns[i]] = << >> BY <1>1, <1>4, <2>1, <3>1
    <3>3. status[turns[i]] # "delivered" BY <2>1, <3>2 DEF IInv, Queues
    <3> QED BY <3>1, <3>3
  <2>2. \A i \in DOMAIN pending : status'[pending[i]] # "delivered" BY OldOnes DEF IInv, Queues
  <2> QED BY <1>3, <2>1, <2>2 DEF IInv, Queues
<1>7. Stacks'
  <2>1. ASSUME NEW s \in Runners, NEW i \in DOMAIN frames'[s]
        PROVE  /\ frames'[s][i] <= sent'
               /\ foreground'[frames'[s][i]] <=> s = 0 \/ i > 1
               /\ s # 0 => frames'[s][1] = s /\ InTurns(s)'
    <3>1. /\ frames[s][i] <= sent
          /\ foreground[frames[s][i]] <=> s = 0 \/ i > 1
          /\ s # 0 => frames[s][1] = s /\ InTurns(s)
      BY <1>5, <2>1 DEF IInv, Stacks
    <3>2. frames'[s][1] = frames[s][1]
      <4>1. frames'[s] \in Seq(Tasks) BY DEF TypeOK
      <4>2. 1 \in DOMAIN frames'[s] BY <2>1, <4>1
      <4> QED BY <1>5, <4>2
    <3> QED BY <1>3, <1>5, <2>1, <3>1, <3>2
  <2>2. ASSUME NEW s \in Runners, NEW q \in Runners, NEW i \in DOMAIN frames'[s],
               NEW j \in DOMAIN frames'[q], frames'[s][i] = frames'[q][j]
        PROVE  s = q /\ i = j
    <3>1. i \in DOMAIN frames[s] /\ j \in DOMAIN frames[q] /\ frames[s][i] = frames[q][j]
      BY <1>5, <2>2
    <3> QED BY <3>1 DEF IInv, Stacks
  <2> QED BY <2>1, <2>2 DEF Stacks
<1>8. Ends'
  <2>1. ASSUME NEW s \in Runners, raising'[s] # "no"
        PROVE  frames'[s] # << >> /\ (s # 0 => turns' # << >> /\ turns'[1] = s)
    <3>1. raising[s] # "no" BY <1>1, <2>1
    <3>2. s # 0 => turns # << >> /\ turns[1] = s BY <3>1 DEF IInv, Ends
    <3>3. frames'[s] # << >>
      <4>1. CASE s = r BY <1>1, <2>1, <4>1
      <4>2. CASE s # r BY <1>1, <3>1, <4>2 DEF IInv, Ends
      <4> QED BY <4>1, <4>2
    <3> QED BY <3>2, <3>3
  <2>2. ASSUME NEW s \in Runners, NEW i \in DOMAIN frames'[s],
               NEW t \in Tasks, t = frames'[s][i], Refused(t)'
        PROVE  i = Len(frames'[s]) /\ raising'[s] = "done"
    <3>1. Refused(t) /\ i \in DOMAIN frames[s] /\ t = frames[s][i] BY <1>5, <2>2
    <3>2. i = Len(frames[s]) /\ raising[s] = "done" BY <3>1 DEF IInv, Ends
    <3>3. s # r
      <4>1. SUFFICES ASSUME s = r PROVE FALSE OBVIOUS
      <4>2. i \in DOMAIN Rest(r) BY <1>1, <2>2, <4>1
      <4>3. i <= Len(Rest(r)) BY <1>2, <4>2
      <4> QED BY <1>2, <3>2, <4>1, <4>3
    <3> QED BY <1>1, <3>2, <3>3
  <2>3. \A s \in Runners : \A i \in DOMAIN frames'[s] : frames'[s][i] \in Tasks
    BY DEF TypeOK
  <2> QED BY <2>1, <2>2, <2>3 DEF Ends
<1>9. Phases'
  <2>1. frames'[0] # << >> => frames[0] # << >>
    <3>1. CASE r = 0 BY <3>1
    <3>2. CASE r # 0 BY <1>1, <3>2, Numbers
    <3> QED BY <3>1, <3>2
  <2> QED BY <2>1, PhasesStayOrFail
<1> QED BY <1>6, <1>7, <1>8, <1>9

\* A fiber is over and leaves the batch, or its lost turn in it.
LEMMA FiberEnds ==
  ASSUME IInv, TypeOK', NEW r \in Runners, frames[r] # << >>, ~foreground[Top(r)],
         raising[r] # "no",
         frames' = [frames EXCEPT ![r] = Rest(r)],
         turns' = Passed(r, << >>),
         raising' = [raising EXCEPT ![r] = "no"],
         UNCHANGED <<sent, status, foreground, pending, lost, ledger>>,
         UNCHANGED <<owned, phase, swept, reacting>> \/ TurnFails
  PROVE  IInv'
<1>1. /\ Len(frames[r]) \in Nat \ {0}
      /\ Len(frames[r]) \in DOMAIN frames[r]
      /\ Len(Rest(r)) = Len(frames[r]) - 1
      /\ Rest(r) \in Seq(Tasks)
  BY TopFacts DEF IInv
<1>2. r # 0 /\ Len(frames[r]) = 1
  <2>1. ~(r = 0 \/ Len(frames[r]) > 1) BY <1>1 DEF IInv, Stacks, Top
  <2>2. \A n \in Nat \ {0} : ~(n > 1) => n = 1 OBVIOUS
  <2>3. Len(frames[r]) \in Nat \ {0} BY <1>1
  <2> QED BY <2>1, <2>2, <2>3
<1>3. Rest(r) = << >> BY <1>1, <1>2
<1>4. /\ frames'[r] = << >> /\ raising'[r] = "no"
      /\ \A s \in Runners : s # r => frames'[s] = frames[s] /\ raising'[s] = raising[s]
  BY <1>3 DEF IInv, TypeOK
<1>5. turns # << >> /\ turns[1] = r BY <1>2 DEF IInv, Ends
<1>6. /\ NoRepeats(turns')
      /\ \A s : InTurns(s)' => InTurns(s)
      /\ \A s : s # r => InTurns(s)' = InTurns(s)
      /\ \A s : s = r /\ s \notin lost => ~InTurns(s)'
  <2>1. turns' = Passed(turns[1], IF FALSE THEN <<turns[1]>> ELSE << >>) BY <1>5
  <2> QED BY <1>5, <2>1, TurnMoves
<1>7. \A s : Terminal(s)' = Terminal(s) /\ Plain(s)' = Plain(s) /\ Refused(s)' = Refused(s)
  BY DEF Terminal, Plain, Refused
<1>8. Rows' BY <1>7 DEF IInv, Rows
<1>9. Queues'
  <2>1. \A s \in Tasks : InTurns(s)' /\ frames'[s] = << >> => frames[s] = << >> \/ s \in lost
    BY <1>4, <1>6, Numbers
  <2> QED BY <1>6, <2>1, QueuesFromTurns
<1>10. \A s \in Runners : \A i \in DOMAIN frames'[s] : s # r /\ frames'[s] = frames[s]
  BY <1>4
<1>11. Stacks' BY <1>6, <1>10 DEF IInv, Stacks
<1>12. Ends'
  <2>1. ASSUME NEW s \in Runners, raising'[s] # "no"
        PROVE  frames'[s] # << >> /\ (s # 0 => turns' # << >> /\ turns'[1] = s)
    <3>1. s # r /\ raising[s] # "no" BY <1>4, <2>1
    <3>2. s = 0 BY <1>5, <3>1 DEF IInv, Ends
    <3> QED BY <1>4, <3>1, <3>2 DEF IInv, Ends
  <2>2. ASSUME NEW s \in Runners, NEW i \in DOMAIN frames'[s],
               NEW t \in Tasks, t = frames'[s][i], Refused(t)'
        PROVE  i = Len(frames'[s]) /\ raising'[s] = "done"
    <3>1. s # r /\ frames'[s] = frames[s] BY <1>10, <2>2
    <3>2. Refused(frames[s][i]) BY <1>7, <2>2, <3>1
    <3> QED BY <1>4, <2>2, <3>1, <3>2 DEF IInv, Ends
  <2>3. \A s \in Runners : \A i \in DOMAIN frames'[s] : frames'[s][i] \in Tasks
    BY DEF TypeOK
  <2> QED BY <2>1, <2>2, <2>3 DEF Ends
<1>13. Phases'
  <2>1. frames'[0] = frames[0] BY <1>2, <1>4, Numbers
  <2>2. frames[0] = << >> BY <1>5 DEF IInv, Phases
  <2>3. StaysOrFails BY <2>1, <2>2 DEF StaysOrFails
  <2> QED BY <1>5, <1>7, <2>1, <2>3, PhasesStayOrFail
<1> QED BY <1>8, <1>9, <1>11, <1>12, <1>13 DEF IInv

\* A sender whose task has no result: the task expires if it is still open.
LEMMA ExpiresAtEnd ==
  ASSUME IInv, NEW t \in Tasks, t <= sent, sent' = sent,
         status' = [status EXCEPT ![t] = AfterHandler(t)],
         ledger' = [ledger EXCEPT ![t] = IF Open(t) THEN Append(@, "Expired") ELSE @]
  PROVE  \/ /\ Open(t) /\ Advances(t, "expired", <<"Expired">>)
         \/ status' = status /\ ledger' = ledger
<1>1. CASE Open(t)
  <2>1. status[t] \in {"sent", "delivered"} BY <1>1, OpenIsPlain DEF IInv
  <2>2. ledger[t] \in Seq(Etypes) BY DEF IInv, TypeOK
  <2>3. Append(ledger[t], "Expired") = ledger[t] \o <<"Expired">> BY <2>2
  <2> QED BY <1>1, <2>1, <2>3 DEF AfterHandler, Advances, Advance, IInv, TypeOK
<1>2. CASE ~Open(t) BY <1>2 DEF AfterHandler, IInv, TypeOK
<1> QED BY <1>1, <1>2

\* The sender of a foreground task that leaves the stack is faulted.
LEMMA FaultsPop ==
  ASSUME IInv, TypeOK', NEW r \in Runners, frames[r] # << >>, foreground[Top(r)],
         raising[r] # "no",
         frames' = [frames EXCEPT ![r] = Rest(r)],
         NEW n, SenderFaults(r, n),
         UNCHANGED <<sent, foreground, pending, turns, lost>>,
         \A s \in Tasks : Refused(s)' => Refused(s),
         \A s \in Tasks : status'[s] = "delivered" => status[s] = "delivered",
         \A s \in Tasks : Terminal(s) => Terminal(s)'
  PROVE  Queues' /\ Stacks' /\ Ends' /\ Phases'
<1>1. PICK e \in {"no", "error"} :
        raising' = [raising EXCEPT ![r] = e] /\ (e = "no" \/ Rest(r) # << >>)
  BY DEF SenderFaults
<1>2. StaysOrFails
  <2>1. CASE UNCHANGED <<owned, topVars>> BY <2>1 DEF StaysOrFails, topVars
  <2>2. CASE r = 0 /\ Rest(r) = << >> /\ TurnFails
    <3>1. frames'[0] = << >> BY <2>2, Numbers DEF IInv, TypeOK
    <3> QED BY <2>2, <3>1 DEF StaysOrFails
  <2> QED BY <2>1, <2>2 DEF SenderFaults
<1> QED BY <1>1, <1>2, PopInv

LEMMA UnwindInv ==
  ASSUME IInv, TypeOK', NEW r \in Runners, Unwind(r)
  PROVE  IInv'
<1>0. raising[r] # "no" /\ frames[r] # << >> BY DEF Unwind, IInv, Ends
<1>1. PICK t \in Tasks : t = Top(r) BY <1>0, TopFacts DEF IInv
<1>2. /\ frames' = [frames EXCEPT ![r] = Rest(r)]
      /\ UNCHANGED <<sent, foreground, pending, lost>>
      /\ DeliveryEnds(r, t) \/ DeliveryThrows(r, t)
  BY <1>1 DEF Unwind
<1>3. CASE /\ ~foreground[t] /\ turns' = Passed(r, << >>)
           /\ raising' = [raising EXCEPT ![r] = "no"]
           /\ UNCHANGED <<status, ledger>>
           /\ UNCHANGED <<owned, topVars>> \/ TurnFails
  <2>1. UNCHANGED <<owned, phase, swept, reacting>> \/ TurnFails BY <1>3 DEF topVars
  <2> QED BY <1>0, <1>1, <1>2, <1>3, <2>1, FiberEnds
<1>4. CASE /\ foreground[t]
           /\ raising' = [raising EXCEPT ![r] = "no"]
           /\ UNCHANGED <<status, turns, ledger, owned, topVars>>
  <2>1. \A s : Terminal(s)' = Terminal(s) /\ Plain(s)' = Plain(s) /\ Refused(s)' = Refused(s)
    BY <1>4 DEF Terminal, Plain, Refused
  <2>2. Rows' BY <1>2, <1>4, <2>1 DEF IInv, Rows
  <2>3. StaysOrFails BY <1>4 DEF StaysOrFails, topVars
  <2>4. Queues' /\ Stacks' /\ Ends' /\ Phases'
    BY <1>0, <1>1, <1>2, <1>4, <2>1, <2>3, PopInv
  <2> QED BY <2>2, <2>4 DEF IInv
<1>5. ASSUME foreground[t], NEW n, SenderFaults(r, n), UNCHANGED turns,
             \/ UNCHANGED <<status, ledger>>
             \/ /\ status' = [status EXCEPT ![t] = AfterHandler(t)]
                /\ ledger' = [ledger EXCEPT ![t] = IF Open(t) THEN Append(@, "Expired") ELSE @]
      PROVE  IInv'
  <2>1. Len(frames[r]) \in DOMAIN frames[r] BY <1>0, TopFacts DEF IInv
  <2>2. t <= sent BY <1>1, <2>1 DEF IInv, Stacks, Top
  <2>3. CASE Open(t) /\ Advances(t, "expired", <<"Expired">>)
    <3>1. /\ Rows' /\ ~Refused(t)' /\ status'[t] = "expired"
          /\ \A s \in Tasks : s # t => status'[s] = status[s] /\ Refused(s)' = Refused(s)
      BY <2>3, AdvancesRows DEF IInv
    <3>3. /\ \A s \in Tasks : Refused(s)' => Refused(s)
          /\ \A s \in Tasks : status'[s] = "delivered" => status[s] = "delivered"
          /\ \A s \in Tasks : Terminal(s) => Terminal(s)'
      BY <2>3, <3>1 DEF Terminal, Open
    <3>4. Queues' /\ Stacks' /\ Ends' /\ Phases'
      BY <1>0, <1>1, <1>2, <1>5, <3>3, FaultsPop
    <3> QED BY <3>1, <3>4 DEF IInv
  <2>4. CASE status' = status /\ ledger' = ledger
    <3>1. \A s : Terminal(s)' = Terminal(s) /\ Plain(s)' = Plain(s) /\ Refused(s)' = Refused(s)
      BY <2>4 DEF Terminal, Plain, Refused
    <3>2. Rows' BY <1>2, <2>4, <3>1 DEF IInv, Rows
    <3>5. /\ \A s \in Tasks : Refused(s)' => Refused(s)
          /\ \A s \in Tasks : status'[s] = "delivered" => status[s] = "delivered"
          /\ \A s \in Tasks : Terminal(s) => Terminal(s)'
      BY <2>4, <3>1
    <3>7. Queues' /\ Stacks' /\ Ends' /\ Phases'
      BY <1>0, <1>1, <1>2, <1>5, <3>5, FaultsPop
    <3> QED BY <3>2, <3>7 DEF IInv
  <2> QED BY <1>2, <1>5, <2>2, <2>3, <2>4, ExpiresAtEnd
<1>6. CASE DeliveryEnds(r, t) BY <1>3, <1>4, <1>5, <1>6 DEF DeliveryEnds
<1>7. CASE DeliveryThrows(r, t) BY <1>3, <1>5, <1>7 DEF DeliveryThrows
<1> QED BY <1>2, <1>6, <1>7

LEMMA CancelInv ==
  ASSUME IInv, TypeOK', NEW r \in Runners, NEW t \in Tasks, Cancel(r, t)
  PROVE  IInv'
<1>1. /\ t <= sent /\ Open(t)
      /\ UNCHANGED <<sent, foreground, owned, pending, turns, lost, frames, raising, phase, swept, reacting>>
  BY DEF Cancel, fiberVars, topVars
<1>2. status[t] \in {"sent", "delivered"} BY <1>1, OpenIsPlain DEF IInv
<1>3. Advances(t, "cancelled", <<"TaskCancelled">>) BY <1>2 DEF Cancel, Advances, Advance, Lands
<1>4. Rows' /\ Queues' /\ Stacks' /\ Ends' /\ \A s \in Tasks : Terminal(s) => Terminal(s)'
  BY <1>1, <1>3, AdvanceInv
<1>5. Phases' BY <1>1, <1>4, PhasesStand
<1> QED BY <1>4, <1>5 DEF IInv

LEMMA SleepOrAwakeInv ==
  ASSUME IInv, TypeOK', NEW r \in Runners, NEW w \in Sleepers, SleepOrAwake(r, w)
  PROVE  IInv'
<1>1. UNCHANGED <<sent, status, foreground, owned, pending, turns, lost, frames, raising, phase, swept, reacting,
                  ledger>>
  BY DEF SleepOrAwake, taskVars, fiberVars, rowVars
<1>2. Rows' /\ Queues' /\ Stacks' /\ Ends' /\ \A t \in Tasks : Terminal(t) => Terminal(t)' BY <1>1, Still
<1>3. Phases' BY <1>1, <1>2, PhasesStand
<1> QED BY <1>2, <1>3 DEF IInv

-----------------------------------------------------------------------------
(* Drains.                                                                 *)

LEMMA StartBatchInv ==
  ASSUME IInv, TypeOK', StartBatch
  PROVE  IInv'
<1> DEFINE In == {t \in Tasks : InBatch(t)}
           Out == {t \in Tasks : ~InBatch(t)}
<1>1. /\ phase \in {"drain", "closing"} /\ turns = << >>
      /\ turns' = Among(pending, In) /\ pending' = Among(pending, Out)
      /\ UNCHANGED <<sent, status, foreground, owned, lost, frames, raising, phase, swept, reacting, ledger>>
  BY DEF StartBatch, Batch, taskVars, topVars, rowVars
<1>d. \A t : ~(t \in In /\ t \in Out) OBVIOUS
<1> HIDE DEF In, Out
<1>2. pending \in Seq(Tasks) /\ NoRepeats(pending) BY OldOnes DEF IInv, Queues
<1>3. /\ NoRepeats(turns')
      /\ \A k \in DOMAIN turns' : turns'[k] \in In /\ \E i \in DOMAIN pending : turns'[k] = pending[i]
  <2> DEFINE q == Among(pending, In)
  <2>1. /\ NoRepeats(q)
        /\ \A k \in DOMAIN q : q[k] \in In /\ \E i \in DOMAIN pending : q[k] = pending[i]
    BY <1>2, AmongFacts
  <2>2. turns' = q BY <1>1
  <2> HIDE DEF q
  <2> QED BY <2>1, <2>2
<1>4. /\ NoRepeats(pending')
      /\ \A k \in DOMAIN pending' : pending'[k] \in Out /\ \E i \in DOMAIN pending : pending'[k] = pending[i]
  <2> DEFINE q == Among(pending, Out)
  <2>1. /\ NoRepeats(q)
        /\ \A k \in DOMAIN q : q[k] \in Out /\ \E i \in DOMAIN pending : q[k] = pending[i]
    BY <1>2, AmongFacts
  <2>2. pending' = q BY <1>1
  <2> HIDE DEF q
  <2> QED BY <2>1, <2>2
<1>5. \A i \in DOMAIN pending' : \A j \in DOMAIN turns' : turns'[j] # pending'[i]
  BY <1>3, <1>4, <1>d
<1>6. \A s : Terminal(s)' = Terminal(s) /\ Plain(s)' = Plain(s) /\ Refused(s)' = Refused(s)
  BY <1>1 DEF Terminal, Plain, Refused
<1>7. \A s : ~InTurns(s) BY <1>1 DEF InTurns
<1>8. Rows' BY <1>1, <1>6 DEF IInv, Rows
<1>9. Queues'
  <2>1. ASSUME NEW i \in DOMAIN pending
        PROVE  pending[i] <= sent /\ ~foreground[pending[i]] /\ status[pending[i]] # "delivered"
    BY DEF IInv, Queues
  <2>2. \A k \in DOMAIN pending' :
          pending'[k] <= sent' /\ ~foreground'[pending'[k]] /\ status'[pending'[k]] # "delivered"
    BY <1>1, <1>4, <2>1
  <2>3. \A k \in DOMAIN turns' :
          turns'[k] <= sent' /\ ~foreground'[turns'[k]] /\ status'[turns'[k]] # "delivered"
    BY <1>1, <1>3, <2>1
  <2> QED BY <1>3, <1>4, <1>5, <2>2, <2>3 DEF Queues, InTurns
<1>10. \A r \in Runners : \A i \in DOMAIN frames[r] : r = 0 BY <1>7 DEF IInv, Stacks
<1>11. Stacks' BY <1>1, <1>10 DEF IInv, Stacks
<1>12. Ends'
  <2>1. \A r \in Runners : raising[r] # "no" => r = 0 BY <1>1 DEF IInv, Ends
  <2> QED BY <1>1, <1>6, <2>1 DEF IInv, Ends
<1>13. Phases'
  <2>1. \A t \in Tasks : owned[t] => t <= sent BY DEF IInv, Phases
  <2> QED BY <1>1, <1>6, <2>1, PhasesStay
<1> QED BY <1>8, <1>9, <1>11, <1>12, <1>13 DEF IInv

\* A fiber that begins has its own task, which was sent and not delivered.
LEMMA BeginsWithOwn ==
  ASSUME IInv, NEW t \in Tasks, HasTurn(t), t \notin lost, frames[t] = << >>
  PROVE  /\ turns # << >> /\ turns[1] = t /\ InTurns(t) /\ t <= sent /\ ~foreground[t]
         /\ status[t] # "delivered" /\ raising[t] = "no"
         /\ \A s \in Runners : raising[s] # "no" => s = 0
<1>1. turns # << >> /\ turns[1] = t BY DEF HasTurn
<1>2. 1 \in DOMAIN turns BY <1>1, OldOnes
<1>3. InTurns(t) BY <1>1, <1>2 DEF InTurns
<1>4. t <= sent /\ ~foreground[t] /\ status[t] # "delivered" BY <1>1, <1>2 DEF IInv, Queues
<1>5. \A s \in Runners : raising[s] # "no" => s = 0
  <2>1. SUFFICES ASSUME NEW s \in Runners, raising[s] # "no", s # 0 PROVE FALSE OBVIOUS
  <2>2. turns[1] = s /\ frames[s] # << >> BY <2>1 DEF IInv, Ends
  <2> QED BY <1>1, <2>2
<1>6. raising[t] = "no" BY <1>5, Numbers
<1> QED BY <1>1, <1>3, <1>4, <1>5, <1>6

LEMMA DeliverInv ==
  ASSUME IInv, TypeOK', NEW t \in Tasks, Deliver(t)
  PROVE  IInv'
<1>1. /\ HasTurn(t) /\ t \notin lost /\ frames[t] = << >> /\ Open(t)
      /\ status' = [status EXCEPT ![t] = "delivered"] /\ Lands(<<"Delivered">>, t)
      /\ frames' = [frames EXCEPT ![t] = <<t>>]
      /\ UNCHANGED <<sent, foreground, owned, pending, turns, lost, raising, phase, swept, reacting>>
  BY DEF Deliver, Deliverable, fiberVars, topVars
<1>2. /\ turns # << >> /\ turns[1] = t /\ InTurns(t) /\ t <= sent /\ ~foreground[t]
      /\ status[t] # "delivered" /\ raising[t] = "no"
      /\ \A s \in Runners : raising[s] # "no" => s = 0
  BY <1>1, BeginsWithOwn
<1>3. status[t] = "sent" BY <1>1, <1>2, OpenIsPlain DEF IInv
<1>4. Advances(t, "delivered", <<"Delivered">>) BY <1>1, <1>3 DEF Advances, Advance, Lands
<1>5. /\ Rows' /\ status'[t] = "delivered" /\ ~Refused(t)'
      /\ \A s \in Tasks : s # t =>
           status'[s] = status[s] /\ Refused(s)' = Refused(s)
  BY <1>1, <1>4, AdvancesRows DEF IInv
<1>6. \A s : InTurns(s)' = InTurns(s) BY <1>1 DEF InTurns
<1>7. /\ t \in Runners /\ t # 0 /\ frames'[t] = <<t>>
      /\ \A s \in Runners : s # t => frames'[s] = frames[s]
  BY <1>1, Numbers DEF IInv, TypeOK
<1>8. \A s \in Tasks : Terminal(s) => Terminal(s)' BY <1>1, <1>5 DEF Terminal, Open
<1>9. Queues'
  <2>1. \A i \in DOMAIN pending : pending[i] \in Tasks /\ pending[i] # t BY <1>2, OldOnes DEF IInv, Queues
  <2>2. \A i \in DOMAIN pending : status'[pending[i]] # "delivered" BY <1>5, <2>1 DEF IInv, Queues
  <2>3. ASSUME NEW i \in DOMAIN turns, frames'[turns[i]] = << >>, turns[i] \notin lost
        PROVE  status'[turns[i]] # "delivered"
    <3>1. turns[i] \in Tasks /\ turns[i] \in Runners BY OldOnes, Numbers
    <3>2. turns[i] # t BY <1>7, <2>3
    <3> QED BY <1>5, <1>7, <2>3, <3>1, <3>2 DEF IInv, Queues
  <2> QED BY <1>1, <1>6, <2>2, <2>3 DEF IInv, Queues
<1>10. ASSUME NEW s \in Runners, NEW i \in DOMAIN frames'[s]
       PROVE  \/ s = t /\ i = 1 /\ frames'[s][i] = t
              \/ s # t /\ i \in DOMAIN frames[s] /\ frames'[s] = frames[s] /\ frames[s][i] # t
  <2>1. CASE s = t BY <1>7, <2>1
  <2>2. CASE s # t
    <3>1. frames'[s] = frames[s] /\ i \in DOMAIN frames[s] BY <1>7, <2>2
    <3>2. frames[s][i] # t
      <4>1. SUFFICES ASSUME frames[s][i] = t PROVE FALSE OBVIOUS
      <4>2. ~(s = 0 \/ i > 1) BY <1>2, <3>1, <4>1 DEF IInv, Stacks
      <4>3. i \in Nat \ {0} BY <3>1, OldOnes
      <4>4. i = 1 BY <4>2, <4>3
      <4>5. frames[s][1] = s BY <3>1, <4>2 DEF IInv, Stacks
      <4> QED BY <2>2, <4>1, <4>4, <4>5
    <3> QED BY <2>2, <3>1, <3>2
  <2> QED BY <2>1, <2>2
<1>11. Stacks'
  <2>1. ASSUME NEW s \in Runners, NEW i \in DOMAIN frames'[s]
        PROVE  /\ frames'[s][i] <= sent'
               /\ foreground'[frames'[s][i]] <=> s = 0 \/ i > 1
               /\ s # 0 => frames'[s][1] = s /\ InTurns(s)'
    <3>1. CASE s = t /\ i = 1 /\ frames'[s][i] = t BY <1>1, <1>2, <1>6, <1>7, <3>1
    <3>2. CASE s # t /\ i \in DOMAIN frames[s] /\ frames'[s] = frames[s]
      BY <1>1, <1>6, <3>2 DEF IInv, Stacks
    <3> QED BY <1>10, <3>1, <3>2
  <2>2. ASSUME NEW s \in Runners, NEW q \in Runners, NEW i \in DOMAIN frames'[s],
               NEW j \in DOMAIN frames'[q], frames'[s][i] = frames'[q][j]
        PROVE  s = q /\ i = j
    <3>1. CASE s = t /\ i = 1 /\ frames'[s][i] = t BY <1>10, <2>2, <3>1
    <3>2. CASE s # t /\ i \in DOMAIN frames[s] /\ frames'[s] = frames[s] /\ frames[s][i] # t
      <4>1. j \in DOMAIN frames[q] /\ frames'[q] = frames[q] BY <1>10, <2>2, <3>2
      <4>2. frames[s][i] = frames[q][j] BY <2>2, <3>2, <4>1
      <4> QED BY <3>2, <4>1, <4>2 DEF IInv, Stacks
    <3> QED BY <1>10, <3>1, <3>2
  <2> QED BY <2>1, <2>2 DEF Stacks
<1>12. Ends'
  <2>1. ASSUME NEW s \in Runners, raising'[s] # "no"
        PROVE  frames'[s] # << >> /\ (s # 0 => turns' # << >> /\ turns'[1] = s)
    <3>1. s = 0 /\ s # t BY <1>1, <1>2, <1>7, <2>1
    <3> QED BY <1>1, <1>7, <2>1, <3>1 DEF IInv, Ends
  <2>2. ASSUME NEW s \in Runners, NEW i \in DOMAIN frames'[s],
               NEW q \in Tasks, q = frames'[s][i], Refused(q)'
        PROVE  i = Len(frames'[s]) /\ raising'[s] = "done"
    <3>1. s # t /\ i \in DOMAIN frames[s] /\ frames'[s] = frames[s] BY <1>5, <1>10, <2>2
    <3>2. Refused(frames[s][i])
      <4>1. Refused(q) BY <1>5, <2>2
      <4> QED BY <2>2, <3>1, <4>1
    <3> QED BY <1>1, <3>1, <3>2 DEF IInv, Ends
  <2>3. \A s \in Runners : \A i \in DOMAIN frames'[s] : frames'[s][i] \in Tasks
    BY DEF TypeOK
  <2> QED BY <2>1, <2>2, <2>3 DEF Ends
<1>13. Phases'
  <2>1. \A s \in Tasks : owned[s] => s <= sent BY DEF IInv, Phases
  <2>2. frames'[0] = frames[0] BY <1>7, Numbers
  <2> QED BY <1>1, <1>8, <2>1, <2>2, PhasesStay
<1> QED BY <1>5, <1>9, <1>11, <1>12, <1>13 DEF IInv

LEMMA SkipInv ==
  ASSUME IInv, TypeOK', NEW t \in Tasks, Skip(t)
  PROVE  IInv'
<1>1. /\ HasTurn(t) /\ t \notin lost /\ frames[t] = << >> /\ turns' = SubSeq(turns, 2, Len(turns))
      /\ UNCHANGED <<sent, status, foreground, owned, pending, lost, frames, raising, phase, swept, reacting,
                     ledger>>
  BY DEF Skip, taskVars, topVars, rowVars
<1>2. /\ turns # << >> /\ turns[1] = t /\ \A s \in Runners : raising[s] # "no" => s = 0
  BY <1>1, BeginsWithOwn
<1>3. NoRepeats(turns') /\ \A s : InTurns(s)' <=> InTurns(s) /\ s # t BY <1>1, <1>2, TurnPasses
<1>4. \A s : Terminal(s)' = Terminal(s) /\ Plain(s)' = Plain(s) /\ Refused(s)' = Refused(s)
  BY <1>1 DEF Terminal, Plain, Refused
<1>5. Rows' BY <1>1, <1>4 DEF IInv, Rows
<1>6. Queues' BY <1>1, <1>3, QueuesFromTurns
<1>7. Stacks'
  <2>1. \A s \in Runners : \A i \in DOMAIN frames[s] : s # t BY <1>1
  <2> QED BY <1>1, <1>3, <2>1 DEF IInv, Stacks
<1>8. Ends' BY <1>1, <1>2, <1>4 DEF IInv, Ends
<1>9. Phases'
  <2>1. \A s \in Tasks : owned[s] => s <= sent BY DEF IInv, Phases
  <2> QED BY <1>1, <1>2, <1>4, <2>1, PhasesStay
<1> QED BY <1>5, <1>6, <1>7, <1>8, <1>9 DEF IInv

LEMMA DrainDoneInv ==
  ASSUME IInv, TypeOK', DrainDone
  PROVE  IInv'
<1>1. /\ phase \in {"drain", "closing"} /\ turns = << >> /\ swept' = 0
      /\ phase' \in {"closeSweep", "statement", "sweep"}
      /\ UNCHANGED <<sent, status, foreground, owned, pending, turns, lost, frames, raising, reacting, ledger>>
  BY DEF DrainDone, taskVars, fiberVars, rowVars
<1>2. Rows' /\ Queues' /\ Stacks' /\ Ends' /\ \A t \in Tasks : Terminal(t) => Terminal(t)' BY <1>1, Still
<1>3. ~reacting /\ frames[0] = << >> /\ \A t \in Tasks : owned[t] => t <= sent BY <1>1 DEF IInv, Phases
<1>4. \A t \in Tasks : ~(t <= 0) BY Numbers
<1>5. 0 <= sent BY Numbers DEF IInv, TypeOK
<1>6. Phases' BY <1>1, <1>3, <1>4, <1>5 DEF Phases
<1> QED BY <1>2, <1>6 DEF IInv

-----------------------------------------------------------------------------
(* The top level.                                                          *)

\* Between two statements nothing else runs.
LEMMA AtStatementFacts ==
  ASSUME IInv, AtStatement
  PROVE  phase = "statement" /\ frames[0] = << >> /\ turns = << >> /\ ~reacting
  BY DEF AtStatement, IInv, Phases

LEMMA StatementInv ==
  ASSUME IInv, TypeOK', EndStatement \/ OpenScope \/ CloseScope \/ AbandonScope
  PROVE  IInv'
<1>1. /\ AtStatement
      /\ UNCHANGED <<sent, status, foreground, pending, turns, lost, frames, raising, swept, reacting, ledger>>
      /\ owned' = owned \/ owned' = [t \in Tasks |-> FALSE]
      /\ phase' \in {"statement", "drain", "closing"}
  BY DEF EndStatement, OpenScope, CloseScope, AbandonScope, AtStatement, taskVars, fiberVars, rowVars
<1>2. Rows' /\ Queues' /\ Stacks' /\ Ends' BY <1>1, Still
<1>3. phase = "statement" /\ frames[0] = << >> /\ turns = << >> /\ ~reacting
  BY <1>1, AtStatementFacts
<1>4. \A t \in Tasks : owned'[t] => t <= sent' BY <1>1 DEF IInv, Phases
<1>5. swept <= sent BY DEF IInv, Phases
<1>6. Phases' BY <1>1, <1>3, <1>4, <1>5 DEF Phases
<1> QED BY <1>2, <1>6 DEF IInv

LEMMA SweepInv ==
  ASSUME IInv, TypeOK', Sweep
  PROVE  IInv'
<1>1. /\ phase \in {"sweep", "closeSweep"} /\ ~reacting /\ swept < sent /\ swept' = swept + 1
      /\ UNCHANGED <<sent, foreground, owned, pending, turns, lost, frames, raising, phase>>
  BY DEF Sweep, fiberVars
<1>2. sent \in Nat /\ sent <= MaxTasks /\ swept \in Nat BY Numbers DEF IInv, TypeOK
<1>3. PICK n \in Tasks : n = swept + 1 BY <1>1, <1>2, Numbers
<1>4. n <= sent BY <1>1, <1>2, <1>3
<1>5. frames[0] = << >> /\ turns = << >> BY <1>1 DEF IInv, Phases
<1>6. /\ Rows' /\ Queues' /\ Stacks' /\ Ends'
      /\ \A s \in Tasks : Terminal(s) => Terminal(s)'
      /\ SweepTakes(n) => Terminal(n)'
  <2>1. CASE SweepTakes(n)
    <3>1. status' = [status EXCEPT ![n] = "expired"] /\ Lands(<<"Expired">>, n)
      BY <1>3, <2>1 DEF Sweep
    <3>2. Open(n) BY <2>1 DEF SweepTakes
    <3>3. status[n] \in {"sent", "delivered"} BY <1>4, <3>2, OpenIsPlain DEF IInv
    <3>4. Advances(n, "expired", <<"Expired">>) BY <1>1, <3>1, <3>3 DEF Advances, Advance, Lands
    <3>5. Terminal(n)' BY <3>1 DEF Terminal, Terminals, IInv, TypeOK
    <3> QED BY <1>1, <3>2, <3>4, <3>5, AdvanceInv
  <2>2. CASE ~SweepTakes(n)
    <3>1. status' = status /\ ledger' = ledger BY <1>3, <2>2 DEF Sweep, rowVars
    <3> QED BY <1>1, <2>2, <3>1, Still
  <2> QED BY <2>1, <2>2
<1>7. \A t \in Tasks : t <= swept' => t <= swept \/ t = n BY <1>1, <1>2, <1>3, Numbers
<1>8. ASSUME phase = "sweep", NEW t \in Tasks, t <= swept' PROVE Terminal(t)'
  <2>1. CASE t <= swept BY <1>6, <1>8, <2>1 DEF IInv, Phases
  <2>2. CASE t = n
    <3>1. Terminal(n) \/ SweepTakes(n) BY <1>8 DEF SweepTakes, Open
    <3> QED BY <1>6, <2>2, <3>1
  <2> QED BY <1>7, <1>8, <2>1, <2>2
<1>9. ASSUME phase = "closeSweep", NEW t \in Tasks, t <= swept', owned[t] PROVE Terminal(t)'
  <2>1. CASE t <= swept BY <1>6, <1>9, <2>1 DEF IInv, Phases
  <2>2. CASE t = n
    <3>1. Terminal(n) \/ SweepTakes(n) BY <1>9, <2>2 DEF SweepTakes, Open
    <3> QED BY <1>6, <2>2, <3>1
  <2> QED BY <1>7, <1>9, <2>1, <2>2
<1>10. swept' <= sent /\ \A t \in Tasks : owned[t] => t <= sent BY <1>1, <1>2 DEF IInv, Phases
<1>11. Phases' BY <1>1, <1>5, <1>8, <1>9, <1>10 DEF Phases
<1> QED BY <1>6, <1>11 DEF IInv

LEMMA ReactedInv ==
  ASSUME IInv, TypeOK', Reacted
  PROVE  IInv'
<1>1. /\ frames[0] = << >> /\ reacting' = FALSE
      /\ UNCHANGED <<sent, status, foreground, owned, pending, turns, lost, frames, raising, phase, swept, ledger>>
  BY DEF Reacted, taskVars, fiberVars, rowVars
<1>2. Rows' /\ Queues' /\ Stacks' /\ Ends' /\ \A t \in Tasks : Terminal(t) => Terminal(t)' BY <1>1, Still
<1>3. Phases' BY <1>1, <1>2 DEF IInv, Phases
<1> QED BY <1>2, <1>3 DEF IInv

LEMMA SweepDoneInv ==
  ASSUME IInv, TypeOK', SweepDone
  PROVE  IInv'
<1>1. /\ phase \in {"sweep", "closeSweep"} /\ ~reacting /\ swept = sent
      /\ phase' = IF phase = "sweep" THEN "quiescent" ELSE "statement"
      /\ owned' = [t \in Tasks |-> FALSE]
      /\ UNCHANGED <<sent, status, foreground, pending, turns, lost, frames, raising, swept, reacting, ledger>>
  BY DEF SweepDone, fiberVars, rowVars
<1>2. Rows' /\ Queues' /\ Stacks' /\ Ends' /\ \A t \in Tasks : Terminal(t) => Terminal(t)' BY <1>1, Still
<1>3. turns = << >> /\ frames[0] = << >> /\ swept <= sent BY <1>1 DEF IInv, Phases
<1>4. phase = "sweep" => \A t \in Tasks : t <= sent' => Terminal(t)' BY <1>1, <1>2 DEF IInv, Phases
<1>5. Phases' BY <1>1, <1>3, <1>4 DEF Phases
<1> QED BY <1>2, <1>5 DEF IInv

LEMMA PromptInv ==
  ASSUME IInv, TypeOK', Prompt
  PROVE  IInv'
<1>1. /\ phase = "quiescent" \/ (phase = "failed" /\ turns = << >>)
      /\ phase' = "statement"
      /\ UNCHANGED <<sent, status, foreground, owned, pending, turns, lost, frames, raising, swept, reacting,
                     ledger>>
  BY DEF Prompt, taskVars, fiberVars, rowVars
<1>2. Rows' /\ Queues' /\ Stacks' /\ Ends' /\ \A t \in Tasks : Terminal(t) => Terminal(t)' BY <1>1, Still
<1>3. Phases' BY <1>1 DEF IInv, Phases
<1> QED BY <1>2, <1>3 DEF IInv

-----------------------------------------------------------------------------
(* The theorems.                                                           *)

LEMMA InitInv == Init => IInv
<1> SUFFICES ASSUME Init PROVE IInv OBVIOUS
<1>1. TypeOK BY InitType
<1>2. Rows
  <2>1. ASSUME NEW t \in Tasks PROVE Plain(t) /\ status[t] = "unsent" /\ sent < t
    BY Numbers DEF Init, Plain, RowsOf
  <2> QED BY <2>1 DEF Rows
<1>3. Queues BY DEF Init, Queues, NoRepeats
<1>4. Stacks BY DEF Init, Stacks
<1>5. Ends BY DEF Init, Ends
<1>6. Phases BY Numbers DEF Init, Phases
<1> QED BY <1>1, <1>2, <1>3, <1>4, <1>5, <1>6 DEF IInv

LEMMA NextInv == IInv /\ [Next]_vars => IInv'
<1> SUFFICES ASSUME IInv, [Next]_vars PROVE IInv' OBVIOUS
<1>1. TypeOK /\ Ends BY DEF IInv
<1>2. ASSUME NEW r \in Runners, Send(r) PROVE IInv'
  <2>1. TypeOK' BY <1>1, <1>2, SendType
  <2> QED BY <1>2, <2>1, SendBackgroundInv, SendForegroundInv, DeliverInlineInv, UnheardInv, ThrowInv DEF Send
<1>3. ASSUME NEW r \in Runners, Handler(r) PROVE IInv'
  <2>1. TypeOK' BY <1>1, <1>3, HandlerType
  <2> QED BY <1>3, <2>1, CallInv, BackInv, ConcludeInv, RefuseInv, ReturnInv, UnwindInv DEF Handler
<1>4. ASSUME NEW r \in Runners, NEW t \in Tasks, Cancel(r, t) PROVE IInv'
  BY <1>1, <1>4, SelfType, CancelInv
<1>5. ASSUME NEW r \in Runners, NEW w \in Sleepers, SleepOrAwake(r, w) PROVE IInv'
  BY <1>1, <1>5, SelfType, SleepOrAwakeInv
<1>6. CASE StartBatch BY <1>1, <1>6, DrainType, StartBatchInv
<1>7. ASSUME NEW t \in Tasks, Deliver(t) \/ Skip(t) PROVE IInv'
  BY <1>1, <1>7, DrainType, DeliverInv, SkipInv
<1>8. CASE DrainDone BY <1>1, <1>8, DrainType, DrainDoneInv
<1>9. CASE TopLevel
  <2>1. TypeOK' BY <1>1, <1>9, TopLevelType
  <2> QED BY <1>9, <2>1, StatementInv, SweepInv, ReactedInv, SweepDoneInv, PromptInv DEF TopLevel
<1>10. CASE UNCHANGED vars
  <2>1. TypeOK' /\ UNCHANGED <<sent, status, foreground, owned, ledger, pending, turns, lost, frames, raising,
                                phase, swept, reacting>>
    BY <1>1, <1>10 DEF TypeOK, vars, taskVars, fiberVars, topVars, rowVars
  <2>2. Rows' /\ Queues' /\ Stacks' /\ Ends' /\ \A t \in Tasks : Terminal(t) => Terminal(t)'
    BY <2>1, Still
  <2>3. Phases' BY <2>1, <2>2, PhasesStand
  <2> QED BY <2>1, <2>2, <2>3 DEF IInv
<1> QED BY <1>2, <1>3, <1>4, <1>5, <1>6, <1>7, <1>8, <1>9, <1>10 DEF Next, Statement

\* Rows, queues, stacks and phases stay related as IInv says.
THEOREM Invariance == Spec => []IInv
<1> QED BY InitInv, NextInv, PTL DEF Spec

\* The ledger accounts for every delegation: its rows are a chain of receipts
\* that says its status, and when the session rests every delegation has its
\* one terminal and nothing runs.
THEOREM Accounts == Spec => []TasksAreAccounted
<1>1. IInv => TasksAreAccounted
  <2> SUFFICES ASSUME IInv PROVE TasksAreAccounted OBVIOUS
  <2>1. StatusIsProjection /\ ReceiptChain BY RowsAreAccounts DEF IInv
  <2>2. ASSUME phase = "quiescent"
        PROVE  /\ \A t \in 1 .. sent : Terminal(t)
               /\ turns = << >> /\ \A r \in Runners : frames[r] = << >>
    <3>1. turns = << >> /\ frames[0] = << >> BY <2>2 DEF IInv, Phases
    <3>2. \A t \in 1 .. sent : t \in Tasks /\ t <= sent BY Numbers DEF IInv, TypeOK
    <3>3. \A t \in 1 .. sent : Terminal(t) BY <2>2, <3>2 DEF IInv, Phases
    <3>4. ASSUME NEW r \in Runners, r # 0 PROVE frames[r] = << >>
      <4>1. ~InTurns(r) BY <3>1 DEF InTurns
      <4>2. \A i \in DOMAIN frames[r] : FALSE BY <3>4, <4>1 DEF IInv, Stacks
      <4>3. frames[r] \in Seq(Tasks) BY OldOnes
      <4>4. DOMAIN frames[r] = 1 .. Len(frames[r]) /\ Len(frames[r]) \in Nat BY <4>3
      <4>5. Len(frames[r]) = 0 BY <4>2, <4>4
      <4> QED BY <4>3, <4>5
    <3> QED BY <3>1, <3>3, <3>4
  <2> QED BY <2>1, <2>2 DEF TasksAreAccounted, QuiescentIsTerminal, IInv
<1> QED BY <1>1, Invariance, PTL

\* Only the end of a handler shortens a stack.
LEMMA OnlyUnwindShortens ==
  ASSUME IInv, [Next]_vars, NEW r \in Runners, Len(frames'[r]) < Len(frames[r])
  PROVE  Unwind(r)
<1>1. \A s \in Runners : frames[s] \in Seq(Tasks) /\ Len(frames[s]) \in Nat BY DEF IInv, TypeOK
<1>2. frames' # frames BY <1>1
<1>3. ASSUME NEW s \in Runners, SendForeground(s) PROVE FALSE
  <2>1. PICK n \in Tasks : n = sent + 1 BY <1>3, NewTaskType DEF SendForeground, IInv
  <2>2. frames' = [frames EXCEPT ![s] = Append(@, n)] BY <1>3, <2>1 DEF SendForeground
  <2>3. CASE s = r
    <3>1. frames'[r] = Append(frames[r], n) BY <2>2, <2>3 DEF IInv, TypeOK
    <3> QED BY <1>1, <2>1, <3>1
  <2>4. CASE s # r
    <3>1. frames'[r] = frames[r] BY <2>2, <2>4 DEF IInv, TypeOK
    <3> QED BY <1>1, <3>1
  <2> QED BY <2>3, <2>4
<1>4. ASSUME NEW t \in Tasks, Deliver(t) PROVE FALSE
  <2>1. frames[t] = << >> /\ frames' = [frames EXCEPT ![t] = <<t>>] BY <1>4 DEF Deliver
  <2>2. CASE t = r
    <3>1. frames'[r] = <<t>> /\ Len(frames[r]) = 0 BY <2>1, <2>2 DEF IInv, TypeOK
    <3> QED BY <3>1
  <2>3. CASE t # r
    <3>1. frames'[r] = frames[r] BY <2>1, <2>3 DEF IInv, TypeOK
    <3> QED BY <1>1, <3>1
  <2> QED BY <2>2, <2>3
<1>5. ASSUME NEW s \in Runners, Unwind(s) PROVE s = r
  <2>1. frames' = [frames EXCEPT ![s] = Rest(s)] BY <1>5 DEF Unwind
  <2>2. s # r => frames'[r] = frames[r] BY <2>1 DEF IInv, TypeOK
  <2> QED BY <1>1, <2>2
<1>6. ASSUME NEW s \in Runners, Statement(s) PROVE Unwind(r)
  <2>1. ~SendBackground(s) BY <1>2 DEF SendBackground
  <2>2. ~DeliverInline(s) /\ ~Unheard(s) /\ ~Throw(s) BY <1>2 DEF DeliverInline, Unheard, Throw
  <2>3. ~Call(s) /\ ~Back(s) BY <1>2 DEF Call, Back
  <2>4. ~Complete(s) /\ ~Fail(s) /\ ~Refuse(s) /\ ~Return(s)
    BY <1>2 DEF Complete, Fail, Refuse, Return
  <2>5. \A t \in Tasks : ~Cancel(s, t) BY <1>2 DEF Cancel
  <2>6. \A w \in Sleepers : ~SleepOrAwake(s, w) BY <1>2 DEF SleepOrAwake
  <2>7. ~SendForeground(s) BY <1>3
  <2> QED BY <1>5, <1>6, <2>1, <2>2, <2>3, <2>4, <2>5, <2>6, <2>7 DEF Statement, Send, Handler
<1>7. ~StartBatch /\ ~DrainDone BY <1>2 DEF StartBatch, DrainDone
<1>8. \A t \in Tasks : ~Skip(t) BY <1>2 DEF Skip
<1>9. ~TopLevel
  <2>1. ~EndStatement /\ ~OpenScope /\ ~CloseScope /\ ~AbandonScope
    BY <1>2 DEF EndStatement, OpenScope, CloseScope, AbandonScope
  <2>2. ~Sweep /\ ~Reacted /\ ~SweepDone /\ ~Prompt BY <1>2 DEF Sweep, Reacted, SweepDone, Prompt
  <2> QED BY <2>1, <2>2 DEF TopLevel
<1>10. ~UNCHANGED vars BY <1>2 DEF vars
<1> QED BY <1>4, <1>6, <1>7, <1>8, <1>9, <1>10 DEF Next

\* Only the end of its sweep takes a block that closes on.
LEMMA OnlySweepDoneCloses ==
  ASSUME IInv, [Next]_vars, phase = "closeSweep", phase' = "statement"
  PROVE  SweepDone
<1>1. phase' # phase BY DEF IInv, TypeOK
<1>2. ASSUME NEW s \in Runners, Statement(s) PROVE FALSE
  <2>1. CASE Unwind(s) \/ Throw(s)
    <3>1. UNCHANGED topVars \/ TurnFails
      BY <2>1 DEF Unwind, Throw, DeliveryEnds, DeliveryThrows, SenderFaults
    <3> QED BY <1>1, <3>1 DEF topVars, TurnFails
  <2>2. CASE ~Unwind(s) /\ ~Throw(s)
    <3>1. UNCHANGED topVars \/ UNCHANGED phase
      BY <1>2, <2>2 DEF Statement, Send, SendBackground, SendForeground, DeliverInline, Unheard, Handler,
                        Call, Back, Complete, Fail, Refuse, Return, Cancel, SleepOrAwake
    <3> QED BY <1>1, <3>1 DEF topVars
  <2> QED BY <2>1, <2>2
<1>3. ~StartBatch /\ ~DrainDone BY DEF StartBatch, DrainDone, topVars
<1>4. \A t \in Tasks : ~Deliver(t) /\ ~Skip(t) BY <1>1 DEF Deliver, Skip, topVars
<1>5. ~EndStatement /\ ~OpenScope /\ ~CloseScope /\ ~AbandonScope
  BY DEF EndStatement, OpenScope, CloseScope, AbandonScope, AtStatement
<1>6. ~Sweep /\ ~Reacted /\ ~Prompt BY <1>1 DEF Sweep, Reacted, Prompt
<1>7. ~UNCHANGED vars BY <1>1 DEF vars, topVars
<1> QED BY <1>2, <1>3, <1>4, <1>5, <1>6, <1>7 DEF Next, TopLevel

\* Whoever waits goes on only after the terminals it waits for: a block that
\* closes leaves no task it owns open, and a sender in the foreground whose
\* task did not complete is faulted, or fails the turn of the session.
THEOREM WaitersWait == Spec => WaitsForTerminals
<1> DEFINE Closes == phase = "closeSweep" /\ phase' = "statement" =>
                       \A t \in Tasks : owned[t] => Terminal(t)
           Returns == \A r \in Runners :
                        /\ Len(frames'[r]) < Len(frames[r])
                        /\ foreground[Top(r)]
                        /\ status[Top(r)] # "completed"
                        => raising'[r] = "error" \/ crashes' > crashes \/ phase' = "failed"
<1>1. ASSUME IInv, [Next]_vars PROVE Closes
  <2>1. SUFFICES ASSUME phase = "closeSweep", phase' = "statement", NEW t \in Tasks, owned[t]
                 PROVE  Terminal(t)
    OBVIOUS
  <2>2. SweepDone BY <1>1, <2>1, OnlySweepDoneCloses
  <2>3. t <= swept BY <1>1, <2>1, <2>2 DEF SweepDone, IInv, Phases
  <2> QED BY <1>1, <2>1, <2>3 DEF IInv, Phases
<1>2. ASSUME IInv, [Next]_vars PROVE Returns
  <2>1. SUFFICES ASSUME NEW r \in Runners, Len(frames'[r]) < Len(frames[r]), foreground[Top(r)],
                        status[Top(r)] # "completed"
                 PROVE  raising'[r] = "error" \/ crashes' > crashes \/ phase' = "failed"
    OBVIOUS
  <2>2. Unwind(r) BY <1>2, <2>1, OnlyUnwindShortens
  <2>3. crashes \in Nat BY <1>2 DEF IInv, TypeOK
  <2>4. PICK n \in Nat : n >= crashes /\ SenderFaults(r, n)
    <3>1. CASE DeliveryEnds(r, Top(r))
      <4>1. SenderFaults(r, crashes + (IF raising[r] = "error" THEN 1 ELSE 0))
        BY <2>1, <3>1 DEF DeliveryEnds, HasResult
      <4>2. CASE raising[r] = "error"
        <5>1. SenderFaults(r, crashes + 1) BY <4>1, <4>2
        <5>2. crashes + 1 \in Nat /\ crashes + 1 >= crashes BY <2>3
        <5> QED BY <5>1, <5>2
      <4>3. CASE raising[r] # "error"
        <5>1. crashes + 0 = crashes BY <2>3
        <5>2. SenderFaults(r, crashes) BY <4>1, <4>3, <5>1
        <5>3. crashes >= crashes BY <2>3
        <5> QED BY <2>3, <5>2, <5>3
      <4> QED BY <4>2, <4>3
    <3>2. CASE DeliveryThrows(r, Top(r))
      <4>1. \A n \in {crashes, crashes + 1} : n \in Nat /\ n >= crashes BY <2>3
      <4>2. \E n \in {crashes, crashes + 1} : SenderFaults(r, n) BY <2>1, <3>2 DEF DeliveryThrows
      <4> QED BY <4>1, <4>2
    <3> QED BY <2>2, <3>1, <3>2 DEF Unwind
  <2>5. CASE raising' = [raising EXCEPT ![r] = "error"] BY <1>2, <2>5 DEF IInv, TypeOK
  <2>6. CASE crashes' = n + 1 BY <2>3, <2>4, <2>6
  <2>7. CASE TurnFails BY <2>7 DEF TurnFails
  <2> QED BY <2>4, <2>5, <2>6, <2>7 DEF SenderFaults
<1>3. IInv /\ [Next]_vars => [Closes]_vars /\ [Returns]_vars BY <1>1, <1>2
<1> QED BY <1>3, Invariance, PTL DEF Spec, WaitsForTerminals, ScopeLeavesNothingOpen,
                                       ForegroundReturnsResult

-----------------------------------------------------------------------------
(* The refinement of Delegation.                                           *)

\* A task that was sent and has no terminal gets one as Delegation says.
LEMMA EndsAsPromised ==
  ASSUME IInv, NEW t \in Tasks, status[t] \in {"sent", "delivered"}, NEW s \in {"cancelled", "expired"},
         status' = [status EXCEPT ![t] = s]
  PROVE  LifeCycle!Next
<1>1. CASE status[t] = "sent"
  <2>1. LifeCycle!Tombstone(t) BY <1>1 DEF LifeCycle!Tombstone
  <2> QED BY <2>1 DEF LifeCycle!Next
<1>2. CASE status[t] = "delivered"
  <2>1. LifeCycle!Conclude(t) BY <1>2 DEF LifeCycle!Conclude, LifeCycle!Terminals
  <2> QED BY <2>1 DEF LifeCycle!Next
<1> QED BY <1>1, <1>2

LEMMA StepImplements ==
  ASSUME IInv, IInv', [Next]_vars
  PROVE  [LifeCycle!Next]_status
<1>0. SUFFICES ASSUME status' # status PROVE LifeCycle!Next OBVIOUS
<1>1. ASSUME NEW fg \in BOOLEAN, NewTask(fg), status' = [status EXCEPT ![sent + 1] = "sent"],
             Lands(<<"Sent">>, sent + 1)
      PROVE  LifeCycle!Next
  <2>1. TypeOK' BY DEF IInv
  <2>2. PICK n \in Tasks : n = sent + 1 /\ status[n] = "unsent" BY <1>1, <2>1, NewTaskInv
  <2>3. LifeCycle!Send(n) BY <1>1, <2>2 DEF LifeCycle!Send
  <2> QED BY <2>3 DEF LifeCycle!Next
<1>2. ASSUME NEW r \in Runners, DeliverInline(r) PROVE LifeCycle!Next
  <2>1. PICK t \in Tasks : t = Top(r) BY <1>2, TopFacts DEF DeliverInline, AtDelivery, IInv
  <2>2. LifeCycle!Deliver(t) BY <1>2, <2>1 DEF DeliverInline, AtDelivery, LifeCycle!Deliver
  <2> QED BY <2>2 DEF LifeCycle!Next
<1>3. ASSUME NEW r \in Runners, Complete(r) \/ Fail(r) PROVE LifeCycle!Next
  <2>1. InHandler(r) /\ Open(Top(r)) BY <1>3 DEF Complete, Fail, MayConclude
  <2>2. PICK t \in Tasks : t = Top(r) /\ status[t] = "delivered" BY <2>1, HandlerIsDelivered
  <2>3. LifeCycle!Conclude(t)
    BY <1>3, <2>2 DEF Complete, Fail, LifeCycle!Conclude, LifeCycle!Terminals
  <2> QED BY <2>3 DEF LifeCycle!Next
<1>4. ASSUME NEW r \in Runners, Unwind(r) PROVE LifeCycle!Next
  <2>1. frames[r] # << >> BY <1>4 DEF Unwind, IInv, Ends
  <2>2. Len(frames[r]) \in DOMAIN frames[r] BY <2>1, TopFacts DEF IInv
  <2>3. PICK t \in Tasks : t = Top(r) /\ t <= sent BY <2>1, <2>2, TopFacts DEF IInv, Stacks, Top
  <2>4. status' = [status EXCEPT ![t] = AfterHandler(t)]
    BY <1>0, <1>4, <2>3 DEF Unwind, DeliveryEnds, DeliveryThrows
  <2>5. Open(t) BY <1>0, <2>4 DEF AfterHandler, IInv, TypeOK
  <2>6. status[t] \in {"sent", "delivered"} BY <2>3, <2>5, OpenIsPlain DEF IInv
  <2>7. status' = [status EXCEPT ![t] = "expired"] BY <2>4, <2>5 DEF AfterHandler
  <2> QED BY <2>6, <2>7, EndsAsPromised
<1>5. ASSUME NEW r \in Runners, NEW t \in Tasks, Cancel(r, t) PROVE LifeCycle!Next
  <2>1. status[t] \in {"sent", "delivered"} BY <1>5, OpenIsPlain DEF Cancel, IInv
  <2>2. status' = [status EXCEPT ![t] = "cancelled"] BY <1>5 DEF Cancel
  <2> QED BY <2>1, <2>2, EndsAsPromised
<1>6. ASSUME NEW r \in Runners, Statement(r) PROVE LifeCycle!Next
  <2>1. CASE SendBackground(r) BY <1>1, <2>1 DEF SendBackground
  <2>2. CASE SendForeground(r) BY <1>1, <2>2 DEF SendForeground
  <2>3. ~Unheard(r) /\ ~Throw(r) /\ ~Call(r) /\ ~Back(r) /\ ~Refuse(r) /\ ~Return(r)
    BY <1>0 DEF Unheard, Throw, Call, Back, Refuse, Return, taskVars
  <2>4. \A w \in Sleepers : ~SleepOrAwake(r, w) BY <1>0 DEF SleepOrAwake, taskVars
  <2> QED BY <1>2, <1>3, <1>4, <1>5, <1>6, <2>1, <2>2, <2>3, <2>4 DEF Statement, Send, Handler
<1>7. ASSUME NEW t \in Tasks, Deliver(t) PROVE LifeCycle!Next
  <2>1. HasTurn(t) /\ t \notin lost /\ frames[t] = << >> /\ Open(t) BY <1>7 DEF Deliver, Deliverable
  <2>2. t <= sent /\ status[t] # "delivered" BY <2>1, BeginsWithOwn
  <2>3. status[t] = "sent" BY <2>1, <2>2, OpenIsPlain DEF IInv
  <2>4. LifeCycle!Deliver(t) BY <1>7, <2>3 DEF Deliver, LifeCycle!Deliver
  <2> QED BY <2>4 DEF LifeCycle!Next
<1>8. CASE Sweep
  <2>1. swept \in Nat /\ sent \in 0 .. MaxTasks /\ swept < sent BY <1>8, Numbers DEF Sweep, IInv, TypeOK
  <2>2. PICK t \in Tasks : t = swept + 1 /\ t <= sent BY <2>1, Numbers
  <2>3. SweepTakes(t) /\ status' = [status EXCEPT ![t] = "expired"] BY <1>0, <1>8, <2>2 DEF Sweep
  <2>4. status[t] \in {"sent", "delivered"} BY <2>2, <2>3, OpenIsPlain DEF SweepTakes, IInv
  <2> QED BY <2>3, <2>4, EndsAsPromised
<1>9. /\ ~StartBatch /\ ~DrainDone /\ \A t \in Tasks : ~Skip(t)
      /\ ~EndStatement /\ ~OpenScope /\ ~CloseScope /\ ~AbandonScope
      /\ ~Reacted /\ ~SweepDone /\ ~Prompt /\ ~UNCHANGED vars
  BY <1>0 DEF StartBatch, DrainDone, Skip, EndStatement, OpenScope, CloseScope, AbandonScope, Reacted,
              SweepDone, Prompt, vars, taskVars
<1> QED BY <1>6, <1>7, <1>8, <1>9 DEF Next, TopLevel

\* Every delegation is sent once, reaches its worker at most once and gets one
\* terminal that nothing changes afterwards, whatever fibers, reactions and
\* sweeps do.
THEOREM Implements == Spec => ImplementsDelegation
<1>1. Init => LifeCycle!Init BY DEF Init, LifeCycle!Init
<1> QED BY <1>1, StepImplements, Invariance, PTL DEF Spec, ImplementsDelegation, LifeCycle!Spec
=============================================================================
