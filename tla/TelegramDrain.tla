---------------------------- MODULE TelegramDrain ----------------------------
(***************************************************************************)
(* Delivery of staff messages to Telegram.  Drains, kicked by every        *)
(* mutation and by a sweep each minute, claim pending notification rows,   *)
(* send them one by one and settle each.  They overlap, are slow, are told *)
(* to wait, and die between the send and the settling.                     *)
(*                                                                         *)
(* The rows here are task copies: messages whose buttons close a task.     *)
(* Doors close tasks and hand them on meanwhile; after its commit a door   *)
(* starts a retirement that silences the copies it can see, and a drain    *)
(* looks again after each send for those it could not.  Neither is tried   *)
(* twice: what fails is logged, and what dies with its process is gone.    *)
(* A digest lists several tasks of its reader, a single copy one.          *)
(***************************************************************************)
EXTENDS Naturals, Sequences, SequencesExt, FiniteSets

CONSTANTS
  LastRow,      \* bound: notifications of channel telegram, oldest first
  Digests,      \* those of type TasksDue
  Tasks, Users, None,
  Drains,       \* runs of sendPendingTelegram
  Limit,        \* rows one drain claims at most
  MaxAttempts,  \* MAX_TELEGRAM_ATTEMPTS
  MaxSends,     \* bound: messages one row may become
  MaxRetires    \* bound: changes of tasks, and so retirements begun by doors

Rows == 1..LastRow

ASSUME TelegramAssumption ==
  /\ LastRow \in Nat
  /\ Digests \subseteq Rows /\ None \notin Users
  /\ Limit \in Nat \ {0} /\ MaxAttempts \in Nat \ {0}
  /\ MaxSends \in Nat \ {0} /\ MaxRetires \in Nat

VARIABLES
  row,      \* the notifications table
  old,      \* rows claimed more than ten minutes ago
  task,     \* the tasks table
  held,     \* everybody a task was ever assigned to (its audit rows)
  drain,    \* each drain's place in sendPendingTelegram
  paused,   \* the process's notBefore lies ahead
  chat,     \* Telegram: for each message of a row, the tasks its buttons close
  retires,  \* retirements under way
  doors,    \* how many retirements doors began
  doubt,    \* history: rows whose send nobody could settle in time
  unedited  \* history: rows whose buttons nobody took off, the edit refused, or the
            \* retirement or the look that was to see to them lost

rowVars  == <<row, old>>
taskVars == <<task, held>>
sideVars == <<retires, doors, unedited>>
vars     == <<row, old, task, held, drain, paused, chat, retires, doors, doubt, unedited>>

Statuses == {"absent", "pending", "sending", "sent", "failed", "muted"}
Row      == [status: Statuses, attempts: 0..MaxAttempts, list: SUBSET Tasks,
             user: Users \cup {None}, tg: 0..MaxSends]
NoRow    == [status |-> "absent", attempts |-> 0, list |-> {}, user |-> None, tg |-> 0]
Idle     == [step |-> "idle", todo |-> <<>>, keys |-> {}]
Dead     == [Idle EXCEPT !.step = "dead"]

\* One row of a drain's batch, with the attempts it was read with.
Item == [row: Rows, attempts: 0..MaxAttempts]
Run  == [step: {"idle", "dead", "claiming", "judging", "sending", "settling", "looking"},
         todo: Seq(Item), keys: SUBSET Tasks]

\* A retirement: whose change it follows, the rows it may touch, and, once it
\* has read them, the edits it has yet to make.
Edit   == [row: Rows, msg: 1..MaxSends, keys: SUBSET Tasks]
Retire == [step: {"mute", "read", "edit"}, about: SUBSET Tasks, scope: SUBSET Rows,
           spare: SUBSET Users, edits: SUBSET Edit]

TypeOK ==
  /\ row \in [Rows -> Row]
  /\ old \subseteq Rows
  /\ task \in [Tasks -> [open: BOOLEAN, holder: Users]]
  /\ held \in [Tasks -> SUBSET Users]
  /\ drain \in [Drains -> Run]
  /\ \A w \in Drains : Len(drain[w].todo) <= Limit
  /\ paused \in BOOLEAN
  /\ chat \in [Rows -> Seq(SUBSET Tasks)]
  /\ \A r \in Rows : Len(chat[r]) <= MaxSends
  /\ retires \subseteq Retire
  /\ doors \in 0..MaxRetires
  /\ doubt \subseteq Rows
  /\ unedited \subseteq Rows

Init ==
  /\ row = [r \in Rows |-> NoRow]
  /\ old = {}
  /\ \E u \in Users : /\ task = [t \in Tasks |-> [open |-> TRUE, holder |-> u]]
                      /\ held = [t \in Tasks |-> {u}]
  /\ drain = [w \in Drains |-> Idle]
  /\ paused = FALSE
  /\ chat = [r \in Rows |-> <<>>]
  /\ retires = {}
  /\ doors = 0
  /\ doubt = {}
  /\ unedited = {}

-----------------------------------------------------------------------------
(* The tasks' doors.                                                        *)

\* The tasks of S that are user u's to act on.
Mine(S, u) == {t \in S : task[t].open /\ task[t].holder = u}

Begun(t, scope, spare) ==
  /\ doors < MaxRetires
  /\ doors' = doors + 1
  /\ retires' = retires \cup {[step |-> "mute", about |-> {t}, scope |-> scope,
                               spare |-> spare, edits |-> {}]}

\* A message is queued for somebody who holds the task, or held it when the
\* sender read the task; a digest lists open tasks of its reader.
Notify(r, u, S) ==
  /\ row[r].status = "absent"
  /\ \A q \in 1..(r - 1) : row[q].status # "absent"
  /\ S # {}
  /\ r \notin Digests => Cardinality(S) = 1
  /\ \A t \in S : u \in held[t]
  /\ row' = [row EXCEPT ![r] = [NoRow EXCEPT !.status = "pending", !.list = S, !.user = u]]
  /\ UNCHANGED <<old, taskVars, drain, paused, chat, sideVars, doubt>>

Close(t) ==
  /\ task[t].open
  /\ task' = [task EXCEPT ![t].open = FALSE]
  /\ Begun(t, Rows, {})
  /\ UNCHANGED <<rowVars, held, drain, paused, chat, doubt, unedited>>

\* Copies written from now on are the new holder's business.
Reassign(t, u) ==
  /\ task[t].open
  /\ u # task[t].holder
  /\ task' = [task EXCEPT ![t].holder = u]
  /\ held' = [held EXCEPT ![t] = @ \cup {u}]
  /\ Begun(t, {r \in Rows : row[r].status # "absent"}, {u})
  /\ UNCHANGED <<rowVars, drain, paused, chat, doubt, unedited>>

-----------------------------------------------------------------------------
(* A retirement, off the door's request.                                    *)

\* The rows a retirement may touch, of people the task was ever assigned to.
Scope(x) == {r \in x.scope : row[r].user \in (UNION {held[t] : t \in x.about}) \ x.spare}

\* Copies not sent yet are muted.
MuteCopies(x) ==
  /\ x.step = "mute"
  /\ row' = [r \in Rows |->
       IF r \in Scope(x) \ Digests /\ row[r].status = "pending" /\ row[r].list \subseteq x.about
         THEN [row[r] EXCEPT !.status = "muted"] ELSE row[r]]
  /\ retires' = (retires \ {x}) \cup {[x EXCEPT !.step = "read"]}
  /\ UNCHANGED <<old, taskVars, drain, paused, chat, doors, doubt, unedited>>

\* The sent ones, and for the digests the tasks still their reader's, are read.
ReadCopies(x) ==
  LET sent == {r \in Scope(x) : row[r].status = "sent" /\ row[r].list \cap x.about # {}}
  IN /\ x.step = "read"
     /\ retires' = (retires \ {x}) \cup
          (IF sent = {} THEN {} ELSE
           {[x EXCEPT !.step = "edit", !.edits =
               {[row |-> r, msg |-> row[r].tg,
                 keys |-> IF r \in Digests THEN Mine(row[r].list, row[r].user) ELSE {}] : r \in sent}]})
     /\ UNCHANGED <<rowVars, taskVars, drain, paused, chat, doors, doubt, unedited>>

\* A message is edited; Telegram may refuse, which is only logged.
EditCopy(x, e) ==
  LET rest == x.edits \ {e}
  IN /\ x.step = "edit"
     /\ e \in x.edits
     /\ \/ chat' = [chat EXCEPT ![e.row] = [@ EXCEPT ![e.msg] = e.keys]] /\ UNCHANGED unedited
        \/ unedited' = unedited \cup {e.row} /\ UNCHANGED chat
     /\ retires' = (retires \ {x}) \cup (IF rest = {} THEN {} ELSE {[x EXCEPT !.edits = rest]})
     /\ UNCHANGED <<rowVars, taskVars, drain, paused, doors, doubt>>

-----------------------------------------------------------------------------
(* A drain.                                                                 *)

Go(w, place)  == drain' = [drain EXCEPT ![w].step = place]
Hold(w)       == {drain[w].todo[i].row : i \in DOMAIN drain[w].todo}
Current(w)    == Head(drain[w].todo)

\* The row in hand is done with: the next one, or the end of the run.
NextRow(w) ==
  drain' = [drain EXCEPT ![w] = IF Len(@.todo) = 1 THEN Idle
                                ELSE [step |-> "judging", todo |-> Tail(@.todo), keys |-> {}]]

\* Ten minutes pass over a claimed row.
Age(r) ==
  /\ row[r].status = "sending"
  /\ r \notin old
  /\ old' = old \cup {r}
  /\ doubt' = doubt \cup {r}
  /\ UNCHANGED <<row, taskVars, drain, paused, chat, sideVars>>

Resume ==
  /\ paused
  /\ paused' = FALSE
  /\ UNCHANGED <<rowVars, taskVars, drain, chat, sideVars, doubt>>

Spent(n) == IF n + 1 >= MaxAttempts THEN "failed" ELSE "pending"

\* A run begins by taking back the rows S.
TakeBack(w, S) ==
  /\ drain[w].step \in {"idle", "dead"}
  /\ ~paused
  /\ row' = [r \in Rows |->
       IF r \in S THEN [row[r] EXCEPT !.status = Spent(row[r].attempts), !.attempts = @ + 1]
                  ELSE row[r]]
  /\ old' = old \ S
  /\ Go(w, "claiming")
  /\ UNCHANGED <<taskVars, paused, chat, sideVars, doubt>>

\* Three mistakes: whatever is old counts, settled or not; a claim is taken back
\* however young; nothing is ever taken back.
ReclaimSettled(w) == TakeBack(w, old)
ReclaimYoung(w)   == TakeBack(w, {r \in Rows : row[r].status = "sending"})
ReclaimNone(w)    == TakeBack(w, {})

\* What a dead run held for ten minutes.
Reclaim(w) == TakeBack(w, {r \in old : row[r].status = "sending"})

\* The rows a run takes: pending, not given up, no more than Limit, oldest first.
Ready      == {r \in Rows : row[r].status = "pending" /\ row[r].attempts < MaxAttempts}
Batch      == {r \in Ready : Cardinality({q \in Ready : q < r}) < Limit}
Oldest(q)  == \A i, j \in DOMAIN q : i < j => q[i] < q[j]
Reading(q) == [i \in 1..Len(q) |-> [row |-> q[i], attempts |-> row[q[i]].attempts]]

\* The oldest pending rows are claimed in one statement, then read.
Claim(w) ==
  /\ drain[w].step = "claiming"
  /\ row' = [r \in Rows |->
       IF r \in Batch THEN [row[r] EXCEPT !.status = "sending"] ELSE row[r]]
  /\ old' = old \ Batch
  /\ \E q \in SetToSeqs(Batch) :
       /\ Oldest(q)
       /\ drain' = [drain EXCEPT ![w] =
            IF q = <<>> THEN Idle ELSE [step |-> "judging", todo |-> Reading(q), keys |-> {}]]
  /\ UNCHANGED <<taskVars, paused, chat, sideVars, doubt>>

\* The reader is gone or unlinked, or the task is no longer his: not sent.
Mute(w) ==
  /\ row' = [row EXCEPT ![Current(w).row].status = "muted"]
  /\ NextRow(w)
  /\ UNCHANGED <<old, taskVars, paused, chat, sideVars, doubt>>

Sending(w, keys) ==
  /\ drain' = [drain EXCEPT ![w] = [@ EXCEPT !.step = "sending", !.keys = keys]]
  /\ UNCHANGED <<rowVars, taskVars, paused, chat, sideVars, doubt>>

\* The tasks are asked for once more just before the send; when the question
\* fails, the copy goes out as it was queued.
Judge(w) ==
  LET r    == Current(w).row
      keys == Mine(row[r].list, row[r].user)
  IN /\ drain[w].step = "judging"
     /\ \/ Mute(w)
        \/ /\ keys # {} \/ r \in Digests
           /\ Sending(w, keys)
        \/ Sending(w, row[r].list)

Deliver(w) ==
  LET r == Current(w).row
  IN /\ Len(chat[r]) < MaxSends
     /\ chat' = [chat EXCEPT ![r] = Append(@, drain[w].keys)]

\* Telegram took the message.
Send(w) ==
  /\ drain[w].step = "sending"
  /\ Deliver(w)
  /\ Go(w, "settling")
  /\ UNCHANGED <<rowVars, taskVars, paused, sideVars, doubt>>

\* The row reads sent, with the message's id.
Settle(w) ==
  LET r == Current(w).row
  IN /\ drain[w].step = "settling"
     /\ row' = [row EXCEPT ![r] = [@ EXCEPT !.status = "sent", !.tg = Len(chat[r])]]
     /\ Go(w, "looking")
     /\ UNCHANGED <<old, taskVars, paused, chat, sideVars, doubt>>

\* A mistake: nobody looks again.
LookAway(w) ==
  /\ drain[w].step = "looking"
  /\ NextRow(w)
  /\ UNCHANGED <<rowVars, taskVars, paused, chat, sideVars, doubt>>

\* The tasks whose buttons went out and which are the reader's no longer.
Gone(w) == drain[w].keys \ Mine(row[Current(w).row].list, row[Current(w).row].user)

\* The tasks are asked for after it: what closed while the copy was under way is
\* retired by the drain itself, on this row alone.  When the question fails, which
\* is only logged, nobody retires it.
LookAgain(w) ==
  LET r == Current(w).row
  IN /\ drain[w].step = "looking"
     /\ \/ Gone(w) = {} /\ UNCHANGED <<retires, unedited>>
        \/ /\ Gone(w) # {}
           /\ retires' = retires \cup
                {[step |-> "mute", about |-> Gone(w), scope |-> {r}, spare |-> {}, edits |-> {}]}
           /\ UNCHANGED unedited
        \/ /\ Gone(w) # {}
           /\ unedited' = unedited \cup {r}
           /\ UNCHANGED retires
     /\ NextRow(w)
     /\ UNCHANGED <<rowVars, taskVars, paused, chat, doors, doubt>>

\* A failure is counted on what was read at the claim; a message whose answer
\* timed out may have arrived.
Fail(w) ==
  LET r == Current(w).row
      n == Current(w).attempts
  IN /\ drain[w].step = "sending"
     /\ row' = [row EXCEPT ![r] = [@ EXCEPT !.status = Spent(n), !.attempts = n + 1]]
     /\ \/ UNCHANGED <<chat, doubt>>
        \/ Deliver(w) /\ doubt' = doubt \cup {r}
     /\ NextRow(w)
     /\ UNCHANGED <<old, taskVars, paused, sideVars>>

\* Rate limited, or the bot itself is refused: what is left goes back as it was.
Throttle(w) ==
  /\ drain[w].step = "sending"
  /\ row' = [r \in Rows |->
       IF r \in Hold(w) /\ row[r].status = "sending"
         THEN [row[r] EXCEPT !.status = "pending"] ELSE row[r]]
  /\ old' = old \ Hold(w)
  /\ paused' = TRUE
  /\ drain' = [drain EXCEPT ![w] = Idle]
  /\ UNCHANGED <<taskVars, chat, sideVars, doubt>>

\* A run dies, with its process or of a failed query; what it held stays claimed
\* until it is old.
Die(w) ==
  /\ drain[w].step \notin {"idle", "dead"}
  /\ drain' = [drain EXCEPT ![w] = Dead]
  /\ doubt' = doubt \cup Hold(w)
  /\ UNCHANGED <<rowVars, taskVars, paused, chat, sideVars>>

\* A retirement dies, with its process or of a failed query, which is only logged.
\* The buttons it was to take off stay, but for a row a drain has in hand.
Lose(x) ==
  /\ retires' = retires \ {x}
  /\ unedited' = unedited \cup
       {r \in Scope(x) : /\ \E i \in DOMAIN chat[r] : chat[r][i] \cap x.about # {}
                        /\ \A w \in Drains : r \notin Hold(w)}
  /\ UNCHANGED <<rowVars, taskVars, drain, paused, chat, doors, doubt>>

Work(w) ==
  \/ Reclaim(w) \/ Claim(w) \/ Judge(w) \/ Send(w) \/ Settle(w) \/ LookAgain(w) \/ Fail(w)

RetireWork == \E x \in retires : MuteCopies(x) \/ ReadCopies(x) \/ \E e \in x.edits : EditCopy(x, e)

Next ==
  \/ \E r \in Rows, u \in Users, S \in SUBSET Tasks : Notify(r, u, S)
  \/ \E t \in Tasks : Close(t) \/ \E u \in Users : Reassign(t, u)
  \/ RetireWork
  \/ \E x \in retires : Lose(x)
  \/ \E r \in Rows : Age(r)
  \/ \E w \in Drains : Work(w) \/ Throttle(w) \/ Die(w)
  \/ Resume

\* The sweep of each minute starts a run, a run that lives goes on, time passes.
Spec ==
  /\ Init /\ [][Next]_vars
  /\ \A w \in Drains : WF_vars(Work(w))
  /\ WF_vars(RetireWork) /\ WF_vars(Resume)
  /\ \A r \in Rows : WF_vars(Age(r))

-----------------------------------------------------------------------------
\* A row becomes one message, unless its drain died or was overtaken by the ten
\* minutes, or a send that was answered with a failure arrived all the same.
SentOnce == \A r \in Rows \ doubt : Len(chat[r]) <= 1

\* Some drain, or some retirement, has yet to look at row r.
InHand(r) ==
  \/ \E w \in Drains : r \in Hold(w)
  \/ \E x \in retires : r \in x.scope

\* A single copy whose task was closed or handed on offers no button any more,
\* once everybody who has it in hand is done: whatever the door's retirement could
\* not see, the drain saw, also what it sent unasked.  Not held to that: a row in
\* doubt, and one whose edit was refused or lost, with the retirement that had it
\* to make or with the look that should have begun one.
NoButtonOutlivesItsTask ==
  \A r \in Rows \ (Digests \cup doubt \cup unedited) :
    \A i \in DOMAIN chat[r] :
      chat[r][i] \subseteq Mine(row[r].list, row[r].user) \/ InHand(r)

\* A queued message is sent, given up or muted in the end, once drains stop dying
\* and Telegram stops asking to wait.
EveryRowSettles ==
  <>[][\A w \in Drains : ~Die(w) /\ ~Throttle(w)]_vars =>
  \A r \in Rows : row[r].status = "pending" ~> row[r].status \in {"sent", "failed", "muted"}
=============================================================================
