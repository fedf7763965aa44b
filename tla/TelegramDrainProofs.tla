------------------------- MODULE TelegramDrainProofs -------------------------
(***************************************************************************)
(* A message is sent once and its buttons do not outlive its task, whatever *)
(* number of drains, rows, tasks and retirements there are, however they   *)
(* overlap and whatever of them is lost.                                   *)
(***************************************************************************)
EXTENDS TelegramDrain, SequenceTheorems, FiniteSetTheorems, TLAPS

\* A drain has rows in hand while it judges, sends, settles and looks again.
AtWork(w) == drain[w].step \in {"judging", "sending", "settling", "looking"}

\* It has sent the row in hand.
Delivered(w) == drain[w].step \in {"settling", "looking"}

RunsFit ==
  \A w \in Drains :
    /\ AtWork(w) <=> drain[w].todo # <<>>
    /\ \A i \in DOMAIN drain[w].todo : drain[w].todo[i].attempts < MaxAttempts
    /\ Delivered(w) => chat[Current(w).row] # <<>>
    /\ drain[w].step \in {"sending", "settling", "looking"} =>
         drain[w].keys \subseteq row[Current(w).row].list

\* A row that may be claimed has an attempt left, one that was sent has its
\* message's id, and its reader held each task it lists.
RowsFit ==
  \A r \in Rows :
    /\ row[r].status \in {"pending", "sending"} => row[r].attempts < MaxAttempts
    /\ row[r].status = "sent" => row[r].tg > 0
    /\ row[r].status = "absent" => row[r].list = {}
    /\ \A t \in row[r].list : row[r].user \in held[t]

\* Rows in doubt aside, what a drain holds is claimed, and sent as far as it says.
HeldFits ==
  \A w \in Drains : \A i \in DOMAIN drain[w].todo :
    LET r == drain[w].todo[i].row
    IN r \notin doubt =>
         /\ row[r].status = IF i = 1 /\ drain[w].step = "looking" THEN "sent" ELSE "sending"
         /\ Len(chat[r]) = IF i = 1 /\ Delivered(w) THEN 1 ELSE 0
         /\ i = 1 /\ Delivered(w) /\ r \notin Digests => chat[r][1] \subseteq drain[w].keys

\* Rows in doubt aside, no two hold the same.
HeldOnce ==
  \A w, z \in Drains : \A i \in DOMAIN drain[w].todo, j \in DOMAIN drain[z].todo :
    drain[w].todo[i].row = drain[z].todo[j].row =>
      \/ w = z /\ i = j
      \/ drain[w].todo[i].row \in doubt

\* A claim old enough to be taken back is in doubt.
OldInDoubt == old \subseteq doubt

\* Rows in doubt aside, a row that no drain has in hand became a message exactly
\* if it reads sent, and the buttons of a single copy are of the row's tasks.
ChatFits ==
  \A r \in Rows \ doubt :
    /\ row[r].status \notin {"sending", "sent"} => chat[r] = <<>>
    /\ row[r].status = "sent" => row[r].tg = 1
    /\ chat[r] # <<>> /\ row[r].status # "sent" => \E w \in Drains : Delivered(w) /\ Current(w).row = r
    /\ chat[r] # <<>> /\ r \notin Digests => chat[r][1] \subseteq row[r].list

\* A retirement that will take the button of task t off the message of row r.
Covers(x, r, t) ==
  /\ t \in x.about /\ r \in x.scope /\ row[r].user \in held[t] \ x.spare
  /\ x.step = "edit" => [row |-> r, msg |-> 1, keys |-> {}] \in x.edits

\* Every button of a single copy that outlived its task will be seen to.
ButtonsCovered ==
  \A r \in Rows \ (Digests \cup doubt \cup unedited) : \A t \in Tasks :
    chat[r] # <<>> /\ t \in chat[r][1] /\ ~(task[t].open /\ task[t].holder = row[r].user) =>
      \/ \E w \in Drains : Delivered(w) /\ Current(w).row = r
      \/ \E x \in retires : Covers(x, r, t)

\* An edit of a single copy takes all its buttons off.
EditsFit == \A x \in retires : \A e \in x.edits : e.row \notin Digests => e.keys = {}

\* The inductive invariant.
DrainInv ==
  /\ TypeOK /\ RunsFit /\ RowsFit /\ HeldFits /\ HeldOnce /\ OldInDoubt /\ ChatFits
  /\ ButtonsCovered /\ EditsFit /\ SentOnce

-----------------------------------------------------------------------------
(* A drain's hand.                                                          *)

\* The bounds are numbers.
LEMMA Bounds ==
  /\ LastRow \in Nat /\ Limit \in Nat /\ Limit > 0 /\ MaxAttempts \in Nat /\ MaxAttempts > 0
  /\ MaxSends \in Nat /\ MaxSends > 0 /\ MaxRetires \in Nat
  BY TelegramAssumption

\* A drain at work has a row in hand.
LEMMA InTheHand ==
  ASSUME DrainInv, NEW w \in Drains
  PROVE  /\ drain[w] \in Run /\ drain[w].todo \in Seq(Item) /\ Len(drain[w].todo) \in Nat
         /\ DOMAIN drain[w].todo = 1..Len(drain[w].todo)
         /\ \A i \in DOMAIN drain[w].todo : drain[w].todo[i] \in Item /\ drain[w].todo[i].row \in Rows
         /\ AtWork(w) => /\ Len(drain[w].todo) > 0 /\ 1 \in DOMAIN drain[w].todo
                         /\ Current(w) = drain[w].todo[1] /\ Current(w) \in Item
                         /\ Current(w).row \in Rows /\ row[Current(w).row] \in Row
                         /\ Current(w).attempts \in Nat /\ Current(w).attempts < MaxAttempts
         /\ ~AtWork(w) => drain[w].todo = <<>> /\ Len(drain[w].todo) = 0
<1>1. drain[w] \in Run /\ drain[w].todo \in Seq(Item)
  BY DEF DrainInv, TypeOK, Run
<1>2. Len(drain[w].todo) \in Nat /\ DOMAIN drain[w].todo = 1..Len(drain[w].todo)
  BY <1>1
<1>3. \A i \in DOMAIN drain[w].todo : drain[w].todo[i] \in Item /\ drain[w].todo[i].row \in Rows
  <2> SUFFICES ASSUME NEW i \in 1..Len(drain[w].todo)
               PROVE  drain[w].todo[i] \in Item /\ drain[w].todo[i].row \in Rows
    BY <1>2
  <2>1. drain[w].todo[i] \in Item
    BY <1>1, ElementOfSeq
  <2> QED BY <2>1 DEF Item
<1>4. ASSUME AtWork(w)
      PROVE  /\ Len(drain[w].todo) > 0 /\ 1 \in DOMAIN drain[w].todo
             /\ Current(w) = drain[w].todo[1] /\ Current(w) \in Item
             /\ Current(w).row \in Rows /\ row[Current(w).row] \in Row
             /\ Current(w).attempts \in Nat /\ Current(w).attempts < MaxAttempts
  <2>1. drain[w].todo # <<>>
    BY <1>4 DEF DrainInv, RunsFit
  <2>2. Len(drain[w].todo) > 0 /\ 1 \in DOMAIN drain[w].todo /\ Current(w) = drain[w].todo[1]
    BY <1>1, <1>2, <2>1 DEF Current
  <2>3. Current(w) \in Item /\ Current(w).row \in Rows /\ Current(w).attempts < MaxAttempts
    BY <1>3, <2>2 DEF DrainInv, RunsFit
  <2>4. row[Current(w).row] \in Row
    BY <2>3 DEF DrainInv, TypeOK
  <2>5. Current(w).attempts \in Nat
    BY <2>3, Bounds DEF Item
  <2> QED BY <2>2, <2>3, <2>4, <2>5
<1>5. ~AtWork(w) => drain[w].todo = <<>> /\ Len(drain[w].todo) = 0
  BY DEF DrainInv, RunsFit
<1> QED BY <1>1, <1>2, <1>3, <1>4, <1>5

\* A row that is in hand and not in doubt is claimed, or sent by the drain that
\* looks again at it.
LEMMA HandClaimed ==
  ASSUME DrainInv, NEW w \in Drains, NEW i \in DOMAIN drain[w].todo, drain[w].todo[i].row \notin doubt
  PROVE  row[drain[w].todo[i].row].status \in {"sending", "sent"}
  BY DEF DrainInv, HeldFits

\* A drain is done with the row in hand: nobody holds that row any more, unless it
\* was in doubt, and what the drain still holds it held before.
LEMMA HandMovesOn ==
  ASSUME DrainInv, NEW w \in Drains, AtWork(w), NextRow(w), doubt \subseteq doubt'
  PROVE  /\ drain' \in [Drains -> Run] /\ \A z \in Drains : Len(drain'[z].todo) <= Limit
         /\ \A z \in Drains : z # w => drain'[z] = drain[z]
         /\ drain'[w].step \in {"idle", "judging"} /\ drain'[w].keys = {}
         /\ AtWork(w)' <=> drain'[w].todo # <<>>
         /\ \A i \in DOMAIN drain'[w].todo :
              i > 0 /\ i + 1 \in DOMAIN drain[w].todo /\ drain'[w].todo[i] = drain[w].todo[i + 1]
         /\ HeldOnce'
         /\ \A z \in Drains : \A i \in DOMAIN drain'[z].todo :
              drain'[z].todo[i].row = Current(w).row => Current(w).row \in doubt
<1> DEFINE old0 == drain[w].todo
           d == IF Len(old0) = 1 THEN Idle ELSE [step |-> "judging", todo |-> Tail(old0), keys |-> {}]
<1>1. /\ old0 \in Seq(Item) /\ Len(old0) \in Nat /\ Len(old0) > 0 /\ DOMAIN old0 = 1..Len(old0)
      /\ 1 \in DOMAIN old0 /\ Current(w) = old0[1] /\ old0 # <<>> /\ Len(old0) <= Limit
      /\ drain \in [Drains -> Run]
  <2>1. /\ old0 \in Seq(Item) /\ Len(old0) \in Nat /\ Len(old0) > 0 /\ DOMAIN old0 = 1..Len(old0)
        /\ 1 \in DOMAIN old0 /\ Current(w) = old0[1]
    BY InTheHand
  <2> QED BY <2>1 DEF DrainInv, TypeOK
<1>2. drain' = [drain EXCEPT ![w] = d]
  BY <1>1 DEF NextRow
<1>3. /\ d \in Run /\ d.step \in {"idle", "judging"} /\ d.keys = {}
      /\ d.todo \in Seq(Item) /\ Len(d.todo) = Len(old0) - 1
      /\ d.step = "judging" <=> d.todo # <<>>
      /\ \A i \in DOMAIN d.todo : i > 0 /\ i + 1 \in DOMAIN old0 /\ d.todo[i] = old0[i + 1]
  <2> HIDE DEF old0
  <2>1. CASE Len(old0) = 1
    <3>1. d = Idle
      BY <2>1
    <3> QED BY <2>1, <3>1 DEF Idle, Run
  <2>2. CASE Len(old0) # 1
    <3>1. d = [step |-> "judging", todo |-> Tail(old0), keys |-> {}]
      BY <2>2
    <3>2. /\ Tail(old0) \in Seq(Item) /\ Len(Tail(old0)) = Len(old0) - 1
          /\ \A i \in 1..Len(Tail(old0)) : Tail(old0)[i] = old0[i + 1]
      BY <1>1, HeadTailProperties
    <3>3. Tail(old0) # <<>> /\ DOMAIN Tail(old0) = 1..(Len(old0) - 1)
      BY <1>1, <2>2, <3>2
    <3>4. \A i \in DOMAIN Tail(old0) : i > 0 /\ i + 1 \in DOMAIN old0
      BY <1>1, <3>3
    <3> HIDE DEF d
    <3> QED BY <3>1, <3>2, <3>3, <3>4 DEF Run
  <2> QED BY <2>1, <2>2
<1> HIDE DEF d
<1>4. drain' \in [Drains -> Run] /\ drain'[w] = d /\ \A z \in Drains : z # w => drain'[z] = drain[z]
  BY <1>1, <1>2, <1>3
<1>5. \A z \in Drains : Len(drain'[z].todo) <= Limit
  <2> SUFFICES ASSUME NEW z \in Drains PROVE Len(drain'[z].todo) <= Limit
    OBVIOUS
  <2>1. CASE z = w
    BY <1>1, <1>3, <1>4, <2>1, Bounds
  <2>2. CASE z # w
    BY <1>4, <2>2 DEF DrainInv, TypeOK
  <2> QED BY <2>1, <2>2
<1>6. AtWork(w)' <=> drain'[w].todo # <<>>
  BY <1>3, <1>4 DEF AtWork
<1>7. \A z \in Drains : \A i \in DOMAIN drain'[z].todo :
        LET j == IF z = w THEN i + 1 ELSE i
        IN j \in DOMAIN drain[z].todo /\ drain'[z].todo[i] = drain[z].todo[j] /\ (z = w => i > 0)
  BY <1>3, <1>4
<1>8. HeldOnce'
  <2> SUFFICES ASSUME NEW y \in Drains, NEW z \in Drains,
                      NEW i \in DOMAIN drain'[y].todo, NEW j \in DOMAIN drain'[z].todo,
                      drain'[y].todo[i].row = drain'[z].todo[j].row,
                      drain'[y].todo[i].row \notin doubt'
               PROVE  y = z /\ i = j
    BY DEF HeldOnce
  <2> DEFINE a == IF y = w THEN i + 1 ELSE i
             b == IF z = w THEN j + 1 ELSE j
  <2>1. /\ a \in DOMAIN drain[y].todo /\ drain'[y].todo[i] = drain[y].todo[a]
        /\ b \in DOMAIN drain[z].todo /\ drain'[z].todo[j] = drain[z].todo[b]
    BY <1>7
  <2>2. y = z /\ a = b
    <3> HIDE DEF a, b
    <3> QED BY <2>1 DEF DrainInv, HeldOnce
  <2>3. DOMAIN drain'[y].todo \subseteq Nat /\ DOMAIN drain'[z].todo \subseteq Nat
    <3>1. drain'[y].todo \in Seq(Item) /\ drain'[z].todo \in Seq(Item)
      BY <1>4 DEF Run
    <3>2. /\ DOMAIN drain'[y].todo = 1..Len(drain'[y].todo)
          /\ DOMAIN drain'[z].todo = 1..Len(drain'[z].todo)
      BY <3>1
    <3> QED BY <3>2
  <2> QED BY <2>2, <2>3
<1>9. \A z \in Drains : \A i \in DOMAIN drain'[z].todo :
        drain'[z].todo[i].row = Current(w).row => Current(w).row \in doubt
  <2> SUFFICES ASSUME NEW z \in Drains, NEW i \in DOMAIN drain'[z].todo,
                      drain'[z].todo[i].row = old0[1].row, old0[1].row \notin doubt
               PROVE  FALSE
    BY <1>1
  <2> DEFINE a == IF z = w THEN i + 1 ELSE i
  <2>1. a \in DOMAIN drain[z].todo /\ drain'[z].todo[i] = drain[z].todo[a] /\ (z = w => i > 0)
    BY <1>7
  <2>2. z = w /\ a = 1
    <3> HIDE DEF a
    <3> QED BY <1>1, <2>1 DEF DrainInv, HeldOnce
  <2>3. i \in Nat
    <3>1. drain'[z].todo \in Seq(Item)
      BY <1>4 DEF Run
    <3> QED BY <3>1
  <2> QED BY <2>1, <2>2, <2>3
<1> QED BY <1>3, <1>4, <1>5, <1>6, <1>8, <1>9

-----------------------------------------------------------------------------
(* The tasks' doors.                                                        *)

\* A message is queued.
LEMMA Notifies ==
  ASSUME DrainInv, NEW r \in Rows, NEW u \in Users, NEW S \in SUBSET Tasks, Notify(r, u, S)
  PROVE  DrainInv'
<1> DEFINE n == [NoRow EXCEPT !.status = "pending", !.list = S, !.user = u]
<1> USE DEF DrainInv
<1>1. /\ row[r].status = "absent" /\ row' = [row EXCEPT ![r] = n] /\ \A t \in S : u \in held[t]
      /\ UNCHANGED <<old, task, held, drain, paused, chat, retires, doors, unedited, doubt>>
  BY DEF Notify, taskVars, sideVars
<1>2. n \in Row /\ n.status = "pending" /\ n.attempts = 0 /\ n.list = S /\ n.user = u
  <2>1. NoRow \in Row /\ NoRow.attempts = 0
    BY Bounds DEF NoRow, Row, Statuses
  <2>2. u \in Users \cup {None} /\ "pending" \in Statuses
    BY DEF Statuses
  <2> QED BY Zenon, <2>1, <2>2 DEF Row
<1> HIDE DEF n
<1>3. row' \in [Rows -> Row] /\ row'[r] = n /\ \A q \in Rows : q # r => row'[q] = row[q]
  BY <1>1, <1>2 DEF TypeOK
<1>4. TypeOK'
  BY <1>1, <1>3 DEF TypeOK
<1>5. \A q \in Rows : row[q].list \subseteq row'[q].list
  BY <1>1, <1>3 DEF RowsFit
<1>6. RunsFit'
  <2> SUFFICES ASSUME NEW w \in Drains
               PROVE  drain[w].step \in {"sending", "settling", "looking"} =>
                        drain[w].keys \subseteq row'[Current(w).row].list
    BY <1>1 DEF RunsFit, AtWork, Delivered, Current
  <2>1. AtWork(w) => Current(w).row \in Rows
    BY InTheHand
  <2> QED BY <1>5, <2>1 DEF RunsFit, AtWork
<1>7. RowsFit'
  BY <1>1, <1>2, <1>3, Bounds DEF RowsFit
<1>8. HeldFits'
  <2>1. ASSUME NEW w \in Drains, NEW i \in DOMAIN drain[w].todo, drain[w].todo[i].row \notin doubt
        PROVE  row'[drain[w].todo[i].row] = row[drain[w].todo[i].row]
    <3>1. drain[w].todo[i].row \in Rows
      BY InTheHand
    <3>2. drain[w].todo[i].row # r
      BY <1>1, <2>1, HandClaimed
    <3> QED BY <1>3, <3>1, <3>2
  <2> QED BY <1>1, <2>1 DEF HeldFits, Delivered
<1>9. HeldOnce' /\ OldInDoubt' /\ EditsFit' /\ SentOnce'
  BY <1>1 DEF HeldOnce, OldInDoubt, EditsFit, SentOnce
<1>10. \A q \in Rows \ doubt : chat[q] # <<>> => row'[q] = row[q]
  BY <1>1, <1>3 DEF ChatFits
<1>11. ChatFits'
  <2> SUFFICES ASSUME NEW q \in Rows, q \notin doubt
               PROVE  /\ row'[q].status \notin {"sending", "sent"} => chat[q] = <<>>
                      /\ row'[q].status = "sent" => row'[q].tg = 1
                      /\ chat[q] # <<>> /\ row'[q].status # "sent" =>
                           \E w \in Drains : Delivered(w) /\ Current(w).row = q
                      /\ chat[q] # <<>> /\ q \notin Digests => chat[q][1] \subseteq row'[q].list
    BY <1>1 DEF ChatFits, Delivered, Current
  <2>1. CASE q = r
    BY <1>1, <1>2, <1>3, <2>1 DEF ChatFits
  <2>2. CASE q # r
    BY <1>3, <2>2 DEF ChatFits
  <2> QED BY <2>1, <2>2
<1>12. ButtonsCovered'
  BY <1>1, <1>10 DEF ButtonsCovered, Covers, Delivered, Current
<1> QED BY <1>4, <1>6, <1>7, <1>8, <1>9, <1>11, <1>12

\* A task closes, or is handed on: whoever has its button will lose it.
LEMMA TaskChanges ==
  ASSUME DrainInv, NEW t \in Tasks, Close(t) \/ \E u \in Users : Reassign(t, u)
  PROVE  DrainInv'
<1> USE DEF DrainInv
<1>1. PICK scope \in SUBSET Rows, spare \in SUBSET Users :
        /\ retires' = retires \cup {[step |-> "mute", about |-> {t}, scope |-> scope,
                                     spare |-> spare, edits |-> {}]}
        /\ doors' \in 0..MaxRetires
        /\ task' \in [Tasks -> [open: BOOLEAN, holder: Users]]
        /\ held' \in [Tasks -> SUBSET Users]
        /\ \A k \in Tasks : held[k] \subseteq held'[k]
        /\ \A k \in Tasks : k # t => task'[k] = task[k]
        /\ \A r \in Rows : row[r].status # "absent" => r \in scope
        /\ \A r \in Rows : ~(task'[t].open /\ task'[t].holder = row[r].user) =>
             row[r].user \notin spare
        /\ UNCHANGED <<row, old, drain, paused, chat, doubt, unedited>>
  <2>0. doors \in 0..MaxRetires /\ (doors < MaxRetires => doors + 1 \in 0..MaxRetires)
    BY Bounds DEF TypeOK
  <2>1. CASE Close(t)
    <3>1. /\ retires' = retires \cup {[step |-> "mute", about |-> {t}, scope |-> Rows,
                                       spare |-> {}, edits |-> {}]}
          /\ doors < MaxRetires /\ doors' = doors + 1
          /\ task' = [task EXCEPT ![t].open = FALSE] /\ held' = held
          /\ UNCHANGED <<row, old, drain, paused, chat, doubt, unedited>>
      BY <2>1 DEF Close, Begun, rowVars
    <3>2. /\ task' \in [Tasks -> [open: BOOLEAN, holder: Users]]
          /\ \A k \in Tasks : k # t => task'[k] = task[k]
      BY Zenon, <3>1 DEF TypeOK
    <3>3. /\ held' \in [Tasks -> SUBSET Users] /\ doors' \in 0..MaxRetires
          /\ \A k \in Tasks : held[k] \subseteq held'[k]
          /\ \A r \in Rows : row[r].user \notin {}
      BY <2>0, <3>1 DEF TypeOK
    <3>4. Rows \in SUBSET Rows /\ {} \in SUBSET Users
      OBVIOUS
    <3> QED BY Zenon, <3>1, <3>2, <3>3, <3>4
  <2>2. CASE \E u \in Users : Reassign(t, u)
    <3>0. PICK u \in Users : Reassign(t, u)
      BY <2>2
    <3> DEFINE scope == {r \in Rows : row[r].status # "absent"}
    <3>1. /\ retires' = retires \cup {[step |-> "mute", about |-> {t}, scope |-> scope,
                                       spare |-> {u}, edits |-> {}]}
          /\ doors < MaxRetires /\ doors' = doors + 1
          /\ task' = [task EXCEPT ![t].holder = u] /\ held' = [held EXCEPT ![t] = @ \cup {u}]
          /\ task[t].open
          /\ UNCHANGED <<row, old, drain, paused, chat, doubt, unedited>>
      BY <3>0 DEF Reassign, Begun, rowVars
    <3>2. /\ task' \in [Tasks -> [open: BOOLEAN, holder: Users]]
          /\ \A k \in Tasks : k # t => task'[k] = task[k]
          /\ task'[t].open = task[t].open /\ task'[t].holder = u
      BY Zenon, <3>1 DEF TypeOK
    <3>3. /\ held' \in [Tasks -> SUBSET Users]
          /\ \A k \in Tasks : held[k] \subseteq held'[k]
      BY <3>1 DEF TypeOK
    <3>4. \A r \in Rows : ~(task'[t].open /\ task'[t].holder = row[r].user) => row[r].user \notin {u}
      BY <3>1, <3>2
    <3>5. scope \in SUBSET Rows /\ {u} \in SUBSET Users
      OBVIOUS
    <3>6. \A r \in Rows : row[r].status # "absent" => r \in scope
      OBVIOUS
    <3>7. doors' \in 0..MaxRetires
      BY <2>0, <3>1
    <3> HIDE DEF scope
    <3> QED BY Zenon, <3>1, <3>2, <3>3, <3>4, <3>5, <3>6, <3>7
  <2> QED BY Zenon, <2>1, <2>2
<1> DEFINE x == [step |-> "mute", about |-> {t}, scope |-> scope, spare |-> spare, edits |-> {}]
<1>2. x \in Retire /\ x.edits = {} /\ x.step = "mute" /\ x.about = {t} /\ x.scope = scope /\ x.spare = spare
  BY DEF Retire
<1>3. retires' = retires \cup {x}
  BY <1>1
<1> HIDE DEF x
<1>4. TypeOK'
  BY Zenon, <1>1, <1>2, <1>3 DEF TypeOK
<1>5. RunsFit' /\ HeldFits' /\ HeldOnce' /\ OldInDoubt' /\ ChatFits' /\ SentOnce'
  BY <1>1 DEF RunsFit, HeldFits, HeldOnce, OldInDoubt, ChatFits, SentOnce, AtWork, Delivered, Current
<1>6. RowsFit'
  <2> SUFFICES ASSUME NEW r \in Rows, NEW k \in row[r].list PROVE row[r].user \in held'[k]
    BY <1>1 DEF RowsFit
  <2>1. row[r].list \subseteq Tasks
    BY DEF TypeOK, Row
  <2> QED BY <1>1, <2>1 DEF RowsFit
<1>7. EditsFit'
  BY <1>2, <1>3 DEF EditsFit
<1>8. ButtonsCovered'
  <2> SUFFICES ASSUME NEW r \in Rows, r \notin Digests, r \notin doubt, r \notin unedited, NEW k \in Tasks,
                      chat[r] # <<>>, k \in chat[r][1],
                      ~(task'[k].open /\ task'[k].holder = row[r].user),
                      ~\E w \in Drains : Delivered(w) /\ Current(w).row = r
               PROVE  \E y \in retires' : Covers(y, r, k)'
    BY Zenon, <1>1 DEF ButtonsCovered, Delivered, Current
  <2>1. CASE task[k].open /\ task[k].holder = row[r].user
    <3>1. k = t
      BY <1>1, <2>1
    <3>2. k \in row[r].list /\ row[r].status # "absent"
      BY DEF ChatFits
    <3>3. row[r].user \in held[k]
      BY <3>2 DEF RowsFit
    <3>4. r \in scope /\ row[r].user \in held'[k] \ spare
      BY <1>1, <3>1, <3>2, <3>3
    <3> QED BY <1>1, <1>2, <1>3, <3>1, <3>4 DEF Covers
  <2>2. CASE ~(task[k].open /\ task[k].holder = row[r].user)
    <3>1. PICK y \in retires : Covers(y, r, k)
      BY <2>2 DEF ButtonsCovered
    <3> QED BY <1>1, <1>3, <3>1 DEF Covers
  <2> QED BY <2>1, <2>2
<1> QED BY <1>4, <1>5, <1>6, <1>7, <1>8

-----------------------------------------------------------------------------
(* Retirements.                                                             *)

\* Copies not sent yet are muted.
LEMMA MutesCopies ==
  ASSUME DrainInv, NEW x \in retires, MuteCopies(x)
  PROVE  DrainInv'
<1> DEFINE y == [x EXCEPT !.step = "read"]
<1> USE DEF DrainInv
<1>1. /\ x.step = "mute" /\ retires' = (retires \ {x}) \cup {y}
      /\ UNCHANGED <<old, task, held, drain, paused, chat, doors, doubt, unedited>>
      /\ row' = [r \in Rows |->
           IF r \in Scope(x) \ Digests /\ row[r].status = "pending" /\ row[r].list \subseteq x.about
             THEN [row[r] EXCEPT !.status = "muted"] ELSE row[r]]
  BY DEF MuteCopies, taskVars
<1>2. /\ y \in Retire /\ y.edits = x.edits /\ y.about = x.about /\ y.scope = x.scope
      /\ y.spare = x.spare /\ y.step = "read"
  BY Zenon DEF TypeOK, Retire
<1> HIDE DEF y
<1>3. \A r \in Rows : row[r] \in Row /\ (row'[r] = row[r] \/ (/\ row[r].status = "pending"
                                                             /\ row'[r] = [row[r] EXCEPT !.status = "muted"]))
  BY <1>1 DEF TypeOK
<1>4. \A r \in Rows : /\ row'[r] \in Row /\ row'[r].list = row[r].list /\ row'[r].user = row[r].user
                      /\ row'[r].attempts = row[r].attempts /\ row'[r].tg = row[r].tg
                      /\ row'[r].status = row[r].status \/ row[r].status = "pending"
                      /\ row'[r].status = row[r].status \/ row'[r].status = "muted"
  BY Zenon, <1>3 DEF Row, Statuses
<1>5. TypeOK'
  <2>1. row' \in [Rows -> Row]
    BY <1>1, <1>4
  <2> QED BY <1>1, <1>2, <2>1 DEF TypeOK
<1>6. RunsFit'
  <2> SUFFICES ASSUME NEW w \in Drains
               PROVE  drain[w].step \in {"sending", "settling", "looking"} =>
                        drain[w].keys \subseteq row'[Current(w).row].list
    BY <1>1 DEF RunsFit, AtWork, Delivered, Current
  <2>1. AtWork(w) => Current(w).row \in Rows
    BY InTheHand
  <2> QED BY <1>4, <2>1 DEF RunsFit, AtWork
<1>7. RowsFit'
  BY <1>1, <1>4 DEF RowsFit
<1>8. HeldFits'
  <2>1. ASSUME NEW w \in Drains, NEW i \in DOMAIN drain[w].todo, drain[w].todo[i].row \notin doubt
        PROVE  row'[drain[w].todo[i].row].status = row[drain[w].todo[i].row].status
    <3>1. drain[w].todo[i].row \in Rows
      BY InTheHand
    <3>2. row[drain[w].todo[i].row].status # "pending"
      BY <2>1, HandClaimed
    <3> QED BY <1>4, <3>1, <3>2
  <2> QED BY <1>1, <2>1 DEF HeldFits, Delivered
<1>9. HeldOnce' /\ OldInDoubt' /\ SentOnce'
  BY <1>1 DEF HeldOnce, OldInDoubt, SentOnce
<1>10. EditsFit'
  BY <1>1, <1>2 DEF EditsFit
<1>11. ChatFits'
  BY <1>1, <1>4 DEF ChatFits, Delivered, Current
<1>12. ButtonsCovered'
  <2> SUFFICES ASSUME NEW r \in Rows, NEW k \in Tasks, NEW z \in retires, Covers(z, r, k)
               PROVE  \E a \in retires' : Covers(a, r, k)'
    BY <1>1, <1>4 DEF ButtonsCovered, Delivered, Current
  <2>1. CASE z = x
    BY <1>1, <1>2, <1>4, <2>1 DEF Covers
  <2>2. CASE z # x
    BY <1>1, <1>4, <2>2 DEF Covers
  <2> QED BY <2>1, <2>2
<1> QED BY <1>5, <1>6, <1>7, <1>8, <1>9, <1>10, <1>11, <1>12

\* The sent copies are read: one that has the button of a task this retirement is
\* about is among them, unless its drain has yet to look again.
LEMMA ReadsCopies ==
  ASSUME DrainInv, NEW x \in retires, ReadCopies(x)
  PROVE  DrainInv'
<1> DEFINE sent == {r \in Scope(x) : row[r].status = "sent" /\ row[r].list \cap x.about # {}}
           ed(r) == [row |-> r, msg |-> row[r].tg,
                     keys |-> IF r \in Digests THEN Mine(row[r].list, row[r].user) ELSE {}]
           y == [x EXCEPT !.step = "edit", !.edits = {ed(r) : r \in sent}]
<1> USE DEF DrainInv
<1>1. /\ x.step = "read" /\ retires' = (retires \ {x}) \cup (IF sent = {} THEN {} ELSE {y})
      /\ UNCHANGED <<row, old, task, held, drain, paused, chat, doors, doubt, unedited>>
  BY Zenon DEF ReadCopies, taskVars, rowVars
<1>2. x \in Retire /\ x.scope \subseteq Rows
  BY DEF TypeOK, Retire
<1>3. \A r \in sent : r \in Rows /\ ed(r) \in Edit /\ ed(r).row = r /\ (r \notin Digests => ed(r).keys = {})
  <2> SUFFICES ASSUME NEW r \in sent
               PROVE  r \in Rows /\ ed(r) \in Edit /\ ed(r).row = r /\ (r \notin Digests => ed(r).keys = {})
    OBVIOUS
  <2>1. r \in Rows /\ row[r].status = "sent" /\ row[r] \in Row
    BY <1>2 DEF Scope, TypeOK
  <2>2. row[r].tg \in 1..MaxSends
    BY <2>1, Bounds DEF RowsFit, Row
  <2>3. Mine(row[r].list, row[r].user) \subseteq Tasks
    BY <2>1 DEF Mine, Row
  <2> QED BY <2>1, <2>2, <2>3 DEF Edit
<1>4. /\ y \in Retire /\ y.edits = {ed(r) : r \in sent} /\ y.about = x.about /\ y.scope = x.scope
      /\ y.spare = x.spare /\ y.step = "edit"
  <2> DEFINE es == {ed(r) : r \in sent}
  <2>1. es \in SUBSET Edit
    BY <1>3
  <2>2. y = [x EXCEPT !.step = "edit", !.edits = es]
    OBVIOUS
  <2> HIDE DEF es, y
  <2>3. /\ y \in Retire /\ y.edits = es /\ y.about = x.about /\ y.scope = x.scope
        /\ y.spare = x.spare /\ y.step = "edit"
    BY Zenon, <1>2, <2>1, <2>2 DEF Retire
  <2> QED BY <2>3 DEF es
<1> HIDE DEF y
<1>5. TypeOK'
  BY <1>1, <1>4 DEF TypeOK
<1>6. RunsFit' /\ RowsFit' /\ HeldFits' /\ HeldOnce' /\ OldInDoubt' /\ ChatFits' /\ SentOnce'
  BY <1>1 DEF RunsFit, RowsFit, HeldFits, HeldOnce, OldInDoubt, ChatFits, SentOnce, AtWork, Delivered,
     Current
<1>7. EditsFit'
  <2> SUFFICES ASSUME NEW z \in retires', NEW e \in z.edits, e.row \notin Digests PROVE e.keys = {}
    BY DEF EditsFit
  <2>1. CASE z = y
    BY <1>3, <1>4, <2>1
  <2>2. CASE z \in retires
    BY <2>2 DEF EditsFit
  <2> QED BY <1>1, <2>1, <2>2
<1>8. ButtonsCovered'
  <2> SUFFICES ASSUME NEW r \in Rows, r \notin Digests, r \notin doubt, NEW k \in Tasks,
                      chat[r] # <<>>, k \in chat[r][1],
                      ~\E w \in Drains : Delivered(w) /\ Current(w).row = r,
                      NEW z \in retires, Covers(z, r, k)
               PROVE  \E a \in retires' : Covers(a, r, k)'
    BY <1>1 DEF ButtonsCovered, Delivered, Current
  <2>1. CASE z = x
    <3>1. row[r].status = "sent" /\ row[r].tg = 1 /\ k \in row[r].list
      BY DEF ChatFits
    <3>2. k \in x.about /\ r \in x.scope /\ row[r].user \in held[k] \ x.spare
      BY <2>1 DEF Covers
    <3>3. r \in sent
      BY <3>1, <3>2 DEF Scope
    <3>4. ed(r) = [row |-> r, msg |-> 1, keys |-> {}]
      BY <3>1
    <3>5. y \in retires' /\ ed(r) \in y.edits
      BY Zenon, <1>1, <1>4, <3>3
    <3> QED BY Zenon, <1>1, <1>4, <3>2, <3>4, <3>5 DEF Covers
  <2>2. CASE z # x
    BY <1>1, <2>2 DEF Covers
  <2> QED BY <2>1, <2>2
<1> QED BY <1>5, <1>6, <1>7, <1>8

\* A message is edited, or Telegram refuses.
LEMMA EditsCopy ==
  ASSUME DrainInv, NEW x \in retires, NEW e \in x.edits, EditCopy(x, e)
  PROVE  DrainInv'
<1> DEFINE rest == x.edits \ {e}
           y == [x EXCEPT !.edits = rest]
<1> USE DEF DrainInv
<1>1. /\ x.step = "edit" /\ retires' = (retires \ {x}) \cup (IF rest = {} THEN {} ELSE {y})
      /\ UNCHANGED <<row, old, task, held, drain, paused, doors, doubt>>
      /\ \/ chat' = [chat EXCEPT ![e.row] = [chat[e.row] EXCEPT ![e.msg] = e.keys]] /\ UNCHANGED unedited
         \/ unedited' = unedited \cup {e.row} /\ UNCHANGED chat
  BY DEF EditCopy, taskVars, rowVars
<1>2. x \in Retire /\ x.edits \subseteq Edit /\ e \in Edit /\ e.row \in Rows /\ e.msg \in 1..MaxSends
      /\ e.keys \in SUBSET Tasks
  BY DEF TypeOK, Retire, Edit
<1>3. /\ y \in Retire /\ y.edits = rest /\ y.about = x.about /\ y.scope = x.scope
      /\ y.spare = x.spare /\ y.step = "edit"
  BY <1>1, <1>2 DEF Retire
<1> HIDE DEF y
<1>4. /\ chat' \in [Rows -> Seq(SUBSET Tasks)] /\ unedited \subseteq unedited' /\ unedited' \subseteq Rows
      /\ \A r \in Rows : /\ Len(chat'[r]) = Len(chat[r]) /\ (chat'[r] = <<>> <=> chat[r] = <<>>)
                         /\ r # e.row => chat'[r] = chat[r]
      /\ chat[e.row] # <<>> => chat'[e.row][1] = chat[e.row][1] \/ chat'[e.row][1] = e.keys
      /\ \/ chat[e.row] # <<>> /\ e.msg = 1 => chat'[e.row][1] = e.keys
         \/ e.row \in unedited'
  <2>1. chat[e.row] \in Seq(SUBSET Tasks) /\ chat \in [Rows -> Seq(SUBSET Tasks)]
    BY <1>2 DEF TypeOK
  <2>2. CASE chat' = [chat EXCEPT ![e.row] = [chat[e.row] EXCEPT ![e.msg] = e.keys]] /\ UNCHANGED unedited
    <3> DEFINE s == [chat[e.row] EXCEPT ![e.msg] = e.keys]
    <3>1. Len(chat[e.row]) \in Nat /\ chat[e.row] \in [1..Len(chat[e.row]) -> SUBSET Tasks]
      BY <2>1
    <3>2. /\ s \in [1..Len(chat[e.row]) -> SUBSET Tasks]
          /\ \A i \in 1..Len(chat[e.row]) : s[i] = IF i = e.msg THEN e.keys ELSE chat[e.row][i]
      BY Zenon, <1>2, <3>1
    <3>3. s \in Seq(SUBSET Tasks) /\ Len(s) = Len(chat[e.row])
      BY <3>1, <3>2
    <3>4. chat[e.row] # <<>> <=> Len(chat[e.row]) # 0
      BY <2>1
    <3>5. s # <<>> <=> Len(s) # 0
      BY <3>3
    <3>6. chat' = [chat EXCEPT ![e.row] = s]
      BY <2>2
    <3>7. chat[e.row] # <<>> => s[1] = IF 1 = e.msg THEN e.keys ELSE chat[e.row][1]
      BY <3>1, <3>2, <3>4
    <3> HIDE DEF s
    <3>8. chat' \in [Rows -> Seq(SUBSET Tasks)] /\ chat'[e.row] = s
          /\ \A r \in Rows : r # e.row => chat'[r] = chat[r]
      BY <1>2, <2>1, <3>3, <3>6
    <3> QED BY <2>2, <3>3, <3>4, <3>5, <3>7, <3>8 DEF TypeOK
  <2>3. CASE unedited' = unedited \cup {e.row} /\ UNCHANGED chat
    BY <1>2, <2>1, <2>3 DEF TypeOK
  <2> QED BY <1>1, <2>2, <2>3
<1>5. TypeOK'
  BY <1>1, <1>3, <1>4 DEF TypeOK
<1>6. EditsFit'
  BY <1>1, <1>3 DEF EditsFit
<1>7. \A r \in Rows : r \notin Digests /\ chat[r] # <<>> => chat'[r][1] \subseteq chat[r][1]
  <2>1. e.row \notin Digests => e.keys = {}
    BY DEF EditsFit
  <2> QED BY <1>4, <2>1
<1>8. RunsFit'
  <2> SUFFICES ASSUME NEW w \in Drains, Delivered(w) PROVE chat'[Current(w).row] # <<>>
    BY <1>1 DEF RunsFit, AtWork, Delivered, Current
  <2>1. Current(w).row \in Rows
    BY InTheHand DEF AtWork, Delivered
  <2> QED BY <1>4, <2>1 DEF RunsFit
<1>9. RowsFit' /\ HeldOnce' /\ OldInDoubt'
  BY <1>1 DEF RowsFit, HeldOnce, OldInDoubt
<1>10. HeldFits'
  <2> SUFFICES ASSUME NEW w \in Drains, NEW i \in DOMAIN drain[w].todo, NEW r \in Rows,
                      r = drain[w].todo[i].row, r \notin doubt
               PROVE  /\ row[r].status = IF i = 1 /\ drain[w].step = "looking" THEN "sent" ELSE "sending"
                      /\ Len(chat'[r]) = IF i = 1 /\ Delivered(w) THEN 1 ELSE 0
                      /\ i = 1 /\ Delivered(w) /\ r \notin Digests => chat'[r][1] \subseteq drain[w].keys
    BY <1>1, InTheHand DEF HeldFits, Delivered
  <2>1. /\ row[r].status = IF i = 1 /\ drain[w].step = "looking" THEN "sent" ELSE "sending"
        /\ Len(chat[r]) = IF i = 1 /\ Delivered(w) THEN 1 ELSE 0
        /\ i = 1 /\ Delivered(w) /\ r \notin Digests => chat[r][1] \subseteq drain[w].keys
    BY DEF HeldFits
  <2>2. i = 1 /\ Delivered(w) => chat[r] # <<>>
    BY InTheHand DEF RunsFit, Delivered, AtWork
  <2> QED BY <1>4, <1>7, <2>1, <2>2
<1>11. ChatFits'
  <2> SUFFICES ASSUME NEW r \in Rows, r \notin doubt
               PROVE  /\ row[r].status \notin {"sending", "sent"} => chat'[r] = <<>>
                      /\ row[r].status = "sent" => row[r].tg = 1
                      /\ chat'[r] # <<>> /\ row[r].status # "sent" =>
                           \E w \in Drains : Delivered(w) /\ Current(w).row = r
                      /\ chat'[r] # <<>> /\ r \notin Digests => chat'[r][1] \subseteq row[r].list
    BY <1>1 DEF ChatFits, Delivered, Current
  <2> QED BY <1>4, <1>7 DEF ChatFits
<1>12. SentOnce'
  BY <1>1, <1>4 DEF SentOnce
<1>13. ButtonsCovered'
  <2> SUFFICES ASSUME NEW r \in Rows, r \notin Digests, r \notin doubt, r \notin unedited', NEW k \in Tasks,
                      chat'[r] # <<>>, k \in chat'[r][1],
                      ~(task[k].open /\ task[k].holder = row[r].user),
                      ~\E w \in Drains : Delivered(w) /\ Current(w).row = r
               PROVE  \E a \in retires' : Covers(a, r, k)'
    BY <1>1 DEF ButtonsCovered, Delivered, Current
  <2>1. r \notin unedited /\ chat[r] # <<>> /\ k \in chat[r][1]
    BY <1>4, <1>7
  <2>2. PICK z \in retires : Covers(z, r, k)
    BY <2>1 DEF ButtonsCovered
  <2>3. CASE z = x
    <3> DEFINE c == [row |-> r, msg |-> 1, keys |-> {}]
    <3>1. c \in x.edits
      BY <1>1, <2>2, <2>3 DEF Covers
    <3>2. c # e
      <4> SUFFICES ASSUME c = e PROVE FALSE
        OBVIOUS
      <4>1. e.row = r /\ e.msg = 1 /\ e.keys = {}
        OBVIOUS
      <4> QED BY <1>4, <2>1, <4>1
    <3>3. y \in retires' /\ c \in y.edits
      BY <1>1, <1>3, <3>1, <3>2
    <3> QED BY <1>1, <1>3, <2>2, <2>3, <3>3 DEF Covers
  <2>4. CASE z # x
    BY <1>1, <2>2, <2>4 DEF Covers
  <2> QED BY <2>3, <2>4
<1> QED BY <1>5, <1>6, <1>8, <1>9, <1>10, <1>11, <1>12, <1>13

\* Ten minutes pass over a claimed row, or Telegram's wait is over.
LEMMA TimePasses ==
  ASSUME DrainInv, Resume \/ \E r \in Rows : Age(r)
  PROVE  DrainInv'
<1> USE DEF DrainInv
<1>1. CASE Resume
  <2>1. UNCHANGED <<row, old, task, held, drain, chat, retires, doors, unedited, doubt>> /\ paused' \in BOOLEAN
    BY Zenon, <1>1 DEF Resume, rowVars, taskVars, sideVars
  <2>2. TypeOK'
    BY <2>1 DEF TypeOK
  <2> QED BY <2>1, <2>2 DEF RunsFit, RowsFit, HeldFits, HeldOnce, OldInDoubt, ChatFits, SentOnce, AtWork,
      Delivered, Current, EditsFit, ButtonsCovered, Covers
<1>2. CASE \E r \in Rows : Age(r)
  <2>1. PICK r \in Rows : /\ old' = old \cup {r} /\ doubt' = doubt \cup {r}
                          /\ UNCHANGED <<row, task, held, drain, paused, chat, retires, doors, unedited>>
    BY <1>2 DEF Age, taskVars, sideVars
  <2>2. TypeOK'
    BY <2>1 DEF TypeOK
  <2>3. RunsFit' /\ RowsFit' /\ EditsFit' /\ OldInDoubt' /\ SentOnce'
    BY <2>1 DEF RunsFit, RowsFit, EditsFit, OldInDoubt, SentOnce, AtWork, Delivered, Current
  <2>4. HeldFits' /\ HeldOnce'
    BY <2>1 DEF HeldFits, HeldOnce, Delivered
  <2>5. ChatFits'
    BY <2>1 DEF ChatFits, Delivered, Current
  <2>6. ButtonsCovered'
    BY <2>1 DEF ButtonsCovered, Covers, Delivered, Current
  <2> QED BY <2>2, <2>3, <2>4, <2>5, <2>6
<1> QED BY <1>1, <1>2

-----------------------------------------------------------------------------
(* A drain begins.                                                          *)

\* What is taken back has an attempt left to count, and is in doubt.
LEMMA Reclaims ==
  ASSUME DrainInv, NEW w \in Drains, Reclaim(w)
  PROVE  DrainInv'
<1> DEFINE S == {r \in old : row[r].status = "sending"}
           back(r) == [row[r] EXCEPT !.status = Spent(row[r].attempts), !.attempts = row[r].attempts + 1]
           d == [drain[w] EXCEPT !.step = "claiming"]
<1> USE DEF DrainInv
<1>1. /\ drain[w].step \in {"idle", "dead"} /\ old' = old \ S
      /\ row' = [r \in Rows |-> IF r \in S THEN back(r) ELSE row[r]]
      /\ drain' = [drain EXCEPT ![w] = d]
      /\ UNCHANGED <<task, held, paused, chat, retires, doors, unedited, doubt>>
  BY Zenon DEF Reclaim, TakeBack, Go, taskVars, sideVars
<1>2. /\ drain \in [Drains -> Run] /\ drain[w] \in Run /\ ~AtWork(w) /\ drain[w].todo = <<>>
      /\ row \in [Rows -> Row] /\ S \subseteq Rows /\ S \subseteq doubt
  BY Zenon, <1>1, InTheHand DEF TypeOK, AtWork, OldInDoubt
<1>3. d \in Run /\ d.step = "claiming" /\ d.todo = <<>>
  BY <1>2 DEF Run
<1> HIDE DEF d
<1>4. drain' \in [Drains -> Run] /\ drain'[w] = d /\ \A z \in Drains : z # w => drain'[z] = drain[z]
  BY Zenon, <1>1, <1>2, <1>3
<1>5. ASSUME NEW r \in S
      PROVE  /\ back(r) \in Row /\ back(r).list = row[r].list /\ back(r).user = row[r].user
             /\ back(r).status \in {"pending", "failed"}
             /\ back(r).status = "pending" => back(r).attempts < MaxAttempts
  <2> DEFINE n == row[r].attempts + 1
             s == Spent(row[r].attempts)
  <2>1. r \in Rows /\ row[r].status = "sending" /\ row[r] \in Row
    BY <1>2
  <2>2. /\ n \in 0..MaxAttempts /\ s \in {"pending", "failed"}
        /\ s = "pending" => n < MaxAttempts
    BY <2>1, Bounds DEF Row, RowsFit, Spent
  <2>3. back(r) = [row[r] EXCEPT !.status = s, !.attempts = n]
    OBVIOUS
  <2> HIDE DEF s, n
  <2> QED BY Zenon, <2>1, <2>2, <2>3 DEF Row, Statuses
<1> HIDE DEF back
<1>6. \A r \in Rows : /\ row'[r] \in Row /\ row'[r].list = row[r].list /\ row'[r].user = row[r].user
                      /\ r \notin S => row'[r] = row[r]
                      /\ r \in S => /\ row'[r].status \in {"pending", "failed"}
                                    /\ row'[r].status = "pending" => row'[r].attempts < MaxAttempts
  BY <1>1, <1>2, <1>5
<1> HIDE DEF S
<1>7. TypeOK'
  <2>1. row' \in [Rows -> Row]
    BY <1>1, <1>6
  <2>2. \A z \in Drains : Len(drain'[z].todo) <= Limit
    BY Zenon, <1>2, <1>3, <1>4 DEF TypeOK
  <2> QED BY <1>1, <1>4, <2>1, <2>2 DEF TypeOK
<1>8. RunsFit'
  <2> SUFFICES ASSUME NEW z \in Drains
               PROVE  /\ AtWork(z)' <=> drain'[z].todo # <<>>
                      /\ \A i \in DOMAIN drain'[z].todo : drain'[z].todo[i].attempts < MaxAttempts
                      /\ Delivered(z)' => chat'[Current(z)'.row] # <<>>
                      /\ drain'[z].step \in {"sending", "settling", "looking"} =>
                           drain'[z].keys \subseteq row'[Current(z)'.row].list
    BY DEF RunsFit
  <2>1. CASE z = w
    BY <1>2, <1>3, <1>4, <2>1 DEF AtWork, Delivered
  <2>2. CASE z # w
    <3>1. AtWork(z) => Current(z).row \in Rows
      BY InTheHand
    <3> QED BY <1>1, <1>4, <1>6, <2>2, <3>1 DEF RunsFit, AtWork, Delivered, Current
  <2> QED BY <2>1, <2>2
<1>9. RowsFit'
  BY <1>1, <1>6 DEF RowsFit
<1>10. \A z \in Drains : \A i \in DOMAIN drain'[z].todo :
         z # w /\ i \in DOMAIN drain[z].todo /\ drain'[z] = drain[z] /\ drain[z].todo[i].row \in Rows
  BY <1>3, <1>4, InTheHand
<1>11. HeldFits'
  BY <1>1, <1>2, <1>6, <1>10 DEF HeldFits, Delivered
<1>12. HeldOnce'
  BY <1>1, <1>10 DEF HeldOnce
<1>13. OldInDoubt' /\ EditsFit' /\ SentOnce'
  BY <1>1 DEF OldInDoubt, EditsFit, SentOnce
<1>14. \A z \in Drains : Delivered(z) => z # w
  BY <1>1 DEF Delivered
<1>15. ChatFits'
  BY <1>1, <1>2, <1>4, <1>6, <1>14 DEF ChatFits, Delivered, Current
<1>16. ButtonsCovered'
  BY <1>1, <1>4, <1>6, <1>14 DEF ButtonsCovered, Covers, Delivered, Current
<1> QED BY <1>7, <1>8, <1>9, <1>11, <1>12, <1>13, <1>15, <1>16

\* The batch, put in order, is no longer than the limit and names no row twice.
LEMMA BatchFits ==
  ASSUME DrainInv, NEW q \in SetToSeqs(Batch), Oldest(q)
  PROVE  /\ Batch \subseteq Rows
         /\ Len(q) \in Nat /\ DOMAIN q = 1..Len(q) /\ Len(q) <= Limit
         /\ \A i \in 1..Len(q) : q[i] \in Batch
         /\ \A i, j \in 1..Len(q) : q[i] = q[j] => i = j
         /\ (q = <<>> <=> Len(q) = 0)
         /\ Reading(q) \in Seq(Item) /\ Len(Reading(q)) = Len(q)
         /\ \A i \in 1..Len(q) : /\ Reading(q)[i].row = q[i]
                                 /\ Reading(q)[i].attempts < MaxAttempts
<1> DEFINE n == Cardinality(Batch)
<1> USE DEF DrainInv
<1>1. Ready \subseteq Rows /\ Batch \subseteq Ready /\ IsFiniteSet(Rows)
  <2>1. Ready \subseteq Rows
    BY DEF Ready
  <2>2. Batch \subseteq Ready
    BY DEF Batch
  <2>3. IsFiniteSet(Rows)
    <3>1. LastRow \in Int /\ 1 \in Int
      BY Bounds
    <3> QED BY <3>1, FS_Interval DEF Rows
  <2> QED BY <2>1, <2>2, <2>3
<1>2. IsFiniteSet(Ready) /\ IsFiniteSet(Batch)
  BY <1>1, FS_Subset
<1>3. n \in Nat
  BY <1>2, FS_CardinalityType
<1>4. /\ q \in [1..n -> Batch]
      /\ \A i, j \in 1..n : i # j => q[i] # q[j]
  BY DEF SetToSeqs
<1> HIDE DEF n
<1>5. Len(q) = n /\ DOMAIN q = 1..n /\ q \in Seq(Batch)
  BY <1>3, <1>4
<1>6. q = <<>> <=> n = 0
  BY <1>3, <1>5
<1>7. n <= Limit
  <2> SUFFICES ASSUME n > 0 PROVE n <= Limit
    BY <1>3, Bounds
  <2> DEFINE B == {x \in Ready : x < q[n]}
             f == [i \in 1..(n - 1) |-> q[i]]
  <2>1. n \in 1..n /\ q[n] \in Batch
    BY <1>3, <1>4
  <2>2. Cardinality(B) < Limit
    BY <2>1 DEF Batch
  <2>3. IsFiniteSet(B) /\ Cardinality(B) \in Nat
    BY <1>2, FS_Subset, FS_CardinalityType
  <2>4. \A i \in 1..(n - 1) : i \in 1..n /\ i < n /\ q[i] \in B
    BY <1>1, <1>3, <1>4, <1>5, <2>1 DEF Oldest
  <2>5. f \in Injection(1..(n - 1), B)
    <3>1. f \in [1..(n - 1) -> B]
      BY <2>4
    <3>2. \A i, j \in 1..(n - 1) : f[i] = f[j] => i = j
      BY <1>4, <2>4
    <3> QED BY <3>1, <3>2 DEF Injection, IsInjective
  <2>6. Cardinality(1..(n - 1)) <= Cardinality(B)
    BY <2>3, <2>5, FS_Injection
  <2>7. Cardinality(1..(n - 1)) = n - 1
    <3>1. n - 1 \in Int /\ 1 \in Int
      BY <1>3
    <3>2. Cardinality(1..(n - 1)) = IF 1 > n - 1 THEN 0 ELSE (n - 1) - 1 + 1
      BY <3>1, FS_Interval
    <3> QED BY <1>3, <3>2
  <2> HIDE DEF B
  <2> QED BY <1>3, <2>2, <2>3, <2>6, <2>7, Bounds
<1>8. \A i \in 1..n : /\ q[i] \in Rows /\ row[q[i]].attempts \in 0..MaxAttempts
                      /\ row[q[i]].attempts < MaxAttempts
  BY Zenon, <1>1, <1>4, Bounds DEF Ready, TypeOK, Row
<1>9. /\ Reading(q) \in Seq(Item) /\ Len(Reading(q)) = n
      /\ \A i \in 1..n : Reading(q)[i].row = q[i] /\ Reading(q)[i].attempts < MaxAttempts
  <2> DEFINE it(i) == [row |-> q[i], attempts |-> row[q[i]].attempts]
  <2>1. Reading(q) = [i \in 1..n |-> it(i)]
    BY <1>5 DEF Reading
  <2>2. \A i \in 1..n : it(i) \in Item /\ it(i).row = q[i] /\ it(i).attempts < MaxAttempts
    BY <1>8 DEF Item
  <2> HIDE DEF it
  <2>3. Reading(q) \in [1..n -> Item] /\ \A i \in 1..n : Reading(q)[i] = it(i)
    BY <2>1, <2>2
  <2>4. Reading(q) \in Seq(Item) /\ Len(Reading(q)) = n
    BY <1>3, <2>3
  <2> QED BY <2>2, <2>3, <2>4
<1> QED BY <1>1, <1>3, <1>4, <1>5, <1>6, <1>7, <1>9

\* A batch is claimed: its rows were pending, so nobody had them in hand unless in
\* doubt, and none of them had become a message.
LEMMA Claims ==
  ASSUME DrainInv, NEW w \in Drains, Claim(w)
  PROVE  DrainInv'
<1> USE DEF DrainInv
<1>1. PICK q \in SetToSeqs(Batch) :
        /\ Oldest(q) /\ drain[w].step = "claiming"
        /\ drain' = [drain EXCEPT ![w] =
             IF q = <<>> THEN Idle ELSE [step |-> "judging", todo |-> Reading(q), keys |-> {}]]
        /\ row' = [r \in Rows |-> IF r \in Batch THEN [row[r] EXCEPT !.status = "sending"] ELSE row[r]]
        /\ old' = old \ Batch
        /\ UNCHANGED <<task, held, paused, chat, retires, doors, unedited, doubt>>
  BY Zenon DEF Claim, taskVars, sideVars
<1> DEFINE d == IF q = <<>> THEN Idle ELSE [step |-> "judging", todo |-> Reading(q), keys |-> {}]
<1>2. /\ drain \in [Drains -> Run] /\ ~AtWork(w) /\ row \in [Rows -> Row]
  BY <1>1 DEF TypeOK, AtWork
<1>3. /\ Batch \subseteq Rows /\ Len(q) \in Nat /\ Len(q) <= Limit
      /\ \A i \in 1..Len(q) : q[i] \in Batch
      /\ \A i, j \in 1..Len(q) : q[i] = q[j] => i = j
      /\ (q = <<>> <=> Len(q) = 0)
      /\ Reading(q) \in Seq(Item) /\ Len(Reading(q)) = Len(q)
      /\ \A i \in 1..Len(q) : Reading(q)[i].row = q[i] /\ Reading(q)[i].attempts < MaxAttempts
  BY <1>1, BatchFits
<1>4. /\ d \in Run /\ d.step \in {"idle", "judging"} /\ d.keys = {} /\ Len(d.todo) <= Limit
      /\ d.step = "judging" <=> d.todo # <<>>
      /\ \A i \in DOMAIN d.todo : /\ i \in 1..Len(q) /\ d.todo[i].row = q[i]
                                  /\ d.todo[i].attempts < MaxAttempts
  <2>1. CASE q = <<>>
    <3>1. d = Idle
      BY <2>1
    <3>2. Idle \in Run /\ Idle.step = "idle" /\ Idle.todo = <<>> /\ Idle.keys = {}
      BY DEF Idle, Run
    <3> QED BY <3>1, <3>2, Bounds
  <2>2. CASE q # <<>>
    <3>1. d = [step |-> "judging", todo |-> Reading(q), keys |-> {}]
      BY <2>2
    <3>2. Reading(q) # <<>> /\ DOMAIN Reading(q) = 1..Len(q)
      BY <1>3, <2>2
    <3> HIDE DEF d
    <3> QED BY <1>3, <3>1, <3>2 DEF Run
  <2> QED BY <2>1, <2>2
<1>5. drain' \in [Drains -> Run] /\ drain'[w] = d /\ \A z \in Drains : z # w => drain'[z] = drain[z]
  <2> HIDE DEF d
  <2>1. drain' = [drain EXCEPT ![w] = d]
    BY <1>1 DEF d
  <2> QED BY <1>2, <1>4, <2>1
<1> HIDE DEF d
<1>6. \A r \in Rows : /\ row'[r] \in Row /\ row'[r].list = row[r].list /\ row'[r].user = row[r].user
                      /\ row'[r].attempts = row[r].attempts /\ row'[r].tg = row[r].tg
                      /\ r \notin Batch => row'[r] = row[r]
                      /\ r \in Batch => /\ row[r].status = "pending" /\ row'[r].status = "sending"
  <2> SUFFICES ASSUME NEW r \in Rows
               PROVE  /\ row'[r] \in Row /\ row'[r].list = row[r].list /\ row'[r].user = row[r].user
                      /\ row'[r].attempts = row[r].attempts /\ row'[r].tg = row[r].tg
                      /\ r \notin Batch => row'[r] = row[r]
                      /\ r \in Batch => /\ row[r].status = "pending" /\ row'[r].status = "sending"
    OBVIOUS
  <2>1. row[r] \in Row
    BY <1>2
  <2>2. CASE r \in Batch
    <3>1. row[r].status = "pending"
      BY <2>2 DEF Batch, Ready
    <3>2. row'[r] = [row[r] EXCEPT !.status = "sending"]
      BY <1>1, <2>2
    <3> QED BY <2>1, <2>2, <3>1, <3>2 DEF Row, Statuses
  <2>3. CASE r \notin Batch
    BY <1>1, <2>1, <2>3
  <2> QED BY <2>2, <2>3
<1>7. TypeOK'
  <2>1. row' \in [Rows -> Row]
    BY <1>1, <1>6
  <2>2. \A z \in Drains : Len(drain'[z].todo) <= Limit
    BY <1>4, <1>5 DEF TypeOK
  <2> QED BY <1>1, <1>5, <2>1, <2>2 DEF TypeOK
<1>8. RunsFit'
  <2> SUFFICES ASSUME NEW z \in Drains
               PROVE  /\ AtWork(z)' <=> drain'[z].todo # <<>>
                      /\ \A i \in DOMAIN drain'[z].todo : drain'[z].todo[i].attempts < MaxAttempts
                      /\ Delivered(z)' => chat'[Current(z)'.row] # <<>>
                      /\ drain'[z].step \in {"sending", "settling", "looking"} =>
                           drain'[z].keys \subseteq row'[Current(z)'.row].list
    BY DEF RunsFit
  <2>1. CASE z = w
    BY <1>4, <1>5, <2>1 DEF AtWork, Delivered
  <2>2. CASE z # w
    <3>1. AtWork(z) => Current(z).row \in Rows
      BY InTheHand
    <3> QED BY <1>1, <1>5, <1>6, <2>2, <3>1 DEF RunsFit, AtWork, Delivered, Current
  <2> QED BY <2>1, <2>2
<1>9. RowsFit'
  BY <1>1, <1>6 DEF RowsFit
<1>10. ASSUME NEW z \in Drains, z # w, NEW i \in DOMAIN drain[z].todo, drain[z].todo[i].row \notin doubt
       PROVE  drain[z].todo[i].row \in Rows \ Batch
  BY <1>6, <1>10, HandClaimed, InTheHand
<1>11. HeldFits'
  <2> SUFFICES ASSUME NEW z \in Drains, NEW i \in DOMAIN drain'[z].todo, NEW r,
                      r = drain'[z].todo[i].row, r \notin doubt
               PROVE  /\ row'[r].status = IF i = 1 /\ drain'[z].step = "looking" THEN "sent" ELSE "sending"
                      /\ Len(chat[r]) = IF i = 1 /\ Delivered(z)' THEN 1 ELSE 0
                      /\ i = 1 /\ Delivered(z)' /\ r \notin Digests => chat[r][1] \subseteq drain'[z].keys
    BY <1>1 DEF HeldFits
  <2>1. CASE z = w
    <3>1. r \in Batch /\ r \in Rows
      BY <1>3, <1>4, <1>5, <2>1
    <3>2. chat[r] = <<>> /\ row'[r].status = "sending"
      BY <1>6, <3>1 DEF ChatFits
    <3>3. drain'[w].step # "looking" /\ ~Delivered(w)'
      BY <1>4, <1>5 DEF Delivered
    <3> QED BY <2>1, <3>2, <3>3
  <2>2. CASE z # w
    BY <1>5, <1>6, <1>10, <2>2 DEF HeldFits, Delivered
  <2> QED BY <2>1, <2>2
<1>12. HeldOnce'
  <2> SUFFICES ASSUME NEW y \in Drains, NEW z \in Drains,
                      NEW i \in DOMAIN drain'[y].todo, NEW j \in DOMAIN drain'[z].todo,
                      drain'[y].todo[i].row = drain'[z].todo[j].row,
                      drain'[y].todo[i].row \notin doubt
               PROVE  y = z /\ i = j
    BY <1>1 DEF HeldOnce
  <2>1. CASE y = w /\ z = w
    BY <1>3, <1>4, <1>5, <2>1
  <2>2. CASE y = w /\ z # w
    BY <1>3, <1>4, <1>5, <1>10, <2>2
  <2>3. CASE y # w /\ z = w
    BY <1>3, <1>4, <1>5, <1>10, <2>3
  <2>4. CASE y # w /\ z # w
    BY <1>5, <2>4 DEF HeldOnce
  <2> QED BY <2>1, <2>2, <2>3, <2>4
<1>13. OldInDoubt' /\ EditsFit' /\ SentOnce'
  BY <1>1 DEF OldInDoubt, EditsFit, SentOnce
<1>14. \A z \in Drains : Delivered(z) => z # w
  BY <1>1 DEF Delivered
<1>15. ChatFits'
  BY <1>1, <1>5, <1>6, <1>14 DEF ChatFits, Delivered, Current
<1>16. ButtonsCovered'
  BY <1>1, <1>5, <1>6, <1>14 DEF ButtonsCovered, Covers, Delivered, Current
<1> QED BY <1>7, <1>8, <1>9, <1>11, <1>12, <1>13, <1>15, <1>16

-----------------------------------------------------------------------------
(* A drain ends early.                                                      *)

\* What is left goes back: a row claimed and not in doubt never became a message.
LEMMA Throttles ==
  ASSUME DrainInv, NEW w \in Drains, Throttle(w)
  PROVE  DrainInv'
<1> USE DEF DrainInv
<1>1. /\ drain[w].step = "sending" /\ old' = old \ Hold(w) /\ paused' = TRUE
      /\ row' = [r \in Rows |-> IF r \in Hold(w) /\ row[r].status = "sending"
                                  THEN [row[r] EXCEPT !.status = "pending"] ELSE row[r]]
      /\ drain' = [drain EXCEPT ![w] = Idle]
      /\ UNCHANGED <<task, held, chat, retires, doors, unedited, doubt>>
  BY DEF Throttle, taskVars, sideVars
<1>2. drain \in [Drains -> Run] /\ row \in [Rows -> Row] /\ ~Delivered(w)
  BY <1>1 DEF TypeOK, Delivered
<1>3. Idle \in Run /\ Idle.step = "idle" /\ Idle.todo = <<>> /\ Idle.keys = {}
  BY DEF Idle, Run
<1>4. drain' \in [Drains -> Run] /\ drain'[w] = Idle /\ \A z \in Drains : z # w => drain'[z] = drain[z]
  BY <1>1, <1>2, <1>3
<1>5. \A r \in Rows : /\ row'[r] \in Row /\ row'[r].list = row[r].list /\ row'[r].user = row[r].user
                      /\ row'[r].attempts = row[r].attempts /\ row'[r].tg = row[r].tg
                      /\ \/ row'[r] = row[r]
                         \/ /\ r \in Hold(w) /\ row[r].status = "sending" /\ row'[r].status = "pending"
  <2> SUFFICES ASSUME NEW r \in Rows
               PROVE  /\ row'[r] \in Row /\ row'[r].list = row[r].list /\ row'[r].user = row[r].user
                      /\ row'[r].attempts = row[r].attempts /\ row'[r].tg = row[r].tg
                      /\ \/ row'[r] = row[r]
                         \/ /\ r \in Hold(w) /\ row[r].status = "sending" /\ row'[r].status = "pending"
    OBVIOUS
  <2>1. row[r] \in Row
    BY <1>2
  <2>2. CASE r \in Hold(w) /\ row[r].status = "sending"
    <3>1. row'[r] = [row[r] EXCEPT !.status = "pending"]
      BY <1>1, <2>2
    <3> QED BY <2>1, <2>2, <3>1 DEF Row, Statuses
  <2>3. CASE ~(r \in Hold(w) /\ row[r].status = "sending")
    BY <1>1, <2>1, <2>3
  <2> QED BY <2>2, <2>3
<1>6. TypeOK'
  <2>1. row' \in [Rows -> Row]
    BY <1>1, <1>5
  <2>2. \A z \in Drains : Len(drain'[z].todo) <= Limit
    BY <1>3, <1>4, Bounds DEF TypeOK
  <2> QED BY <1>1, <1>4, <2>1, <2>2 DEF TypeOK
<1>7. RunsFit'
  <2> SUFFICES ASSUME NEW z \in Drains
               PROVE  /\ AtWork(z)' <=> drain'[z].todo # <<>>
                      /\ \A i \in DOMAIN drain'[z].todo : drain'[z].todo[i].attempts < MaxAttempts
                      /\ Delivered(z)' => chat'[Current(z)'.row] # <<>>
                      /\ drain'[z].step \in {"sending", "settling", "looking"} =>
                           drain'[z].keys \subseteq row'[Current(z)'.row].list
    BY DEF RunsFit
  <2>1. CASE z = w
    BY <1>3, <1>4, <2>1 DEF AtWork, Delivered
  <2>2. CASE z # w
    <3>1. AtWork(z) => Current(z).row \in Rows
      BY InTheHand
    <3> QED BY <1>1, <1>4, <1>5, <2>2, <3>1 DEF RunsFit, AtWork, Delivered, Current
  <2> QED BY <2>1, <2>2
<1>8. RowsFit'
  BY <1>1, <1>5 DEF RowsFit
<1>9. \A z \in Drains : \A i \in DOMAIN drain'[z].todo :
        z # w /\ i \in DOMAIN drain[z].todo /\ drain'[z] = drain[z] /\ drain[z].todo[i].row \in Rows
  BY <1>3, <1>4, InTheHand
<1>10. \A z \in Drains : \A i \in DOMAIN drain[z].todo :
         z # w /\ drain[z].todo[i].row \notin doubt => drain[z].todo[i].row \notin Hold(w)
  BY DEF HeldOnce, Hold
<1>11. HeldFits'
  BY <1>1, <1>5, <1>9, <1>10 DEF HeldFits, Delivered
<1>12. HeldOnce'
  BY <1>1, <1>9 DEF HeldOnce
<1>13. OldInDoubt' /\ EditsFit' /\ SentOnce'
  BY <1>1 DEF OldInDoubt, EditsFit, SentOnce
<1>14. \A z \in Drains : Delivered(z) => z # w
  BY <1>2
<1>15. \A r \in Hold(w) : r \notin doubt => chat[r] = <<>>
  <2> SUFFICES ASSUME NEW i \in DOMAIN drain[w].todo, drain[w].todo[i].row \notin doubt
               PROVE  chat[drain[w].todo[i].row] = <<>>
    BY DEF Hold
  <2>1. drain[w].todo[i].row \in Rows /\ Len(chat[drain[w].todo[i].row]) = 0
    BY <1>2, InTheHand DEF HeldFits
  <2>2. chat[drain[w].todo[i].row] \in Seq(SUBSET Tasks)
    BY <2>1 DEF TypeOK
  <2> QED BY <2>1, <2>2, EmptySeq
<1>16. ChatFits'
  BY <1>1, <1>4, <1>5, <1>14, <1>15 DEF ChatFits, Delivered, Current
<1>17. ButtonsCovered'
  BY <1>1, <1>4, <1>5, <1>14 DEF ButtonsCovered, Covers, Delivered, Current
<1> QED BY <1>6, <1>7, <1>8, <1>11, <1>12, <1>13, <1>16, <1>17

\* The process dies: what it held is in doubt.
LEMMA Dies ==
  ASSUME DrainInv, NEW w \in Drains, Die(w)
  PROVE  DrainInv'
<1> USE DEF DrainInv
<1>1. /\ drain' = [drain EXCEPT ![w] = Dead] /\ doubt' = doubt \cup Hold(w)
      /\ UNCHANGED <<row, old, task, held, paused, chat, retires, doors, unedited>>
  BY DEF Die, rowVars, taskVars, sideVars
<1>2. Dead \in Run /\ Dead.step = "dead" /\ Dead.todo = <<>> /\ Dead.keys = {}
  <2>1. Idle \in Run /\ Idle.todo = <<>> /\ Idle.keys = {}
    BY DEF Idle, Run
  <2> QED BY <2>1 DEF Dead, Run
<1>3. drain' \in [Drains -> Run] /\ drain'[w] = Dead /\ \A z \in Drains : z # w => drain'[z] = drain[z]
  BY <1>1, <1>2 DEF TypeOK
<1>4. Hold(w) \subseteq Rows
  BY InTheHand DEF Hold
<1>5. TypeOK'
  <2>1. \A z \in Drains : Len(drain'[z].todo) <= Limit
    BY <1>2, <1>3, Bounds DEF TypeOK
  <2> QED BY <1>1, <1>3, <1>4, <2>1 DEF TypeOK
<1>6. RunsFit'
  BY <1>1, <1>2, <1>3 DEF RunsFit, AtWork, Delivered, Current
<1>7. \A z \in Drains : \A i \in DOMAIN drain'[z].todo :
        z # w /\ i \in DOMAIN drain[z].todo /\ drain'[z] = drain[z]
  BY <1>2, <1>3
<1>8. HeldFits' /\ HeldOnce'
  BY <1>1, <1>7 DEF HeldFits, HeldOnce, Delivered
<1>9. RowsFit' /\ OldInDoubt' /\ EditsFit' /\ SentOnce'
  BY <1>1 DEF RowsFit, OldInDoubt, EditsFit, SentOnce
<1>10. \A z \in Drains : Delivered(z) /\ Current(z).row \notin doubt' => z # w /\ drain'[z] = drain[z]
  <2> SUFFICES ASSUME Delivered(w) PROVE Current(w).row \in Hold(w)
    BY <1>1, <1>3
  <2> QED BY InTheHand DEF AtWork, Delivered, Hold
<1>11. ChatFits'
  BY <1>1, <1>10 DEF ChatFits, Delivered, Current
<1>12. ButtonsCovered'
  BY <1>1, <1>10 DEF ButtonsCovered, Covers, Delivered, Current
<1> QED BY <1>5, <1>6, <1>8, <1>9, <1>11, <1>12

\* A retirement dies: the buttons it was to take off are told, or a drain sees to them.
LEMMA Loses ==
  ASSUME DrainInv, NEW x \in retires, Lose(x)
  PROVE  DrainInv'
<1> USE DEF DrainInv
<1>1. /\ retires' = retires \ {x}
      /\ UNCHANGED <<row, old, task, held, drain, paused, chat, doors, doubt>>
      /\ unedited' = unedited \cup
           {r \in Scope(x) : /\ \E i \in DOMAIN chat[r] : chat[r][i] \cap x.about # {}
                            /\ \A w \in Drains : r \notin Hold(w)}
  BY DEF Lose, rowVars, taskVars
<1>2. x \in Retire /\ Scope(x) \subseteq x.scope /\ x.scope \subseteq Rows
  BY DEF TypeOK, Retire, Scope
<1>3. retires' \subseteq retires /\ unedited \subseteq unedited' /\ unedited' \subseteq Rows
  BY <1>1, <1>2 DEF TypeOK
<1>4. TypeOK' /\ RowsFit' /\ HeldOnce' /\ OldInDoubt' /\ EditsFit' /\ SentOnce'
  BY <1>1, <1>3 DEF TypeOK, RowsFit, HeldOnce, OldInDoubt, EditsFit, SentOnce
<1>5. RunsFit' /\ HeldFits' /\ ChatFits'
  BY <1>1 DEF RunsFit, HeldFits, ChatFits, AtWork, Delivered, Current
<1>6. ButtonsCovered'
  <2> SUFFICES ASSUME NEW r \in Rows, r \notin Digests, r \notin doubt, r \notin unedited', NEW k \in Tasks,
                      chat[r] # <<>>, k \in chat[r][1],
                      ~(task[k].open /\ task[k].holder = row[r].user),
                      ~\E w \in Drains : Delivered(w) /\ Current(w).row = r
               PROVE  \E y \in retires' : Covers(y, r, k)
    BY <1>1 DEF ButtonsCovered, Covers, Delivered, Current
  <2>1. PICK y \in retires : Covers(y, r, k)
    BY <1>3 DEF ButtonsCovered
  <2>2. y # x
    <3> SUFFICES ASSUME Covers(x, r, k) PROVE FALSE
      BY <2>1
    <3>1. k \in x.about /\ r \in Scope(x)
      BY <1>2 DEF Covers, Scope
    <3>2. 1 \in DOMAIN chat[r] /\ Len(chat[r]) # 0
      BY DEF TypeOK
    <3>3. chat[r][1] \cap x.about # {}
      BY <3>1
    <3>4. PICK w \in Drains : r \in Hold(w)
      BY <1>1, <3>1, <3>2, <3>3
    <3>5. PICK i \in DOMAIN drain[w].todo : drain[w].todo[i].row = r
      BY <3>4 DEF Hold
    <3>6. i = 1 /\ Delivered(w)
      BY <3>2, <3>5 DEF HeldFits
    <3>7. Current(w).row = r
      BY <3>5, <3>6, InTheHand DEF AtWork, Delivered
    <3> QED BY <3>6, <3>7
  <2> QED BY <1>1, <2>1, <2>2
<1> QED BY <1>4, <1>5, <1>6

-----------------------------------------------------------------------------
(* A drain works on the row in hand.                                        *)

\* A message reaches the row's reader.
LEMMA Delivers ==
  ASSUME DrainInv, NEW w \in Drains, AtWork(w), Deliver(w)
  PROVE  LET r == Current(w).row
         IN /\ chat' \in [Rows -> Seq(SUBSET Tasks)] /\ \A q \in Rows : Len(chat'[q]) <= MaxSends
            /\ \A q \in Rows : q # r => chat'[q] = chat[q]
            /\ chat'[r] # <<>> /\ Len(chat'[r]) = Len(chat[r]) + 1
            /\ Len(chat[r]) = 0 => chat'[r][1] = drain[w].keys
<1> DEFINE r == Current(w).row
           s == Append(chat[r], drain[w].keys)
<1> USE DEF DrainInv
<1>1. r \in Rows /\ chat[r] \in Seq(SUBSET Tasks) /\ drain[w].keys \in SUBSET Tasks
  <2>1. r \in Rows /\ drain[w] \in Run
    BY InTheHand
  <2> QED BY <2>1 DEF TypeOK, Run
<1>2. chat' = [chat EXCEPT ![r] = s] /\ Len(chat[r]) < MaxSends
  BY DEF Deliver
<1> HIDE DEF r
<1>3. /\ s \in Seq(SUBSET Tasks) /\ Len(s) = Len(chat[r]) + 1 /\ s # <<>> /\ Len(chat[r]) \in Nat
      /\ Len(chat[r]) = 0 => s[1] = drain[w].keys
  BY <1>1, AppendProperties
<1> HIDE DEF s
<1>4. chat' \in [Rows -> Seq(SUBSET Tasks)] /\ chat'[r] = s /\ \A q \in Rows : q # r => chat'[q] = chat[q]
  BY <1>1, <1>2, <1>3 DEF TypeOK
<1>5. \A q \in Rows : Len(chat'[q]) <= MaxSends
  BY <1>2, <1>3, <1>4, Bounds DEF TypeOK
<1> QED BY <1>3, <1>4, <1>5 DEF r

\* The row in hand is not sent, as far as the drain knows: it is muted, given up or
\* put back.
LEMMA GivesUp ==
  ASSUME DrainInv, NEW w \in Drains, drain[w].step \in {"judging", "sending"}, NextRow(w), NEW n \in Row,
         row' = [row EXCEPT ![Current(w).row] = n],
         n.list = row[Current(w).row].list, n.user = row[Current(w).row].user,
         n.status \in {"muted", "failed", "pending"}, n.status = "pending" => n.attempts < MaxAttempts,
         UNCHANGED <<old, task, held, paused, retires, doors, unedited>>,
         \/ UNCHANGED <<chat, doubt>>
         \/ Deliver(w) /\ doubt' = doubt \cup {Current(w).row}
  PROVE  DrainInv'
<1> DEFINE r == Current(w).row
<1> USE DEF DrainInv
<1>1. r \in Rows /\ AtWork(w) /\ ~Delivered(w) /\ 1 \in DOMAIN drain[w].todo /\ r = drain[w].todo[1].row
  BY InTheHand DEF AtWork, Delivered
<1>2. /\ drain' \in [Drains -> Run] /\ \A z \in Drains : Len(drain'[z].todo) <= Limit
      /\ \A z \in Drains : z # w => drain'[z] = drain[z]
      /\ drain'[w].step \in {"idle", "judging"} /\ drain'[w].keys = {}
      /\ AtWork(w)' <=> drain'[w].todo # <<>>
      /\ \A i \in DOMAIN drain'[w].todo :
           i > 0 /\ i + 1 \in DOMAIN drain[w].todo /\ drain'[w].todo[i] = drain[w].todo[i + 1]
      /\ HeldOnce'
      /\ \A z \in Drains : \A i \in DOMAIN drain'[z].todo : drain'[z].todo[i].row = r => r \in doubt
  BY <1>1, HandMovesOn
<1>3. /\ chat' \in [Rows -> Seq(SUBSET Tasks)] /\ \A q \in Rows : Len(chat'[q]) <= MaxSends
      /\ \A q \in Rows : q # r => chat'[q] = chat[q]
      /\ doubt \subseteq doubt' /\ doubt' \subseteq Rows /\ \A q \in doubt' : q \in doubt \/ q = r
      /\ chat[r] # <<>> => chat'[r] # <<>>
      /\ r \notin doubt' => chat'[r] = <<>>
  <2>1. r \notin doubt => chat[r] = <<>>
    <3>1. r \notin doubt => Len(chat[r]) = 0
      BY <1>1 DEF HeldFits
    <3>2. chat[r] \in Seq(SUBSET Tasks)
      BY <1>1 DEF TypeOK
    <3> QED BY <3>1, <3>2, EmptySeq
  <2>2. CASE UNCHANGED <<chat, doubt>>
    BY <2>1, <2>2 DEF TypeOK
  <2>3. CASE Deliver(w) /\ doubt' = doubt \cup {r}
    BY <1>1, <2>3, Delivers DEF TypeOK
  <2> QED BY <2>2, <2>3
<1> HIDE DEF r
<1>4. row' \in [Rows -> Row] /\ row'[r] = n /\ \A q \in Rows : q # r => row'[q] = row[q]
  BY <1>1 DEF TypeOK, r
<1>5. \A q \in Rows : row'[q].list = row[q].list /\ row'[q].user = row[q].user
  BY <1>4 DEF r
<1>6. TypeOK'
  BY <1>2, <1>3, <1>4 DEF TypeOK
<1>7. \A z \in Drains : z # w /\ AtWork(z) => Current(z).row \in Rows
  BY InTheHand
<1>8. \A z \in Drains : Delivered(z) => z # w /\ Delivered(z)' /\ Current(z)' = Current(z)
  BY <1>1, <1>2 DEF Delivered, Current
<1>9. RunsFit'
  <2> SUFFICES ASSUME NEW z \in Drains
               PROVE  /\ AtWork(z)' <=> drain'[z].todo # <<>>
                      /\ \A i \in DOMAIN drain'[z].todo : drain'[z].todo[i].attempts < MaxAttempts
                      /\ Delivered(z)' => chat'[Current(z)'.row] # <<>>
                      /\ drain'[z].step \in {"sending", "settling", "looking"} =>
                           drain'[z].keys \subseteq row'[Current(z)'.row].list
    BY DEF RunsFit
  <2>1. CASE z = w
    BY <1>2, <2>1 DEF RunsFit, Delivered
  <2>2. CASE z # w
    <3>1. drain'[z] = drain[z] /\ (AtWork(z)' <=> AtWork(z)) /\ (Delivered(z)' <=> Delivered(z))
          /\ Current(z)' = Current(z)
      BY <1>2, <2>2 DEF AtWork, Delivered, Current
    <3>2. Delivered(z) => chat'[Current(z).row] # <<>>
      BY <1>3, <1>7, <2>2 DEF RunsFit, AtWork, Delivered
    <3>3. drain[z].step \in {"sending", "settling", "looking"} =>
            drain[z].keys \subseteq row'[Current(z).row].list
      BY <1>5, <1>7, <2>2 DEF RunsFit, AtWork
    <3> QED BY <3>1, <3>2, <3>3 DEF RunsFit
  <2> QED BY <2>1, <2>2
<1>10. RowsFit'
  BY <1>4, <1>5 DEF RowsFit
<1>11. HeldFits'
  <2> SUFFICES ASSUME NEW z \in Drains, NEW i \in DOMAIN drain'[z].todo, NEW q,
                      q = drain'[z].todo[i].row, q \notin doubt'
               PROVE  /\ row'[q].status = IF i = 1 /\ drain'[z].step = "looking" THEN "sent" ELSE "sending"
                      /\ Len(chat'[q]) = IF i = 1 /\ Delivered(z)' THEN 1 ELSE 0
                      /\ i = 1 /\ Delivered(z)' /\ q \notin Digests => chat'[q][1] \subseteq drain'[z].keys
    BY DEF HeldFits
  <2>1. q # r /\ q \notin doubt
    BY <1>2, <1>3
  <2>2. CASE z = w
    <3>1. i > 0 /\ i + 1 \in DOMAIN drain[w].todo /\ q = drain[w].todo[i + 1].row /\ q \in Rows
      BY <1>2, <2>2, InTheHand
    <3>2. i \in Nat
      <4>1. drain'[w].todo \in Seq(Item)
        BY <1>2 DEF Run
      <4> QED BY <2>2, <4>1
    <3>3. row[q].status = "sending" /\ Len(chat[q]) = 0
      BY <2>1, <3>1, <3>2 DEF HeldFits
    <3>4. drain'[w].step # "looking" /\ ~Delivered(w)'
      BY SMTT(20), <1>2 DEF Delivered
    <3> QED BY <1>3, <1>4, <2>1, <2>2, <3>1, <3>3, <3>4
  <2>3. CASE z # w
    <3>1. drain'[z] = drain[z] /\ q \in Rows
      BY <1>2, <2>3, InTheHand
    <3>2. i \in DOMAIN drain[z].todo /\ q = drain[z].todo[i].row /\ (Delivered(z)' <=> Delivered(z))
      BY <3>1 DEF Delivered
    <3>3. /\ row[q].status = IF i = 1 /\ drain[z].step = "looking" THEN "sent" ELSE "sending"
          /\ Len(chat[q]) = IF i = 1 /\ Delivered(z) THEN 1 ELSE 0
          /\ i = 1 /\ Delivered(z) /\ q \notin Digests => chat[q][1] \subseteq drain[z].keys
      BY <2>1, <3>2 DEF HeldFits
    <3>4. row'[q] = row[q] /\ chat'[q] = chat[q]
      BY <1>3, <1>4, <2>1, <3>1
    <3> QED BY <3>1, <3>2, <3>3, <3>4
  <2> QED BY <2>2, <2>3
<1>12. OldInDoubt' /\ EditsFit'
  BY <1>3 DEF OldInDoubt, EditsFit
<1>13. SentOnce'
  <2> SUFFICES ASSUME NEW q \in Rows, q \notin doubt' PROVE Len(chat'[q]) <= 1
    BY DEF SentOnce
  <2>1. q \notin doubt /\ (q = r => chat'[q] = <<>>) /\ (q # r => chat'[q] = chat[q])
    BY <1>3
  <2> QED BY <2>1 DEF SentOnce
<1>14. ChatFits'
  <2> SUFFICES ASSUME NEW q \in Rows, q \notin doubt'
               PROVE  /\ row'[q].status \notin {"sending", "sent"} => chat'[q] = <<>>
                      /\ row'[q].status = "sent" => row'[q].tg = 1
                      /\ chat'[q] # <<>> /\ row'[q].status # "sent" =>
                           \E z \in Drains : Delivered(z)' /\ Current(z)'.row = q
                      /\ chat'[q] # <<>> /\ q \notin Digests => chat'[q][1] \subseteq row'[q].list
    BY DEF ChatFits
  <2>1. CASE q = r
    BY <1>3, <1>4, <2>1
  <2>2. CASE q # r
    BY <1>3, <1>4, <1>8, <2>2 DEF ChatFits
  <2> QED BY <2>1, <2>2
<1>15. ButtonsCovered'
  <2> SUFFICES ASSUME NEW q \in Rows, q \notin Digests, q \notin doubt', q \notin unedited, NEW k \in Tasks,
                      chat'[q] # <<>>, k \in chat'[q][1],
                      ~(task[k].open /\ task[k].holder = row'[q].user)
               PROVE  \/ \E z \in Drains : Delivered(z)' /\ Current(z)'.row = q
                      \/ \E x \in retires' : Covers(x, q, k)'
    BY DEF ButtonsCovered
  <2>1. q # r /\ q \notin doubt /\ chat'[q] = chat[q] /\ row'[q] = row[q]
    BY <1>3, <1>4
  <2> QED BY <1>8, <2>1 DEF ButtonsCovered, Covers
<1> QED BY <1>2, <1>6, <1>9, <1>10, <1>11, <1>12, <1>13, <1>14, <1>15

\* A failure is counted.
LEMMA Fails ==
  ASSUME DrainInv, NEW w \in Drains, Fail(w)
  PROVE  DrainInv'
<1> DEFINE r == Current(w).row
           s == Spent(Current(w).attempts)
           m == Current(w).attempts + 1
           n == [row[r] EXCEPT !.status = s, !.attempts = m]
<1>1. /\ drain[w].step = "sending" /\ NextRow(w) /\ row' = [row EXCEPT ![r] = n]
      /\ UNCHANGED <<old, task, held, paused, retires, doors, unedited>>
      /\ (UNCHANGED <<chat, doubt>>) \/ (Deliver(w) /\ doubt' = doubt \cup {r})
  BY DEF Fail, taskVars, sideVars
<1>2. row[r] \in Row /\ Current(w).attempts \in Nat /\ Current(w).attempts < MaxAttempts
  BY <1>1, InTheHand DEF AtWork
<1>3. m \in 0..MaxAttempts /\ s \in {"failed", "pending"} /\ (s = "pending" => m < MaxAttempts)
  BY <1>2, Bounds DEF Spent
<1> HIDE DEF s, m
<1>4. /\ n \in Row /\ n.list = row[r].list /\ n.user = row[r].user /\ n.status = s /\ n.attempts = m
  BY Zenon, <1>2, <1>3 DEF Row, Statuses
<1> HIDE DEF n
<1> QED BY Zenon, <1>1, <1>3, <1>4, GivesUp

\* The tasks are asked for before the send.
LEMMA Judges ==
  ASSUME DrainInv, NEW w \in Drains, Judge(w)
  PROVE  DrainInv'
<1> DEFINE r == Current(w).row
           n == [row[r] EXCEPT !.status = "muted"]
<1>1. /\ drain[w].step = "judging"
      /\ \/ /\ row' = [row EXCEPT ![r] = n] /\ NextRow(w)
            /\ UNCHANGED <<old, task, held, paused, chat, retires, doors, unedited, doubt>>
         \/ \E keys \in SUBSET row[r].list : Sending(w, keys)
  <2>1. Mine(row[r].list, row[r].user) \in SUBSET row[r].list
    BY DEF Mine
  <2>2. row[r].list \in SUBSET row[r].list
    OBVIOUS
  <2> QED BY <2>1, <2>2 DEF Judge, Mute, rowVars, taskVars, sideVars
<1>2. /\ row[r] \in Row /\ r \in Rows /\ drain[w] \in Run /\ drain \in [Drains -> Run]
      /\ Len(drain[w].todo) <= Limit /\ drain[w].todo # <<>>
  BY <1>1, InTheHand DEF AtWork, DrainInv, TypeOK, RunsFit
<1>3. CASE row' = [row EXCEPT ![r] = n] /\ NextRow(w)
           /\ UNCHANGED <<old, task, held, paused, chat, retires, doors, unedited, doubt>>
  <2>1. /\ n \in Row /\ n.list = row[r].list /\ n.user = row[r].user /\ n.status = "muted"
    BY <1>2 DEF Row, Statuses
  <2> HIDE DEF n
  <2> QED BY Zenon, <1>1, <1>3, <2>1, GivesUp
<1>4. ASSUME NEW keys \in SUBSET row[r].list, Sending(w, keys)
      PROVE  DrainInv'
  <2> DEFINE d == [drain[w] EXCEPT !.step = "sending", !.keys = keys]
  <2> USE DEF DrainInv
  <2>1. /\ drain' = [drain EXCEPT ![w] = d]
         /\ UNCHANGED <<row, old, task, held, paused, chat, retires, doors, unedited, doubt>>
    BY <1>4 DEF Sending, rowVars, taskVars, sideVars
  <2>2. keys \in SUBSET Tasks /\ keys \subseteq row[r].list
    BY <1>2 DEF Row
  <2>3. d \in Run /\ d.step = "sending" /\ d.todo = drain[w].todo /\ d.keys = keys
    BY Zenon, <1>2, <2>2 DEF Run
  <2> HIDE DEF d, r
  <2>4. drain' \in [Drains -> Run] /\ drain'[w] = d /\ \A z \in Drains : z # w => drain'[z] = drain[z]
    BY <1>2, <2>1, <2>3
  <2>5. /\ \A z \in Drains : drain'[z].todo = drain[z].todo /\ (Delivered(z)' <=> Delivered(z))
                             /\ Current(z)' = Current(z)
                             /\ (drain'[z].step = "looking" <=> drain[z].step = "looking")
                             /\ (Delivered(z) => drain'[z].keys = drain[z].keys)
    BY <1>1, <2>3, <2>4 DEF Delivered, Current
  <2>6. TypeOK'
    BY <2>1, <2>4, <2>5 DEF TypeOK
  <2>7. RunsFit'
    <3> SUFFICES ASSUME NEW z \in Drains
                 PROVE  /\ AtWork(z)' <=> drain'[z].todo # <<>>
                        /\ \A i \in DOMAIN drain'[z].todo : drain'[z].todo[i].attempts < MaxAttempts
                        /\ Delivered(z)' => chat'[Current(z)'.row] # <<>>
                        /\ drain'[z].step \in {"sending", "settling", "looking"} =>
                             drain'[z].keys \subseteq row'[Current(z)'.row].list
      BY DEF RunsFit
    <3>1. CASE z = w
      BY <1>1, <1>2, <2>1, <2>2, <2>3, <2>4, <2>5, <3>1 DEF RunsFit, AtWork, Delivered, r
    <3>2. CASE z # w
      BY <2>1, <2>4, <2>5, <3>2 DEF RunsFit, AtWork
    <3> QED BY <3>1, <3>2
  <2>8. HeldFits'
    BY <2>1, <2>5 DEF HeldFits, Delivered
  <2>9. HeldOnce'
    BY <2>1, <2>5 DEF HeldOnce
  <2>10. RowsFit' /\ OldInDoubt' /\ EditsFit' /\ SentOnce'
    BY <2>1 DEF RowsFit, OldInDoubt, EditsFit, SentOnce
  <2>11. ChatFits'
    BY <2>1, <2>5 DEF ChatFits
  <2>12. ButtonsCovered'
    BY <2>1, <2>5 DEF ButtonsCovered, Covers
  <2> QED BY <2>6, <2>7, <2>8, <2>9, <2>10, <2>11, <2>12
<1> QED BY <1>1, <1>3, <1>4

\* Telegram takes the message: unless it was in doubt, the row had none, and its
\* buttons are the tasks the drain has just asked for.
LEMMA Sends ==
  ASSUME DrainInv, NEW w \in Drains, Send(w)
  PROVE  DrainInv'
<1> DEFINE r == Current(w).row
           d == [drain[w] EXCEPT !.step = "settling"]
<1> USE DEF DrainInv
<1>1. /\ drain[w].step = "sending" /\ Deliver(w) /\ drain' = [drain EXCEPT ![w] = d]
      /\ UNCHANGED <<row, old, task, held, paused, retires, doors, unedited, doubt>>
  BY DEF Send, Go, rowVars, taskVars, sideVars
<1>2. /\ r \in Rows /\ drain[w] \in Run /\ drain \in [Drains -> Run] /\ drain[w].todo # <<>> /\ AtWork(w)
      /\ 1 \in DOMAIN drain[w].todo /\ r = drain[w].todo[1].row /\ ~Delivered(w)
      /\ drain[w].keys \subseteq row[r].list
  BY <1>1, InTheHand DEF AtWork, TypeOK, RunsFit, Delivered
<1>3. d \in Run /\ d.step = "settling" /\ d.todo = drain[w].todo /\ d.keys = drain[w].keys
  BY Zenon, <1>2 DEF Run
<1> HIDE DEF d
<1>4. drain' \in [Drains -> Run] /\ drain'[w] = d /\ \A z \in Drains : z # w => drain'[z] = drain[z]
  BY <1>1, <1>2, <1>3
<1>5. /\ chat' \in [Rows -> Seq(SUBSET Tasks)] /\ \A q \in Rows : Len(chat'[q]) <= MaxSends
      /\ \A q \in Rows : q # r => chat'[q] = chat[q]
      /\ chat'[r] # <<>> /\ Len(chat'[r]) = Len(chat[r]) + 1
      /\ Len(chat[r]) = 0 => chat'[r][1] = drain[w].keys
  BY <1>1, <1>2, Delivers
<1>6. r \notin doubt => /\ row[r].status = "sending" /\ Len(chat'[r]) = 1
                        /\ chat'[r][1] = drain[w].keys
  <2> SUFFICES ASSUME r \notin doubt PROVE row[r].status = "sending" /\ Len(chat[r]) = 0
    BY <1>5
  <2> QED BY <1>1, <1>2 DEF HeldFits
<1> HIDE DEF r
<1>7. \A z \in Drains : /\ drain'[z].todo = drain[z].todo /\ Current(z)' = Current(z)
                        /\ drain'[z].keys = drain[z].keys
                        /\ (AtWork(z)' <=> AtWork(z)) /\ (Delivered(z)' <=> Delivered(z) \/ z = w)
                        /\ (drain'[z].step = "looking" <=> drain[z].step = "looking")
  BY <1>1, <1>3, <1>4 DEF AtWork, Delivered, Current
<1>8. TypeOK'
  BY <1>1, <1>4, <1>5, <1>7 DEF TypeOK
<1>9. Current(w).row = r
  BY DEF r
<1>10. RunsFit'
  <2> SUFFICES ASSUME NEW z \in Drains
               PROVE  /\ Delivered(z)' => chat'[Current(z).row] # <<>>
                      /\ drain'[z].step \in {"sending", "settling", "looking"} =>
                           drain[z].keys \subseteq row[Current(z).row].list
    BY <1>1, <1>7 DEF RunsFit
  <2>1. CASE z = w
    BY <1>2, <1>5, <1>9, <2>1
  <2>2. CASE z # w
    <3>1. AtWork(z) => Current(z).row \in Rows
      BY InTheHand
    <3>2. Delivered(z) => chat'[Current(z).row] # <<>>
      BY <1>5, <3>1 DEF RunsFit, AtWork, Delivered
    <3> QED BY <1>4, <1>7, <2>2, <3>2 DEF RunsFit
  <2> QED BY <2>1, <2>2
<1>11. HeldFits'
  <2> SUFFICES ASSUME NEW z \in Drains, NEW i \in DOMAIN drain[z].todo, NEW q,
                      q = drain[z].todo[i].row, q \notin doubt
               PROVE  /\ row[q].status = IF i = 1 /\ drain[z].step = "looking" THEN "sent" ELSE "sending"
                      /\ Len(chat'[q]) = IF i = 1 /\ Delivered(z)' THEN 1 ELSE 0
                      /\ i = 1 /\ Delivered(z)' /\ q \notin Digests => chat'[q][1] \subseteq drain[z].keys
    BY <1>1, <1>7 DEF HeldFits
  <2>1. CASE z = w /\ i = 1
    <3>1. q = r
      BY <1>2, <2>1
    <3> QED BY Zenon, <1>1, <1>6, <1>7, <2>1, <3>1
  <2>2. CASE ~(z = w /\ i = 1)
    <3>1. q # r
      BY <1>2, <2>2 DEF HeldOnce
    <3>2. q \in Rows
      BY InTheHand
    <3>3. i = 1 => (Delivered(z)' <=> Delivered(z))
      BY <1>7, <2>2
    <3>4. /\ row[q].status = IF i = 1 /\ drain[z].step = "looking" THEN "sent" ELSE "sending"
          /\ Len(chat[q]) = IF i = 1 /\ Delivered(z) THEN 1 ELSE 0
          /\ i = 1 /\ Delivered(z) /\ q \notin Digests => chat[q][1] \subseteq drain[z].keys
      BY DEF HeldFits
    <3>5. chat'[q] = chat[q]
      BY <1>5, <3>1, <3>2
    <3> QED BY <3>3, <3>4, <3>5
  <2> QED BY <2>1, <2>2
<1>12. HeldOnce'
  BY <1>1, <1>7 DEF HeldOnce
<1>13. RowsFit' /\ OldInDoubt' /\ EditsFit'
  BY <1>1 DEF RowsFit, OldInDoubt, EditsFit
<1>14. SentOnce'
  <2> SUFFICES ASSUME NEW q \in Rows, q \notin doubt PROVE Len(chat'[q]) <= 1
    BY <1>1 DEF SentOnce
  <2> QED BY <1>5, <1>6 DEF SentOnce
<1>15. ChatFits'
  <2> SUFFICES ASSUME NEW q \in Rows, q \notin doubt
               PROVE  /\ row[q].status \notin {"sending", "sent"} => chat'[q] = <<>>
                      /\ row[q].status = "sent" => row[q].tg = 1
                      /\ chat'[q] # <<>> /\ row[q].status # "sent" =>
                           \E z \in Drains : Delivered(z)' /\ Current(z).row = q
                      /\ chat'[q] # <<>> /\ q \notin Digests => chat'[q][1] \subseteq row[q].list
    BY <1>1, <1>7 DEF ChatFits
  <2>1. CASE q = r
    BY <1>2, <1>6, <1>7, <1>9, <2>1 DEF ChatFits
  <2>2. CASE q # r
    BY <1>5, <1>7, <2>2 DEF ChatFits
  <2> QED BY <2>1, <2>2
<1>16. ButtonsCovered'
  <2> SUFFICES ASSUME NEW q \in Rows, q \notin Digests, q \notin doubt, q \notin unedited, NEW k \in Tasks,
                      chat'[q] # <<>>, k \in chat'[q][1],
                      ~(task[k].open /\ task[k].holder = row[q].user)
               PROVE  \/ \E z \in Drains : Delivered(z)' /\ Current(z).row = q
                      \/ \E x \in retires : Covers(x, q, k)
    BY <1>1, <1>7 DEF ButtonsCovered, Covers
  <2>1. CASE q = r
    BY <1>7, <1>9, <2>1
  <2>2. CASE q # r
    BY <1>5, <1>7, <2>2 DEF ButtonsCovered
  <2> QED BY <2>1, <2>2
<1> QED BY <1>8, <1>10, <1>11, <1>12, <1>13, <1>14, <1>15, <1>16

\* The row reads sent, with the number of its one message unless it was in doubt.
LEMMA Settles ==
  ASSUME DrainInv, NEW w \in Drains, Settle(w)
  PROVE  DrainInv'
<1> DEFINE r == Current(w).row
           m == Len(chat[r])
           n == [row[r] EXCEPT !.status = "sent", !.tg = m]
           d == [drain[w] EXCEPT !.step = "looking"]
<1> USE DEF DrainInv
<1>1. /\ drain[w].step = "settling" /\ row' = [row EXCEPT ![r] = n] /\ drain' = [drain EXCEPT ![w] = d]
      /\ UNCHANGED <<old, task, held, paused, chat, retires, doors, unedited, doubt>>
  BY DEF Settle, Go, taskVars, sideVars
<1>2. /\ r \in Rows /\ row[r] \in Row /\ drain[w] \in Run /\ drain \in [Drains -> Run] /\ AtWork(w)
      /\ 1 \in DOMAIN drain[w].todo /\ r = drain[w].todo[1].row /\ Delivered(w) /\ chat[r] # <<>>
      /\ drain[w].todo # <<>>
  BY <1>1, InTheHand DEF AtWork, TypeOK, RunsFit, Delivered
<1>3. m \in 0..MaxSends /\ m > 0 /\ (r \notin doubt => m = 1)
  <2>1. chat[r] \in Seq(SUBSET Tasks) /\ m <= MaxSends /\ m \in Nat
    BY <1>2 DEF TypeOK
  <2>2. m # 0
    BY <1>2, <2>1, EmptySeq
  <2>3. r \notin doubt => m = 1
    BY Zenon, <1>2 DEF HeldFits
  <2> QED BY <2>1, <2>2, <2>3, Bounds
<1> HIDE DEF m
<1>4. n \in Row /\ n.status = "sent" /\ n.tg = m /\ n.list = row[r].list /\ n.user = row[r].user
  BY Zenon, <1>2, <1>3 DEF Row, Statuses
<1>5. d \in Run /\ d.step = "looking" /\ d.todo = drain[w].todo /\ d.keys = drain[w].keys
  BY Zenon, <1>2 DEF Run
<1>6. r = Current(w).row
  OBVIOUS
<1> HIDE DEF r, n, d
<1>7. drain' \in [Drains -> Run] /\ drain'[w] = d /\ \A z \in Drains : z # w => drain'[z] = drain[z]
  BY <1>1, <1>2, <1>5
<1>8. row' \in [Rows -> Row] /\ row'[r] = n /\ \A q \in Rows : q # r => row'[q] = row[q]
  BY <1>1, <1>2, <1>4 DEF TypeOK
<1>9. \A q \in Rows : row'[q].list = row[q].list /\ row'[q].user = row[q].user
  BY <1>4, <1>8
<1>10. \A z \in Drains : /\ drain'[z].todo = drain[z].todo /\ Current(z)' = Current(z)
                         /\ drain'[z].keys = drain[z].keys
                         /\ (AtWork(z)' <=> AtWork(z)) /\ (Delivered(z)' <=> Delivered(z))
                         /\ z # w => drain'[z].step = drain[z].step
  BY <1>1, <1>5, <1>7 DEF AtWork, Delivered, Current
<1>11. TypeOK'
  BY <1>1, <1>7, <1>8, <1>10 DEF TypeOK
<1>12. RunsFit'
  <2> SUFFICES ASSUME NEW z \in Drains
               PROVE  drain'[z].step \in {"sending", "settling", "looking"} =>
                        drain[z].keys \subseteq row'[Current(z).row].list
    BY <1>1, <1>10 DEF RunsFit
  <2>1. AtWork(z) => Current(z).row \in Rows
    BY InTheHand
  <2>2. drain'[z].step \in {"sending", "settling", "looking"} =>
          AtWork(z) /\ drain[z].step \in {"sending", "settling", "looking"}
    BY <1>1, <1>10 DEF AtWork
  <2> QED BY <1>9, <2>1, <2>2 DEF RunsFit
<1>13. RowsFit'
  BY <1>1, <1>3, <1>4, <1>8, <1>9 DEF RowsFit
<1>14. HeldFits'
  <2> SUFFICES ASSUME NEW z \in Drains, NEW i \in DOMAIN drain[z].todo, NEW q,
                      q = drain[z].todo[i].row, q \notin doubt
               PROVE  /\ row'[q].status = IF i = 1 /\ drain'[z].step = "looking" THEN "sent" ELSE "sending"
                      /\ Len(chat[q]) = IF i = 1 /\ Delivered(z) THEN 1 ELSE 0
                      /\ i = 1 /\ Delivered(z) /\ q \notin Digests => chat[q][1] \subseteq drain[z].keys
    BY <1>1, <1>10 DEF HeldFits
  <2>0. /\ row[q].status = IF i = 1 /\ drain[z].step = "looking" THEN "sent" ELSE "sending"
        /\ Len(chat[q]) = IF i = 1 /\ Delivered(z) THEN 1 ELSE 0
        /\ i = 1 /\ Delivered(z) /\ q \notin Digests => chat[q][1] \subseteq drain[z].keys
    BY DEF HeldFits
  <2>1. CASE z = w /\ i = 1
    <3>1. q = r
      BY <1>2, <2>1
    <3> QED BY <1>4, <1>5, <1>7, <1>8, <2>0, <2>1, <3>1
  <2>2. CASE ~(z = w /\ i = 1)
    <3>1. q # r
      BY <1>2, <2>2 DEF HeldOnce
    <3>2. q \in Rows
      BY InTheHand
    <3>3. i = 1 => drain'[z].step = drain[z].step
      BY <1>10, <2>2
    <3>4. row'[q] = row[q]
      BY <1>8, <3>1, <3>2
    <3> QED BY <2>0, <3>3, <3>4
  <2> QED BY <2>1, <2>2
<1>15. HeldOnce'
  BY <1>1, <1>10 DEF HeldOnce
<1>16. OldInDoubt' /\ EditsFit' /\ SentOnce'
  BY <1>1 DEF OldInDoubt, EditsFit, SentOnce
<1>17. ChatFits'
  <2> SUFFICES ASSUME NEW q \in Rows, q \notin doubt
               PROVE  /\ row'[q].status \notin {"sending", "sent"} => chat[q] = <<>>
                      /\ row'[q].status = "sent" => row'[q].tg = 1
                      /\ chat[q] # <<>> /\ row'[q].status # "sent" =>
                           \E z \in Drains : Delivered(z) /\ Current(z).row = q
                      /\ chat[q] # <<>> /\ q \notin Digests => chat[q][1] \subseteq row'[q].list
    BY <1>1, <1>10 DEF ChatFits
  <2>1. CASE q = r
    BY <1>3, <1>4, <1>8, <1>9, <2>1 DEF ChatFits
  <2>2. CASE q # r
    BY <1>8, <2>2 DEF ChatFits
  <2> QED BY <2>1, <2>2
<1>18. ButtonsCovered'
  BY <1>1, <1>9, <1>10 DEF ButtonsCovered, Covers
<1> QED BY <1>11, <1>12, <1>13, <1>14, <1>15, <1>16, <1>17, <1>18

\* The drain looks again: the tasks whose button it has just sent and that are not
\* the reader's any more get a retirement of their own, on this row, or the look failed
\* and the row is known to keep its buttons.
LEMMA LooksAgain ==
  ASSUME DrainInv, NEW w \in Drains, LookAgain(w)
  PROVE  DrainInv'
<1> DEFINE r == Current(w).row
           gone == drain[w].keys \ Mine(row[r].list, row[r].user)
           x == [step |-> "mute", about |-> gone, scope |-> {r}, spare |-> {}, edits |-> {}]
<1> USE DEF DrainInv
<1>1. /\ drain[w].step = "looking" /\ NextRow(w)
      /\ \/ gone = {} /\ UNCHANGED <<retires, unedited>>
         \/ gone # {} /\ retires' = retires \cup {x} /\ UNCHANGED unedited
         \/ gone # {} /\ UNCHANGED retires /\ unedited' = unedited \cup {r}
      /\ UNCHANGED <<row, old, task, held, paused, chat, doors, doubt>>
  BY DEF LookAgain, Gone, rowVars, taskVars
<1>2. /\ r \in Rows /\ drain[w] \in Run /\ AtWork(w) /\ Delivered(w)
      /\ 1 \in DOMAIN drain[w].todo /\ r = drain[w].todo[1].row
  BY SMTT(20), <1>1, InTheHand DEF AtWork, Delivered
<1>3. /\ drain' \in [Drains -> Run] /\ \A z \in Drains : Len(drain'[z].todo) <= Limit
      /\ \A z \in Drains : z # w => drain'[z] = drain[z]
      /\ drain'[w].step \in {"idle", "judging"} /\ drain'[w].keys = {}
      /\ AtWork(w)' <=> drain'[w].todo # <<>>
      /\ \A i \in DOMAIN drain'[w].todo :
           i > 0 /\ i + 1 \in DOMAIN drain[w].todo /\ drain'[w].todo[i] = drain[w].todo[i + 1]
      /\ HeldOnce'
      /\ \A z \in Drains : \A i \in DOMAIN drain'[z].todo : drain'[z].todo[i].row = r => r \in doubt
  <2>1. doubt \subseteq doubt'
    BY <1>1
  <2> QED BY <1>1, <1>2, <2>1, HandMovesOn
<1>4. gone \subseteq Tasks /\ x \in Retire
  BY <1>2 DEF Run, Retire
<1>5. \A k \in drain[w].keys : k \in Mine(row[r].list, row[r].user) \/ k \in gone
  OBVIOUS
<1>6. x.about = gone /\ x.scope = {r} /\ x.spare = {} /\ x.edits = {} /\ x.step = "mute"
  OBVIOUS
<1>7. r = Current(w).row
  OBVIOUS
<1> HIDE DEF r, x, gone
<1>8. TypeOK'
  <2>1. unedited' \subseteq Rows /\ retires' \subseteq Retire
    BY <1>1, <1>2, <1>4 DEF TypeOK
  <2> QED BY <1>1, <1>3, <2>1 DEF TypeOK
<1>9. \A z \in Drains : z # w =>
        /\ drain'[z] = drain[z] /\ (AtWork(z)' <=> AtWork(z)) /\ (Delivered(z)' <=> Delivered(z))
        /\ Current(z)' = Current(z)
  BY <1>3 DEF AtWork, Delivered, Current
<1>10. RunsFit'
  <2> SUFFICES ASSUME NEW z \in Drains
               PROVE  /\ AtWork(z)' <=> drain'[z].todo # <<>>
                      /\ \A i \in DOMAIN drain'[z].todo : drain'[z].todo[i].attempts < MaxAttempts
                      /\ Delivered(z)' => chat[Current(z)'.row] # <<>>
                      /\ drain'[z].step \in {"sending", "settling", "looking"} =>
                           drain'[z].keys \subseteq row[Current(z)'.row].list
    BY <1>1 DEF RunsFit
  <2>1. CASE z = w
    BY <1>3, <2>1 DEF RunsFit, Delivered
  <2>2. CASE z # w
    BY <1>9, <2>2 DEF RunsFit
  <2> QED BY <2>1, <2>2
<1>11. HeldFits'
  <2> SUFFICES ASSUME NEW z \in Drains, NEW i \in DOMAIN drain'[z].todo, NEW q,
                      q = drain'[z].todo[i].row, q \notin doubt
               PROVE  /\ row[q].status = IF i = 1 /\ drain'[z].step = "looking" THEN "sent" ELSE "sending"
                      /\ Len(chat[q]) = IF i = 1 /\ Delivered(z)' THEN 1 ELSE 0
                      /\ i = 1 /\ Delivered(z)' /\ q \notin Digests => chat[q][1] \subseteq drain'[z].keys
    BY <1>1 DEF HeldFits
  <2>1. CASE z = w
    <3>1. i > 0 /\ i + 1 \in DOMAIN drain[w].todo /\ q = drain[w].todo[i + 1].row
      BY <1>3, <2>1
    <3>2. i \in Nat
      <4>1. drain'[w].todo \in Seq(Item)
        BY <1>3 DEF Run
      <4> QED BY <2>1, <4>1
    <3>3. row[q].status = "sending" /\ Len(chat[q]) = 0
      BY <3>1, <3>2 DEF HeldFits
    <3>4. drain'[w].step # "looking" /\ ~Delivered(w)'
      BY <1>3 DEF Delivered
    <3> QED BY <2>1, <3>3, <3>4
  <2>2. CASE z # w
    BY <1>9, <2>2 DEF HeldFits
  <2> QED BY <2>1, <2>2
<1>12. RowsFit' /\ OldInDoubt' /\ SentOnce'
  BY <1>1 DEF RowsFit, OldInDoubt, SentOnce
<1>13. EditsFit'
  BY <1>1, <1>6 DEF EditsFit
<1>14. r \notin doubt => row[r].status = "sent"
  BY <1>1, <1>2 DEF HeldFits
<1>15. ChatFits'
  BY <1>1, <1>7, <1>9, <1>14 DEF ChatFits
<1>16. ButtonsCovered'
  <2> SUFFICES ASSUME NEW q \in Rows, q \notin Digests, q \notin doubt, q \notin unedited', NEW k \in Tasks,
                      chat[q] # <<>>, k \in chat[q][1],
                      ~(task[k].open /\ task[k].holder = row[q].user)
               PROVE  \/ \E z \in Drains : Delivered(z)' /\ Current(z)'.row = q
                      \/ \E y \in retires' : Covers(y, q, k)
    BY <1>1 DEF ButtonsCovered, Covers
  <2>1. q \notin unedited /\ retires \subseteq retires'
    BY <1>1
  <2>2. CASE q = r
    <3>1. k \in drain[w].keys
      BY <1>2, <2>2 DEF HeldFits
    <3>2. k \in gone
      BY <1>5, <2>2, <3>1 DEF Mine
    <3>3. row[r].user \in held[k]
      BY <1>2, <2>2 DEF ChatFits, RowsFit
    <3> QED BY <1>1, <1>6, <2>2, <3>2, <3>3 DEF Covers
  <2>3. CASE q # r
    BY <1>1, <1>7, <1>9, <2>3, <2>1 DEF ButtonsCovered
  <2> QED BY <2>2, <2>3
<1> QED BY <1>3, <1>8, <1>10, <1>11, <1>12, <1>13, <1>15, <1>16

-----------------------------------------------------------------------------
(* The theorems.                                                            *)

\* The service starts with nothing queued and nobody at work.
LEMMA DrainsStart == Init => DrainInv
<1> SUFFICES ASSUME Init PROVE DrainInv
  OBVIOUS
<1>1. \A r \in Rows : row[r] = NoRow /\ chat[r] = <<>>
  BY DEF Init
<1>2. \A w \in Drains : drain[w] = Idle
  BY DEF Init
<1>3. old = {} /\ paused = FALSE /\ retires = {} /\ doors = 0 /\ doubt = {} /\ unedited = {}
  BY DEF Init
<1>4. Idle \in Run /\ Idle.step = "idle" /\ Idle.todo = <<>> /\ Len(Idle.todo) = 0
  BY DEF Idle, Run
<1>5. NoRow \in Row /\ NoRow.status = "absent" /\ NoRow.list = {}
  BY Bounds DEF NoRow, Row, Statuses
<1>6. row \in [Rows -> Row] /\ drain \in [Drains -> Run] /\ chat \in [Rows -> Seq(SUBSET Tasks)]
  BY <1>4, <1>5 DEF Init
<1>7. task \in [Tasks -> [open: BOOLEAN, holder: Users]] /\ held \in [Tasks -> SUBSET Users]
  BY DEF Init
<1>8. TypeOK
  <2>1. \A w \in Drains : Len(drain[w].todo) <= Limit
    BY <1>2, <1>4, Bounds
  <2>2. \A r \in Rows : Len(chat[r]) <= MaxSends
    <3>1. Len(<<>>) = 0
      OBVIOUS
    <3> QED BY <1>1, <3>1, Bounds
  <2>3. doors \in 0..MaxRetires
    BY <1>3, Bounds
  <2> QED BY Zenon, <1>3, <1>6, <1>7, <2>1, <2>2, <2>3 DEF TypeOK
<1>9. RunsFit
  BY <1>2, <1>4 DEF RunsFit, AtWork, Delivered
<1>10. RowsFit
  BY <1>1, <1>5 DEF RowsFit
<1>11. HeldFits /\ HeldOnce
  BY <1>2, <1>4 DEF HeldFits, HeldOnce
<1>12. OldInDoubt /\ EditsFit
  BY <1>3 DEF OldInDoubt, EditsFit
<1>13. ChatFits /\ ButtonsCovered /\ SentOnce
  BY <1>1, <1>5, Bounds DEF ChatFits, ButtonsCovered, SentOnce
<1> QED BY <1>8, <1>9, <1>10, <1>11, <1>12, <1>13 DEF DrainInv

\* Whatever step the service takes, or none, the drains keep in order.
LEMMA DrainsGoOn ==
  ASSUME DrainInv, [Next]_vars
  PROVE  DrainInv'
<1>1. CASE \E r \in Rows, u \in Users, S \in SUBSET Tasks : Notify(r, u, S)
  BY <1>1, Notifies
<1>2. CASE \E t \in Tasks : Close(t) \/ \E u \in Users : Reassign(t, u)
  BY <1>2, TaskChanges
<1>3. CASE RetireWork
  BY <1>3, MutesCopies, ReadsCopies, EditsCopy DEF RetireWork
<1>4. CASE Resume \/ \E r \in Rows : Age(r)
  BY <1>4, TimePasses
<1>5. CASE \E w \in Drains : Work(w)
  BY <1>5, Reclaims, Claims, Judges, Sends, Settles, LooksAgain, Fails DEF Work
<1>6. CASE \E w \in Drains : Throttle(w) \/ Die(w)
  BY <1>6, Throttles, Dies
<1>7. CASE \E x \in retires : Lose(x)
  BY <1>7, Loses
<1>8. CASE UNCHANGED vars
  <2>1. UNCHANGED <<row, old, task, held, drain, paused, chat, retires, doors, doubt, unedited>>
    BY <1>8 DEF vars
  <2>2. TypeOK' /\ RowsFit' /\ HeldOnce' /\ OldInDoubt' /\ EditsFit' /\ SentOnce'
    BY <2>1 DEF DrainInv, TypeOK, RowsFit, HeldOnce, OldInDoubt, EditsFit, SentOnce
  <2>3. RunsFit' /\ HeldFits'
    BY <2>1 DEF DrainInv, RunsFit, HeldFits, AtWork, Delivered, Current
  <2>4. ChatFits' /\ ButtonsCovered'
    BY <2>1 DEF DrainInv, ChatFits, ButtonsCovered, Covers, Delivered, Current
  <2> QED BY <2>2, <2>3, <2>4 DEF DrainInv
<1> QED BY <1>1, <1>2, <1>3, <1>4, <1>5, <1>6, <1>7, <1>8 DEF Next

\* The drains stay in order, however they overlap and whatever of them, of the
\* retirements and of the looks is lost.
THEOREM DrainsKeepFaith == Spec => []DrainInv
  BY DrainsStart, DrainsGoOn, PTL DEF Spec

\* Every variable keeps its type.
THEOREM TelegramTyped == Spec => []TypeOK
<1>1. DrainInv => TypeOK
  BY DEF DrainInv
<1> QED BY <1>1, DrainsKeepFaith, PTL

\* A row becomes one message at most, unless nobody could settle its send in time.
THEOREM MessageSentOnce == Spec => []SentOnce
<1>1. DrainInv => SentOnce
  BY DEF DrainInv
<1> QED BY <1>1, DrainsKeepFaith, PTL

\* A single copy offers no button of a task that is not its reader's any more, once
\* everybody who has it in hand is done, unless it is in doubt or the edit that was to
\* take it off was refused or lost.
THEOREM ButtonsRetired == Spec => []NoButtonOutlivesItsTask
<1>1. ASSUME DrainInv
      PROVE  NoButtonOutlivesItsTask
  <2> USE <1>1 DEF DrainInv
  <2> SUFFICES ASSUME NEW r \in Rows, r \notin Digests, r \notin doubt, r \notin unedited,
                      NEW i \in DOMAIN chat[r], NEW k \in chat[r][i],
                      k \notin Mine(row[r].list, row[r].user)
               PROVE  InHand(r)
    BY DEF NoButtonOutlivesItsTask
  <2>1. chat[r] \in Seq(SUBSET Tasks) /\ Len(chat[r]) <= 1 /\ Len(chat[r]) \in Nat
    BY DEF TypeOK, SentOnce
  <2>2. i = 1 /\ chat[r] # <<>> /\ 1 \in 1..Len(chat[r])
    BY <2>1
  <2>3. k \in row[r].list /\ k \in Tasks
    <3>1. k \in row[r].list
      BY <2>2 DEF ChatFits
    <3>2. row[r].list \in SUBSET Tasks
      BY DEF TypeOK, Row
    <3> QED BY <3>1, <3>2
  <2>4. ~(task[k].open /\ task[k].holder = row[r].user)
    BY SMTT(20), <2>3 DEF Mine
  <2>5. CASE \E w \in Drains : Delivered(w) /\ Current(w).row = r
    <3>1. PICK w \in Drains : Delivered(w) /\ Current(w).row = r
      BY <2>5
    <3>2. 1 \in DOMAIN drain[w].todo /\ r = drain[w].todo[1].row
      BY <3>1, InTheHand DEF AtWork, Delivered
    <3> QED BY <3>2 DEF InHand, Hold
  <2>6. CASE \E x \in retires : Covers(x, r, k)
    BY <2>6 DEF InHand, Covers
  <2> QED BY <2>2, <2>3, <2>4, <2>5, <2>6 DEF ButtonsCovered
<1> QED BY <1>1, DrainsKeepFaith, PTL
=============================================================================
