--------------------------- MODULE IssueGateProofs ---------------------------
(***************************************************************************)
(* Proofs about IssueGate, for any cartons, presses, approvals and debts.  *)
(* IssueInv adds to the properties what holds of the two locks; it is kept *)
(* by every step, part by part.                                            *)
(***************************************************************************)
EXTENDS IssueGate, TLAPS

\* What is inductive besides the types.
Promises ==
  /\ CartonsHeld
  /\ ApprovalHeld
  /\ OneReleasePerApproval
  /\ HandedOverOnce
  /\ NothingLeavesUnpermitted

IssueInv == TypeOK /\ AsksFresh /\ Promises

-----------------------------------------------------------------------------
(* Typing.                                                                  *)

\* The values of a press that does nothing are typed.
LEMMA IdleIsTyped == Idle \in PressRow /\ Nothing \in Question
  BY IssueAssumption DEF Idle, Nothing, PressRow, Question

\* What a release asks of an approval is a question.
LEMMA AskedIsTyped ==
  ASSUME NEW S \in SUBSET Cartons, NEW d \in 0..MaxDebt, NEW b1 \in BOOLEAN, NEW b2 \in BOOLEAN
  PROVE  Asked(S, d, b1, b2) \in Question
  BY IssueAssumption DEF Asked, Question

\* A step that changes one press, to a typed row, is typed.
LEMMA PressTyped ==
  ASSUME TypeOK, NEW h \in Presses, NEW r \in PressRow, press' = [press EXCEPT ![h] = r],
         UNCHANGED <<debt, priced, at, approval, handover, asks, verdicts>>
  PROVE  TypeOK'
  BY DEF TypeOK

\* A step that changes the row of one approval, to a typed one, is typed.
LEMMA ApprovalTyped ==
  ASSUME TypeOK, NEW a \in Approvals, NEW r \in Row, approval' = [approval EXCEPT ![a] = r],
         r.status = "consumed" <=> r.spent # None,
         UNCHANGED <<debt, priced, at, press, handover>>,
         asks' \subseteq AskRow, verdicts' \subseteq Verdict
  PROVE  TypeOK'
<1>1. approval' \in [Approvals -> Row]  BY DEF TypeOK
<1>2. \A b \in Approvals : approval'[b].status = "consumed" <=> approval'[b].spent # None
  <2>. TAKE b \in Approvals
  <2>1. CASE b = a  BY <2>1 DEF TypeOK
  <2>2. CASE b # a  BY <2>2 DEF TypeOK
  <2>. QED  BY <2>1, <2>2
<1>. QED  BY <1>1, <1>2 DEF TypeOK

\* A press that has heard its answer, or lost it, is a typed press.
LEMMA AnswerRow ==
  ASSUME TypeOK, NEW h \in Presses, NEW heard \in BOOLEAN
  PROVE  (IF heard THEN [Idle EXCEPT !.step = "answered"]
          ELSE [press[h] EXCEPT !.step = "unheard", !.debt = 0, !.ask = Nothing, !.by = None]) \in PressRow
<1>1. press[h] \in PressRow  BY DEF TypeOK
<1>. QED  BY <1>1, IdleIsTyped, IssueAssumption DEF PressRow, Idle

\* A release that commits is typed: it spends the approval it held.
LEMMA CommitTyped ==
  ASSUME TypeOK, NEW h \in Presses, NEW heard \in BOOLEAN, Commit(h, heard)
  PROVE  TypeOK'
<1>1. press' \in [Presses -> PressRow]
  <2> DEFINE row == IF heard THEN [Idle EXCEPT !.step = "answered"]
                    ELSE [press[h] EXCEPT !.step = "unheard", !.debt = 0, !.ask = Nothing, !.by = None]
  <2>1. row \in PressRow  BY AnswerRow
  <2>2. press' = [press EXCEPT ![h] = row]  BY DEF Commit, Answer
  <2>. HIDE DEF row
  <2>. QED  BY <2>1, <2>2 DEF TypeOK
<1>2. handover' \in [Presses -> Release \cup {None}]
  <2>1. press[h] \in PressRow  BY DEF TypeOK
  <2>2. [boxes |-> press[h].boxes, ask |-> press[h].ask, by |-> press[h].by] \in Release
    BY <2>1 DEF PressRow, Release
  <2>. QED  BY <2>2 DEF Commit, TypeOK
<1>3. approval' \in [Approvals -> Row]
  <2>1. ASSUME NEW a \in Approvals
        PROVE  [approval[a] EXCEPT !.status = "consumed", !.spent = h] \in Row /\ approval[a] \in Row
    BY DEF TypeOK, Row
  <2>. QED  BY <2>1 DEF Commit
<1>4. \A a \in Approvals : approval'[a].status = "consumed" <=> approval'[a].spent # None
  <2>. TAKE a \in Approvals
  <2>1. approval[a] \in Row  BY DEF TypeOK
  <2>. QED  BY <2>1, IssueAssumption DEF Commit, TypeOK, Row
<1>5. at' \in [Cartons -> {"here", "issued", "away"}]  BY DEF Commit, TypeOK
<1>. QED  BY <1>1, <1>2, <1>3, <1>4, <1>5 DEF TypeOK, Commit

\* The transaction refuses, or holds what it asks and the approval that covers it.
LEMMA BeginTyped ==
  ASSUME TypeOK, NEW h \in Presses, Begin(h)
  PROVE  TypeOK'
<1> DEFINE S == press[h].boxes
           q == Asked(S, press[h].debt, press[h].debtOk, press[h].priceOk)
<1>1. press[h] \in PressRow  BY DEF TypeOK
<1>2. q \in Question  BY <1>1, AskedIsTyped DEF PressRow
<1>3. CASE Refuse(h)
  <2>1. [Idle EXCEPT !.step = "refused", !.again = press[h].again] \in PressRow
    BY <1>1, IdleIsTyped DEF PressRow
  <2>. QED  BY <1>3, <2>1, PressTyped DEF Refuse
<1>4. ASSUME NEW a \in Approvals \cup {None}, Hold(h, q, a)
      PROVE  TypeOK'
  <2>1. [press[h] EXCEPT !.step = "holding", !.ask = q, !.by = a] \in PressRow
    BY <1>1, <1>2 DEF PressRow
  <2>2. press' = [press EXCEPT ![h] = [press[h] EXCEPT !.step = "holding", !.ask = q, !.by = a]]
    BY <1>4 DEF Hold, TypeOK
  <2>. QED  BY <1>4, <2>1, <2>2, PressTyped DEF Hold
<1>5. Refuse(h) \/ \E a \in Approvals \cup {None} : Hold(h, q, a)
  BY DEF Begin, Judge, Covering
<1>. QED  BY <1>3, <1>4, <1>5

\* The verdict on an approval is a typed row.
LEMMA DecidedRow ==
  ASSUME NEW r \in Row, NEW say \in {"approved", "refused"}, NEW b \in BOOLEAN
  PROVE  [r EXCEPT !.status = say, !.live = b] \in Row
  BY DEF Row

\* Every step of the counter is typed.
LEMMA StepTyped ==
  ASSUME TypeOK, AsksFresh, [Next]_vars
  PROVE  TypeOK'
<1>1. ASSUME NEW d \in 0..MaxDebt, Owe(d)  PROVE TypeOK'
  BY <1>1 DEF Owe, TypeOK
<1>2. ASSUME NEW c \in Cartons, Charge(c)  PROVE TypeOK'
  BY <1>2 DEF Charge, TypeOK
<1>3. ASSUME NEW c \in Cartons, Move(c)  PROVE TypeOK'
  BY <1>3 DEF Move, TypeOK
<1>4. ASSUME NEW h \in Presses, NEW S \in SUBSET Cartons, NEW b1 \in BOOLEAN, NEW b2 \in BOOLEAN,
             Press(h, S, b1, b2)
      PROVE  TypeOK'
  <2>1. [Idle EXCEPT !.step = "ledger", !.boxes = S, !.debtOk = b1, !.priceOk = b2, !.debt = debt] \in PressRow
    BY IdleIsTyped DEF PressRow, TypeOK
  <2>. QED  BY <1>4, <2>1, PressTyped DEF Press
<1>5. ASSUME NEW h \in Presses, NEW g \in Presses, PressAgain(h, g)  PROVE TypeOK'
  <2>1. [press[g] EXCEPT !.step = "ledger", !.debt = debt, !.again = g] \in PressRow
    BY DEF PressRow, TypeOK
  <2>. QED  BY <1>5, <2>1, PressTyped DEF PressAgain
<1>6. ASSUME NEW h \in Presses, Begin(h)  PROVE TypeOK'
  BY <1>6, BeginTyped
<1>7. ASSUME NEW h \in Presses, Die(h)  PROVE TypeOK'
  <2>1. press' = [press EXCEPT ![h] =
          IF FALSE THEN [Idle EXCEPT !.step = "answered"]
          ELSE [press[h] EXCEPT !.step = "unheard", !.debt = 0, !.ask = Nothing, !.by = None]]
    BY <1>7 DEF Die, Answer
  <2>. QED  BY <1>7, <2>1, AnswerRow, PressTyped DEF Die
<1>8. ASSUME NEW h \in Presses, NEW heard \in BOOLEAN, Commit(h, heard)  PROVE TypeOK'
  BY <1>8, CommitTyped
<1>9. ASSUME NEW a \in Approvals, Ask(a)  PROVE TypeOK'
  <2>1. [of |-> a, debt |-> debt, boxes |-> Here \ priced] \in AskRow
    BY DEF AskRow, Here, TypeOK
  <2>. QED  BY <1>9, <2>1 DEF Ask, TypeOK
<1>10. ASSUME NEW a \in Approvals, NEW say \in {"approved", "refused"}, ReadToDecide(a, say)  PROVE TypeOK'
  BY <1>10 DEF ReadToDecide, TypeOK, Verdict
<1>11. ASSUME NEW a \in Approvals, Expire(a)  PROVE TypeOK'
  <2> DEFINE r == [approval[a] EXCEPT !.live = FALSE]
  <2>1. r \in Row /\ (r.status = "consumed" <=> r.spent # None)  BY DEF TypeOK, Row
  <2>2. approval' = [approval EXCEPT ![a] = r]  BY <1>11 DEF Expire, TypeOK
  <2>. HIDE DEF r
  <2>. QED  BY <1>11, <2>1, <2>2, ApprovalTyped DEF Expire, TypeOK
<1>12. ASSUME NEW x \in asks, Insert(x)  PROVE TypeOK'
  <2> DEFINE r == [approval[x.of] EXCEPT !.status = "pending", !.debt = x.debt, !.boxes = x.boxes]
  <2>1. x \in AskRow /\ x.of \in Approvals  BY DEF TypeOK, AskRow
  <2>2. approval[x.of].status = "none"  BY DEF AsksFresh
  <2>3. r \in Row /\ (r.status = "consumed" <=> r.spent # None)
    BY <2>1, <2>2 DEF TypeOK, Row, AskRow
  <2>4. approval' = [approval EXCEPT ![x.of] = r]  BY <1>12, <2>1 DEF Insert, TypeOK
  <2>. HIDE DEF r
  <2>. QED  BY <1>12, <2>1, <2>3, <2>4, ApprovalTyped DEF Insert, TypeOK
<1>13. ASSUME NEW v \in verdicts, Decide(v)  PROVE TypeOK'
  <2>1. v \in Verdict /\ v.of \in Approvals  BY DEF TypeOK, Verdict
  <2>2. CASE approval[v.of].status = "pending"
    <3> DEFINE r == [approval[v.of] EXCEPT !.status = v.say, !.live = (v.say = "approved")]
    <3>1. r \in Row
      <4>1. approval[v.of] \in Row /\ v.say \in {"approved", "refused"}  BY <2>1 DEF TypeOK, Verdict
      <4>2. (v.say = "approved") \in BOOLEAN  OBVIOUS
      <4>. QED  BY <4>1, <4>2, DecidedRow
    <3>2. r.status = "consumed" <=> r.spent # None  BY <2>1, <2>2 DEF TypeOK, Row, Verdict
    <3>3. approval' = [approval EXCEPT ![v.of] = r]  BY <1>13, <2>1, <2>2 DEF Decide, Write, TypeOK
    <3>. HIDE DEF r
    <3>. QED  BY <1>13, <2>1, <3>1, <3>2, <3>3, ApprovalTyped DEF Decide, TypeOK
  <2>3. CASE approval[v.of].status # "pending"  BY <1>13, <2>3 DEF Decide, TypeOK
  <2>. QED  BY <2>2, <2>3
<1>14. ASSUME UNCHANGED vars  PROVE TypeOK'
  BY <1>14 DEF vars, TypeOK
<1>. QED
  BY <1>1, <1>2, <1>3, <1>4, <1>5, <1>6, <1>7, <1>8, <1>9, <1>10, <1>11, <1>12, <1>13, <1>14 DEF Next

-----------------------------------------------------------------------------
(* What the steps keep.                                                     *)

\* A handover that names an approval has consumed it.
LEMMA SpentIsConsumed ==
  ASSUME TypeOK, OneReleasePerApproval, NEW h \in Released, handover[h].by # None
  PROVE  /\ handover[h].by \in Approvals
         /\ approval[handover[h].by].status = "consumed"
         /\ approval[handover[h].by].spent = h
<1>1. handover[h] \in Release /\ h \in Presses  BY DEF TypeOK, Released
<1>2. handover[h].by \in Approvals  BY <1>1 DEF Release
<1>3. h \in {g \in Released : handover[g].by = handover[h].by}  OBVIOUS
<1>. QED  BY <1>2, <1>3 DEF OneReleasePerApproval

\* Approvals that are approved or consumed keep what they say, and none becomes
\* consumed.
KeepsApprovals ==
  \A a \in Approvals :
    /\ approval[a].status \in {"approved", "consumed"} =>
         /\ approval'[a].status = approval[a].status
         /\ approval'[a].debt = approval[a].debt
         /\ approval'[a].boxes = approval[a].boxes
         /\ approval'[a].spent = approval[a].spent
    /\ approval'[a].status = "consumed" => approval[a].status = "consumed"

\* Steps that touch neither the cartons nor the counter.
LEMMA KeepingKeeps ==
  ASSUME TypeOK, Promises, KeepsApprovals, UNCHANGED <<at, press, handover>>
  PROVE  Promises'
<1>1. CartonsHeld'  BY DEF Promises, CartonsHeld, Holding, Here
<1>2. ApprovalHeld'
  <2> SUFFICES ASSUME NEW h \in Presses, Holding(h)
               PROVE  /\ press[h].ask # Nothing => press[h].by # None
                      /\ press[h].by # None =>
                           /\ approval'[press[h].by].status = "approved"
                           /\ approval'[press[h].by].debt >= press[h].ask.debt
                           /\ press[h].ask.boxes \subseteq approval'[press[h].by].boxes
                           /\ \A g \in Presses : g # h /\ Holding(g) => press[g].by # press[h].by
    BY DEF ApprovalHeld, Holding, Covers
  <2>1. press[h].by \in Approvals \cup {None}  BY DEF TypeOK, PressRow
  <2>. QED  BY <2>1 DEF Promises, ApprovalHeld, KeepsApprovals, Covers
<1>3. OneReleasePerApproval'
  BY DEF Promises, OneReleasePerApproval, KeepsApprovals, Released
<1>4. HandedOverOnce'  BY DEF Promises, HandedOverOnce, Released
<1>5. NothingLeavesUnpermitted'
  <2> SUFFICES ASSUME NEW h \in Released, handover[h].ask # Nothing
               PROVE  /\ handover[h].by # None
                      /\ approval'[handover[h].by].debt >= handover[h].ask.debt
                      /\ handover[h].ask.boxes \subseteq approval'[handover[h].by].boxes
    BY DEF NothingLeavesUnpermitted, Released
  <2>1. handover[h].by # None  BY DEF Promises, NothingLeavesUnpermitted
  <2>. QED  BY <2>1, SpentIsConsumed DEF Promises, NothingLeavesUnpermitted, KeepsApprovals
<1>. QED  BY <1>1, <1>2, <1>3, <1>4, <1>5 DEF Promises

\* Steps of a press that do not begin to hold.
LEMMA PressKeeps ==
  ASSUME TypeOK, Promises, NEW h \in Presses, NEW r \in PressRow, r.step # "holding",
         r.step \in {"idle", "ledger"} => press[h].step \in {"idle", "ledger", "holding"},
         press' = [press EXCEPT ![h] = r], UNCHANGED <<at, approval, handover>>
  PROVE  Promises'
<1>1. \A g \in Presses : press'[g] = IF g = h THEN r ELSE press[g]  BY DEF TypeOK
<1>2. \A g \in Presses : Holding(g)' => Holding(g) /\ press'[g] = press[g]  BY <1>1 DEF Holding
<1>3. CartonsHeld'
  <2> SUFFICES ASSUME NEW g \in Presses
               PROVE  /\ press'[g].step \in {"idle", "ledger", "holding"} => handover[g] = None
                      /\ Holding(g)' => /\ press'[g].boxes \subseteq Here
                                        /\ \A f \in Presses : f # g /\ Holding(f)' =>
                                             press'[f].boxes \cap press'[g].boxes = {}
    BY DEF CartonsHeld, Here, Holding
  <2>1. press'[g].step \in {"idle", "ledger", "holding"} => handover[g] = None
    BY <1>1 DEF Promises, CartonsHeld
  <2>. QED  BY <2>1, <1>2 DEF Promises, CartonsHeld
<1>4. ApprovalHeld'
  <2> SUFFICES ASSUME NEW g \in Presses, Holding(g)'
               PROVE  /\ press'[g].ask # Nothing => press'[g].by # None
                      /\ press'[g].by # None =>
                           /\ approval[press'[g].by].status = "approved"
                           /\ Covers(press'[g].by, press'[g].ask)
                           /\ \A f \in Presses : f # g /\ Holding(f)' => press'[f].by # press'[g].by
    BY DEF ApprovalHeld, Covers
  <2>. QED  BY <1>2 DEF Promises, ApprovalHeld
<1>5. OneReleasePerApproval' /\ HandedOverOnce' /\ NothingLeavesUnpermitted'
  BY DEF Promises, OneReleasePerApproval, HandedOverOnce, NothingLeavesUnpermitted, Released
<1>. QED  BY <1>3, <1>4, <1>5 DEF Promises

\* A transaction that holds cartons and an approval which nobody else held.
LEMMA HoldKeeps ==
  ASSUME TypeOK, Promises, NEW h \in Presses, press[h].step = "ledger",
         ~Locked(press[h].boxes), press[h].boxes \subseteq Here,
         NEW q \in Question, NEW a \in Approvals \cup {None}, Hold(h, q, a),
         q # Nothing => a # None,
         a # None => approval[a].status = "approved" /\ Covers(a, q) /\ a \in Unlocked
  PROVE  Promises'
<1>1. /\ press'[h].step = "holding" /\ press'[h].boxes = press[h].boxes
      /\ press'[h].ask = q /\ press'[h].by = a
  BY DEF Hold, TypeOK, PressRow
<1>2. \A g \in Presses : g # h => press'[g] = press[g]  BY DEF Hold, TypeOK
<1>3. UNCHANGED <<at, approval, handover>>  BY DEF Hold
<1>4. \A g \in Presses : g # h /\ Holding(g) => press[g].boxes \cap press[h].boxes = {}
  BY DEF Locked
<1>5. CartonsHeld'
  <2>. SUFFICES ASSUME NEW g \in Presses
               PROVE  /\ press'[g].step \in {"idle", "ledger", "holding"} => handover[g] = None
                      /\ Holding(g)' => /\ press'[g].boxes \subseteq Here
                                        /\ \A f \in Presses : f # g /\ Holding(f)' =>
                                             press'[f].boxes \cap press'[g].boxes = {}
    BY <1>3 DEF CartonsHeld, Here, Holding
  <2>1. CASE g = h  BY <2>1, <1>1, <1>2, <1>4 DEF Promises, CartonsHeld, Holding
  <2>2. CASE g # h
    <3>1. press'[g].step \in {"idle", "ledger", "holding"} => handover[g] = None
      BY <2>2, <1>2 DEF Promises, CartonsHeld
    <3>2. ASSUME Holding(g)', NEW f \in Presses, f # g, Holding(f)'
          PROVE  press'[f].boxes \cap press'[g].boxes = {}
      <4>1. Holding(g)  BY <3>2, <2>2, <1>2 DEF Holding
      <4>2. CASE f = h  BY <4>1, <4>2, <2>2, <1>1, <1>2, <1>4
      <4>3. CASE f # h  BY <4>1, <4>3, <3>2, <2>2, <1>2 DEF Promises, CartonsHeld, Holding
      <4>. QED  BY <4>2, <4>3
    <3>3. Holding(g)' => press'[g].boxes \subseteq Here
      BY <2>2, <1>2 DEF Promises, CartonsHeld, Holding
    <3>. QED  BY <3>1, <3>2, <3>3
  <2>. QED  BY <2>1, <2>2
<1>6. ApprovalHeld'
  <2>. SUFFICES ASSUME NEW g \in Presses, Holding(g)'
               PROVE  /\ press'[g].ask # Nothing => press'[g].by # None
                      /\ press'[g].by # None =>
                           /\ approval[press'[g].by].status = "approved"
                           /\ Covers(press'[g].by, press'[g].ask)
                           /\ \A f \in Presses : f # g /\ Holding(f)' => press'[f].by # press'[g].by
    BY <1>3 DEF ApprovalHeld, Covers
  <2>1. CASE g = h
    <3>1. ASSUME a # None, NEW f \in Presses, f # h, Holding(f)'
          PROVE  press'[f].by # a
      BY <3>1, <1>2 DEF Unlocked, Holding
    <3>. QED  BY <2>1, <3>1, <1>1
  <2>2. CASE g # h
    <3>1. Holding(g) /\ press'[g] = press[g]  BY <2>2, <1>2 DEF Holding
    <3>2. ASSUME press[g].by # None, NEW f \in Presses, f # g, Holding(f)'
          PROVE  press'[f].by # press[g].by
      <4>1. CASE f = h  BY <4>1, <3>1, <3>2, <1>1 DEF Unlocked
      <4>2. CASE f # h  BY <4>2, <3>1, <3>2, <1>2 DEF Promises, ApprovalHeld, Holding
      <4>. QED  BY <4>1, <4>2
    <3>. QED  BY <3>1, <3>2 DEF Promises, ApprovalHeld
  <2>. QED  BY <2>1, <2>2
<1>7. OneReleasePerApproval' /\ HandedOverOnce' /\ NothingLeavesUnpermitted'
  BY <1>3 DEF Promises, OneReleasePerApproval, HandedOverOnce, NothingLeavesUnpermitted, Released
<1>. QED  BY <1>5, <1>6, <1>7 DEF Promises

\* The gates of a release (issue/service.ts:120-200) keep the promises.
LEMMA BeginKeeps ==
  ASSUME TypeOK, Promises, NEW h \in Presses, Begin(h)
  PROVE  Promises'
<1> DEFINE S == press[h].boxes
           q == Asked(S, press[h].debt, press[h].debtOk, press[h].priceOk)
<1>1. press[h] \in PressRow /\ press[h].step = "ledger" /\ ~Locked(S)  BY DEF Begin, TypeOK
<1>2. q \in Question  BY <1>1, AskedIsTyped DEF PressRow
<1>3. CASE Refuse(h)
  <2> DEFINE r == [Idle EXCEPT !.step = "refused", !.again = press[h].again]
  <2>1. r \in PressRow /\ r.step = "refused"  BY <1>1, IdleIsTyped DEF PressRow, Idle
  <2>2. press' = [press EXCEPT ![h] = r] /\ UNCHANGED <<at, approval, handover>>  BY <1>3 DEF Refuse
  <2>. HIDE DEF r
  <2>. QED  BY <2>1, <2>2, PressKeeps
<1>4. CASE S \subseteq Here /\ q = Nothing /\ Hold(h, q, None)
  BY <1>4, <1>1, <1>2, HoldKeeps
<1>5. ASSUME S \subseteq Here, NEW a \in Covering(q) \cap Unlocked, Hold(h, q, a)
      PROVE  Promises'
  <2>1. a \in Approvals /\ approval[a].status = "approved" /\ Covers(a, q)  BY DEF Covering
  <2>2. a # None  BY <2>1, IssueAssumption
  <2>. QED  BY <1>5, <1>1, <1>2, <2>1, <2>2, HoldKeeps
<1>6. \/ Refuse(h)
      \/ S \subseteq Here /\ q = Nothing /\ Hold(h, q, None)
      \/ S \subseteq Here /\ \E a \in Covering(q) \cap Unlocked : Hold(h, q, a)
  BY DEF Begin, Judge
<1>. QED  BY <1>3, <1>4, <1>5, <1>6

\* A carton that lands or leaves for elsewhere keeps the promises.
LEMMA MoveKeeps ==
  ASSUME TypeOK, Promises, NEW c \in Cartons, Move(c)
  PROVE  Promises'
<1>1. UNCHANGED <<press, approval, handover>> /\ at[c] # "issued" /\ ~Locked({c})  BY DEF Move
<1>2. \A d \in Cartons : (at'[d] = "issued" <=> at[d] = "issued")
                         /\ (d # c => at'[d] = at[d])
  BY <1>1 DEF Move, TypeOK
<1>3. CartonsHeld'
  <2>. SUFFICES ASSUME NEW h \in Presses, Holding(h)  PROVE press[h].boxes \subseteq Here'
    BY <1>1 DEF Promises, CartonsHeld, Holding
  <2>1. c \notin press[h].boxes  BY <1>1 DEF Locked
  <2>2. press[h].boxes \subseteq Here  BY DEF Promises, CartonsHeld
  <2>. QED  BY <2>1, <2>2, <1>2 DEF Here
<1>4. ApprovalHeld'  BY <1>1 DEF Promises, ApprovalHeld, Holding, Covers
<1>5. HandedOverOnce'  BY <1>1, <1>2 DEF Promises, HandedOverOnce, Released
<1>6. OneReleasePerApproval' /\ NothingLeavesUnpermitted'
  BY <1>1 DEF Promises, OneReleasePerApproval, NothingLeavesUnpermitted, Released
<1>. QED  BY <1>3, <1>4, <1>5, <1>6 DEF Promises

\* What a commit writes.
Committed(h) ==
  /\ h \notin Released /\ Released' = Released \cup {h}
  /\ handover'[h] = [boxes |-> press[h].boxes, ask |-> press[h].ask, by |-> press[h].by]
  /\ \A g \in Presses : g # h => handover'[g] = handover[g] /\ press'[g] = press[g]
  /\ press'[h].step \in {"answered", "unheard"}
  /\ \A a \in Approvals :
       /\ a = press[h].by => /\ approval[a].status = "approved"
                             /\ approval'[a].status = "consumed" /\ approval'[a].spent = h
       /\ a # press[h].by => approval'[a] = approval[a]
       /\ approval'[a].debt = approval[a].debt /\ approval'[a].boxes = approval[a].boxes
  /\ \A c \in Cartons : at'[c] = IF c \in press[h].boxes THEN "issued" ELSE at[c]
  /\ press[h].boxes \subseteq Here

\* What a release that commits writes, and what it held.
LEMMA CommitWrites ==
  ASSUME TypeOK, Promises, NEW h \in Presses, NEW heard \in BOOLEAN, Commit(h, heard)
  PROVE  Committed(h)
<1> DEFINE rel == [boxes |-> press[h].boxes, ask |-> press[h].ask, by |-> press[h].by]
<1>1. press[h] \in PressRow  BY DEF TypeOK
<1>2. rel \in Release  BY <1>1 DEF PressRow, Release
<1>3. handover' = [handover EXCEPT ![h] = rel]  BY DEF Commit
<1>4. Holding(h) /\ handover[h] = None /\ press[h].boxes \subseteq Here
  BY DEF Commit, Promises, CartonsHeld, Holding
<1>5. handover'[h] = rel /\ \A g \in Presses : g # h => handover'[g] = handover[g]
  <2>. HIDE DEF rel
  <2>. QED  BY <1>3 DEF TypeOK
<1>6. Released' = Released \cup {h}
  <2>. HIDE DEF rel
  <2>. QED  BY <1>2, <1>5, ReleaseAssumption DEF Released
<1>7. press'[h].step \in {"answered", "unheard"} /\ \A g \in Presses : g # h => press'[g] = press[g]
  <2> DEFINE row == IF heard THEN [Idle EXCEPT !.step = "answered"]
                    ELSE [press[h] EXCEPT !.step = "unheard", !.debt = 0, !.ask = Nothing, !.by = None]
  <2>1. press' = [press EXCEPT ![h] = row]  BY DEF Commit, Answer
  <2>2. row.step \in {"answered", "unheard"}  BY <1>1 DEF Idle, PressRow
  <2>. HIDE DEF row
  <2>. QED  BY <2>1, <2>2 DEF TypeOK
<1>8. ASSUME NEW a \in Approvals
      PROVE  /\ a = press[h].by => /\ approval[a].status = "approved"
                                   /\ approval'[a].status = "consumed" /\ approval'[a].spent = h
             /\ a # press[h].by => approval'[a] = approval[a]
             /\ approval'[a].debt = approval[a].debt /\ approval'[a].boxes = approval[a].boxes
  <2>1. approval[a] \in Row  BY DEF TypeOK
  <2>2. a = press[h].by => approval[a].status = "approved"
    BY <1>4, IssueAssumption DEF Promises, ApprovalHeld
  <2>3. approval'[a] = IF a = press[h].by
                       THEN [approval[a] EXCEPT !.status = "consumed", !.spent = h] ELSE approval[a]
    BY DEF Commit
  <2>. QED  BY <2>1, <2>2, <2>3 DEF Row
<1>9. \A c \in Cartons : at'[c] = IF c \in press[h].boxes THEN "issued" ELSE at[c]
  BY DEF Commit
<1>. QED  BY <1>4, <1>5, <1>6, <1>7, <1>8, <1>9 DEF Committed, Released

\* A release that commits (issue/service.ts:202-366) keeps the promises.
LEMMA CommitKeeps ==
  ASSUME TypeOK, Promises, NEW h \in Presses, NEW heard \in BOOLEAN, Commit(h, heard)
  PROVE  Promises'
<1>0. Committed(h)  BY CommitWrites
<1>. USE <1>0 DEF Committed
<1>1. press[h] \in PressRow /\ Holding(h)  BY DEF TypeOK, Commit
<1>2. \A g \in Presses : Holding(g)' => g # h /\ Holding(g)  BY DEF Holding
<1>3. CartonsHeld'
  <2>. SUFFICES ASSUME NEW g \in Presses
                PROVE  /\ press'[g].step \in {"idle", "ledger", "holding"} => handover'[g] = None
                       /\ Holding(g)' => /\ press'[g].boxes \subseteq Here'
                                         /\ \A f \in Presses : f # g /\ Holding(f)' =>
                                              press'[f].boxes \cap press'[g].boxes = {}
    BY DEF CartonsHeld, Holding
  <2>1. press'[g].step \in {"idle", "ledger", "holding"} => handover'[g] = None
    BY DEF Promises, CartonsHeld
  <2>2. ASSUME Holding(g)'  PROVE press'[g].boxes \subseteq Here'
    <3>1. g # h /\ Holding(g)  BY <2>2, <1>2
    <3>2. press[g].boxes \subseteq Here /\ press[g].boxes \cap press[h].boxes = {}
      BY <3>1, <1>1 DEF Promises, CartonsHeld
    <3>. QED  BY <3>1, <3>2 DEF Here
  <2>3. ASSUME Holding(g)', NEW f \in Presses, f # g, Holding(f)'
        PROVE  press'[f].boxes \cap press'[g].boxes = {}
    BY <2>3, <1>2 DEF Promises, CartonsHeld
  <2>. QED  BY <2>1, <2>2, <2>3
<1>4. ApprovalHeld'
  <2>. SUFFICES ASSUME NEW g \in Presses, Holding(g)'
                PROVE  /\ press'[g].ask # Nothing => press'[g].by # None
                       /\ press'[g].by # None =>
                            /\ approval'[press'[g].by].status = "approved"
                            /\ approval'[press'[g].by].debt >= press'[g].ask.debt
                            /\ press'[g].ask.boxes \subseteq approval'[press'[g].by].boxes
                            /\ \A f \in Presses : f # g /\ Holding(f)' => press'[f].by # press'[g].by
    BY DEF ApprovalHeld, Covers, Holding
  <2>1. g # h /\ Holding(g) /\ press'[g] = press[g]  BY <1>2
  <2>2. press[g].by \in Approvals \cup {None}  BY DEF TypeOK, PressRow
  <2>3. press[g].by # None => press[g].by # press[h].by  BY <2>1, <1>1 DEF Promises, ApprovalHeld
  <2>4. ASSUME press[g].by # None, NEW f \in Presses, f # g, Holding(f)'
        PROVE  press'[f].by # press[g].by
    BY <2>4, <2>1, <1>2 DEF Promises, ApprovalHeld
  <2>. QED  BY <2>1, <2>2, <2>3, <2>4 DEF Promises, ApprovalHeld, Covers
<1>5. OneReleasePerApproval'
  <2>. SUFFICES ASSUME NEW a \in Approvals
                PROVE  {g \in Released' : handover'[g].by = a} =
                         IF approval'[a].status = "consumed" THEN {approval'[a].spent} ELSE {}
    BY DEF OneReleasePerApproval
  <2>1. {g \in Released : handover[g].by = a} =
          IF approval[a].status = "consumed" THEN {approval[a].spent} ELSE {}
    BY DEF Promises, OneReleasePerApproval
  <2>2. {g \in Released' : handover'[g].by = a} =
          {g \in Released : handover[g].by = a} \cup (IF press[h].by = a THEN {h} ELSE {})
    BY DEF Released
  <2>3. CASE a = press[h].by  BY <2>1, <2>2, <2>3
  <2>4. CASE a # press[h].by  BY <2>1, <2>2, <2>4
  <2>. QED  BY <2>3, <2>4
<1>6. HandedOverOnce'
  <2>1. \A g \in Released : handover[g].boxes \subseteq Cartons
    BY DEF TypeOK, Released, Release
  <2>2. ASSUME NEW g \in Released  PROVE handover[g].boxes \cap press[h].boxes = {}
    BY <2>1 DEF Promises, HandedOverOnce, Here
  <2>3. ASSUME NEW c \in Cartons
        PROVE  at'[c] = "issued" <=> \E g \in Released' : c \in handover'[g].boxes
    BY DEF Promises, HandedOverOnce, Released
  <2>4. ASSUME NEW f \in Released', NEW g \in Released', f # g
        PROVE  handover'[f].boxes \cap handover'[g].boxes = {}
    <3>1. CASE f = h  BY <3>1, <2>2, <2>4 DEF Released
    <3>2. CASE g = h  BY <3>2, <2>2, <2>4 DEF Released
    <3>3. CASE f # h /\ g # h  BY <3>3, <2>4 DEF Promises, HandedOverOnce, Released
    <3>. QED  BY <3>1, <3>2, <3>3
  <2>. QED  BY <2>3, <2>4 DEF HandedOverOnce
<1>7. NothingLeavesUnpermitted'
  <2>. SUFFICES ASSUME NEW g \in Released', handover'[g].ask # Nothing
                PROVE  /\ handover'[g].by # None
                       /\ approval'[handover'[g].by].debt >= handover'[g].ask.debt
                       /\ handover'[g].ask.boxes \subseteq approval'[handover'[g].by].boxes
    BY DEF NothingLeavesUnpermitted
  <2>1. CASE g = h
    <3>1. press[h].by # None /\ Covers(press[h].by, press[h].ask)
      BY <2>1, <1>1 DEF Promises, ApprovalHeld
    <3>2. press[h].by \in Approvals  BY <3>1, <1>1 DEF PressRow
    <3>. QED  BY <2>1, <3>1, <3>2 DEF Covers
  <2>2. CASE g # h
    <3>1. g \in Released /\ handover'[g] = handover[g]  BY <2>2 DEF Released
    <3>2. handover[g].by # None  BY <3>1 DEF Promises, NothingLeavesUnpermitted
    <3>3. handover[g].by \in Approvals  BY <3>1, <3>2 DEF TypeOK, Released, Release
    <3>. QED  BY <3>1, <3>2, <3>3 DEF Promises, NothingLeavesUnpermitted
  <2>. QED  BY <2>1, <2>2
<1>. QED  BY <1>3, <1>4, <1>5, <1>6, <1>7 DEF Promises

\* The row of an approval after an insert and after a verdict.
LEMMA InsertWrites ==
  ASSUME TypeOK, AsksFresh, NEW x \in asks, Insert(x)
  PROVE  /\ x.of \in Approvals /\ approval[x.of].status = "none"
         /\ approval'[x.of].status = "pending"
         /\ \A a \in Approvals : a # x.of => approval'[a] = approval[a]
         /\ asks' = asks \ {x} /\ UNCHANGED <<at, press, handover>>
<1>1. x.of \in Approvals  BY DEF TypeOK, AskRow
<1>2. approval[x.of].status = "none"  BY DEF AsksFresh
<1> DEFINE r == [approval[x.of] EXCEPT !.status = "pending", !.debt = x.debt, !.boxes = x.boxes]
<1>3. approval' = [approval EXCEPT ![x.of] = r]  BY <1>1 DEF Insert, TypeOK
<1>4. r.status = "pending"  BY <1>1 DEF TypeOK, Row
<1>. HIDE DEF r
<1>. QED  BY <1>1, <1>2, <1>3, <1>4 DEF Insert, TypeOK

\* A verdict writes a pending request, or nothing.
LEMMA DecideWrites ==
  ASSUME TypeOK, NEW v \in verdicts, Decide(v)
  PROVE  /\ v.of \in Approvals
         /\ \A a \in Approvals :
              \/ approval'[a] = approval[a]
              \/ approval[a].status = "pending" /\ approval'[a].status \in {"approved", "refused"}
         /\ UNCHANGED <<asks, at, press, handover>>
<1>1. v.of \in Approvals /\ v.say \in {"approved", "refused"}  BY DEF TypeOK, Verdict
<1>2. CASE approval[v.of].status # "pending"  BY <1>1, <1>2 DEF Decide
<1>3. CASE approval[v.of].status = "pending"
  <2> DEFINE r == [approval[v.of] EXCEPT !.status = v.say, !.live = (v.say = "approved")]
  <2>1. approval' = [approval EXCEPT ![v.of] = r]  BY <1>1, <1>3 DEF Decide, Write, TypeOK
  <2>2. r.status = v.say  BY <1>1 DEF TypeOK, Row
  <2>. HIDE DEF r
  <2>. QED  BY <1>1, <1>3, <2>1, <2>2 DEF Decide, TypeOK
<1>. QED  BY <1>2, <1>3

\* An expiry takes the life of one approval and nothing else.
LEMMA ExpireWrites ==
  ASSUME TypeOK, NEW e \in Approvals, Expire(e)
  PROVE  /\ \A a \in Approvals :
              /\ approval'[a].status = approval[a].status /\ approval'[a].debt = approval[a].debt
              /\ approval'[a].boxes = approval[a].boxes /\ approval'[a].spent = approval[a].spent
         /\ UNCHANGED <<asks, at, press, handover>>
<1> DEFINE r == [approval[e] EXCEPT !.live = FALSE]
<1>1. approval' = [approval EXCEPT ![e] = r]  BY DEF Expire, TypeOK
<1>2. /\ r.status = approval[e].status /\ r.debt = approval[e].debt
      /\ r.boxes = approval[e].boxes /\ r.spent = approval[e].spent
  BY DEF TypeOK, Row
<1>. HIDE DEF r
<1>. QED  BY <1>1, <1>2 DEF Expire, TypeOK

\* Requests not yet inserted keep rows of their own.
LEMMA AsksKept ==
  ASSUME TypeOK, AsksFresh, Promises, [Next]_vars
  PROVE  AsksFresh'
<1>1. CASE UNCHANGED <<approval, asks>>  BY <1>1 DEF AsksFresh
<1>2. ASSUME NEW h \in Presses, NEW heard \in BOOLEAN, Commit(h, heard)  PROVE AsksFresh'
  <2>1. \A a \in Approvals : approval[a].status = "none" => approval'[a].status = "none"
    BY <1>2, CommitWrites DEF Committed
  <2>2. \A x \in asks : x.of \in Approvals  BY DEF TypeOK, AskRow
  <2>. QED  BY <1>2, <2>1, <2>2 DEF AsksFresh, Commit
<1>3. ASSUME NEW a \in Approvals, Ask(a)  PROVE AsksFresh'
  <2>. QED  BY <1>3 DEF Ask, AsksFresh
<1>4. ASSUME NEW x \in asks, Insert(x)  PROVE AsksFresh'
  <2>1. \A y \in asks : y.of \in Approvals /\ (y # x => y.of # x.of)
    BY DEF TypeOK, AskRow, AsksFresh
  <2>. QED  BY <1>4, <2>1, InsertWrites DEF AsksFresh
<1>5. ASSUME NEW v \in verdicts, Decide(v)  PROVE AsksFresh'
  <2>1. \A y \in asks : y.of \in Approvals  BY DEF TypeOK, AskRow
  <2>. QED  BY <1>5, <2>1, DecideWrites DEF AsksFresh
<1>6. ASSUME NEW a \in Approvals, Expire(a)  PROVE AsksFresh'
  <2>1. \A y \in asks : y.of \in Approvals  BY DEF TypeOK, AskRow
  <2>. QED  BY <1>6, <2>1, ExpireWrites DEF AsksFresh
<1>7. \/ UNCHANGED <<approval, asks>>
      \/ \E h \in Presses, heard \in BOOLEAN : Commit(h, heard)
      \/ \E a \in Approvals : Ask(a) \/ Expire(a)
      \/ \E x \in asks : Insert(x)
      \/ \E v \in verdicts : Decide(v)
  BY DEF Next, vars, Owe, Charge, Move, Press, PressAgain, Begin, Judge, Refuse, Hold, Die, ReadToDecide
<1>. QED  BY <1>1, <1>2, <1>3, <1>4, <1>5, <1>6, <1>7

\* Every step keeps the promises.
LEMMA PromisesKept ==
  ASSUME TypeOK, AsksFresh, Promises, [Next]_vars
  PROVE  Promises'
<1>1. CASE UNCHANGED <<approval, at, press, handover>>
  BY <1>1, KeepingKeeps DEF KeepsApprovals
<1>2. ASSUME NEW c \in Cartons, Move(c)  PROVE Promises'
  BY <1>2, MoveKeeps
<1>3. ASSUME NEW h \in Presses, NEW S \in SUBSET Cartons, NEW b1 \in BOOLEAN, NEW b2 \in BOOLEAN,
             Press(h, S, b1, b2)
      PROVE  Promises'
  <2> DEFINE r == [Idle EXCEPT !.step = "ledger", !.boxes = S, !.debtOk = b1, !.priceOk = b2, !.debt = debt]
  <2>1. r \in PressRow /\ r.step = "ledger"  BY IdleIsTyped DEF PressRow, TypeOK, Idle
  <2>2. press' = [press EXCEPT ![h] = r] /\ UNCHANGED <<at, approval, handover>> /\ press[h].step = "idle"
    BY <1>3 DEF Press
  <2>. HIDE DEF r
  <2>. QED  BY <2>1, <2>2, PressKeeps
<1>4. ASSUME NEW h \in Presses, NEW g \in Presses, PressAgain(h, g)  PROVE Promises'
  <2> DEFINE r == [press[g] EXCEPT !.step = "ledger", !.debt = debt, !.again = g]
  <2>1. r \in PressRow /\ r.step = "ledger"  BY DEF PressRow, TypeOK
  <2>2. press' = [press EXCEPT ![h] = r] /\ UNCHANGED <<at, approval, handover>> /\ press[h].step = "idle"
    BY <1>4 DEF PressAgain
  <2>. HIDE DEF r
  <2>. QED  BY <2>1, <2>2, PressKeeps
<1>5. ASSUME NEW h \in Presses, Begin(h)  PROVE Promises'
  BY <1>5, BeginKeeps
<1>6. ASSUME NEW h \in Presses, Die(h)  PROVE Promises'
  <2> DEFINE r == IF FALSE THEN [Idle EXCEPT !.step = "answered"]
                  ELSE [press[h] EXCEPT !.step = "unheard", !.debt = 0, !.ask = Nothing, !.by = None]
  <2>1. r \in PressRow  BY AnswerRow
  <2>2. r.step = "unheard"  BY DEF TypeOK, PressRow
  <2>3. press' = [press EXCEPT ![h] = r] /\ UNCHANGED <<at, approval, handover>>
    BY <1>6 DEF Die, Answer
  <2>. HIDE DEF r
  <2>. QED  BY <2>1, <2>2, <2>3, PressKeeps
<1>7. ASSUME NEW h \in Presses, NEW heard \in BOOLEAN, Commit(h, heard)  PROVE Promises'
  BY <1>7, CommitKeeps
<1>8. ASSUME NEW x \in asks, Insert(x)  PROVE Promises'
  <2>1. KeepsApprovals  BY <1>8, InsertWrites DEF KeepsApprovals
  <2>. QED  BY <1>8, <2>1, InsertWrites, KeepingKeeps
<1>9. ASSUME NEW v \in verdicts, Decide(v)  PROVE Promises'
  <2>1. KeepsApprovals  BY <1>9, DecideWrites DEF KeepsApprovals
  <2>. QED  BY <1>9, <2>1, DecideWrites, KeepingKeeps
<1>10. ASSUME NEW a \in Approvals, Expire(a)  PROVE Promises'
  <2>1. KeepsApprovals  BY <1>10, ExpireWrites DEF KeepsApprovals
  <2>. QED  BY <1>10, <2>1, ExpireWrites, KeepingKeeps
<1>11. \/ UNCHANGED <<approval, at, press, handover>>
       \/ \E c \in Cartons : Move(c)
       \/ \E h \in Presses :
            \/ \E S \in SUBSET Cartons, b1, b2 \in BOOLEAN : Press(h, S, b1, b2)
            \/ \E g \in Presses : PressAgain(h, g)
            \/ Begin(h) \/ Die(h)
            \/ \E heard \in BOOLEAN : Commit(h, heard)
       \/ \E a \in Approvals : Expire(a)
       \/ \E x \in asks : Insert(x)
       \/ \E v \in verdicts : Decide(v)
  BY DEF Next, vars, Owe, Charge, Ask, ReadToDecide
<1>. QED  BY <1>1, <1>2, <1>3, <1>4, <1>5, <1>6, <1>7, <1>8, <1>9, <1>10, <1>11

-----------------------------------------------------------------------------
(* The invariant, and what follows of it.                                   *)

\* The invariant holds at first.
LEMMA InitHolds ==
  ASSUME Init  PROVE IssueInv
<1>1. \A h \in Presses : press[h] = Idle /\ handover[h] = None  BY DEF Init
<1>2. Idle.step = "idle"  BY DEF Idle
<1>3. TypeOK
  <2>1. press \in [Presses -> PressRow]  BY IdleIsTyped DEF Init
  <2>. QED  BY <2>1, IssueAssumption DEF Init, TypeOK, Row
<1>4. Released = {} /\ \A h \in Presses : ~Holding(h)  BY <1>1, <1>2 DEF Released, Holding
<1>5. CartonsHeld /\ ApprovalHeld  BY <1>1, <1>4 DEF CartonsHeld, ApprovalHeld
<1>6. OneReleasePerApproval  BY <1>4 DEF OneReleasePerApproval, Init
<1>7. HandedOverOnce /\ NothingLeavesUnpermitted
  BY <1>4 DEF HandedOverOnce, NothingLeavesUnpermitted, Init
<1>8. AsksFresh  BY DEF AsksFresh, Init
<1>. QED  BY <1>3, <1>5, <1>6, <1>7, <1>8 DEF IssueInv, Promises

\* Every step keeps the invariant.
LEMMA InvKept == IssueInv /\ [Next]_vars => IssueInv'
  BY StepTyped, AsksKept, PromisesKept DEF IssueInv

\* IssueInv always holds: the types, the two locks of the counter's transaction
\* (issue/service.ts), the rows of requests not yet inserted, and the promises.
THEOREM IssueInvariant == Spec => []IssueInv
<1>1. Init => IssueInv  BY InitHolds
<1>. QED  BY <1>1, InvKept, PTL DEF Spec

\* Every variable keeps its type, and an approval is consumed exactly when it
\* names the handover it went to (the check of table issue_approvals).
THEOREM IssueTypes == Spec => []TypeOK
  BY IssueInvariant, PTL DEF IssueInv

\* However many phones press at once, an approval is spent on one handover, the
\* one it names.
THEOREM ApprovalSpentOnce == Spec => []OneReleasePerApproval
<1>1. IssueInv => OneReleasePerApproval  BY DEF IssueInv, Promises
<1>. QED  BY <1>1, IssueInvariant, PTL

\* A carton is issued exactly when one handover let it out.
THEOREM CartonHandedOverOnce == Spec => []HandedOverOnce
<1>1. IssueInv => HandedOverOnce  BY DEF IssueInv, Promises
<1>. QED  BY <1>1, IssueInvariant, PTL

\* A handover past a gate rests on an approval of at least its debt and of every
\* carton it needed permission for.
THEOREM NothingUnpermitted == Spec => []NothingLeavesUnpermitted
<1>1. IssueInv => NothingLeavesUnpermitted  BY DEF IssueInv, Promises
<1>. QED  BY <1>1, IssueInvariant, PTL

\* No step changes an answer, but for an approval that is spent: a verdict written
\* on an older reading of the request finds it decided.
THEOREM AnswersStand == Spec => AnswerStands
<1> DEFINE Stand ==
      \A a \in Approvals : approval[a].status \in {"approved", "refused", "consumed"} =>
        \/ approval'[a].status = approval[a].status
        \/ approval[a].status = "approved" /\ approval'[a].status = "consumed"
<1>1. IssueInv /\ [Next]_vars => [Stand]_vars
  <2> SUFFICES ASSUME IssueInv, Next  PROVE Stand
    OBVIOUS
  <2>0. TypeOK /\ AsksFresh /\ Promises  BY DEF IssueInv
  <2>1. CASE UNCHANGED approval  BY <2>1
  <2>2. ASSUME NEW h \in Presses, NEW heard \in BOOLEAN, Commit(h, heard)  PROVE Stand
    BY <2>0, <2>2, CommitWrites DEF Committed
  <2>3. ASSUME NEW x \in asks, Insert(x)  PROVE Stand
    BY <2>0, <2>3, InsertWrites
  <2>4. ASSUME NEW v \in verdicts, Decide(v)  PROVE Stand
    BY <2>0, <2>4, DecideWrites
  <2>5. ASSUME NEW a \in Approvals, Expire(a)  PROVE Stand
    BY <2>0, <2>5, ExpireWrites
  <2>6. \/ UNCHANGED approval
        \/ \E h \in Presses, heard \in BOOLEAN : Commit(h, heard)
        \/ \E a \in Approvals : Expire(a)
        \/ \E x \in asks : Insert(x)
        \/ \E v \in verdicts : Decide(v)
    BY DEF Next, Owe, Charge, Move, Press, PressAgain, Begin, Judge, Refuse, Hold, Die, Ask, ReadToDecide
  <2>. QED  BY <2>1, <2>2, <2>3, <2>4, <2>5, <2>6
<1>. QED  BY <1>1, IssueInvariant, PTL DEF Spec, AnswerStands

\* The counter is never at a dead end: a permission of everything the gates stop
\* today covers what any one press may ask of it.
THEOREM CounterNeverStuck == Spec => []NoDeadEnd
<1>1. ASSUME TypeOK
      PROVE  NoDeadEnd
  <2>. SUFFICES ASSUME NEW S \in SUBSET Here, NEW debtOk \in BOOLEAN, NEW priceOk \in BOOLEAN,
                       Asked(S, debt, debtOk, priceOk) # Nothing,
                       Covering(Asked(S, debt, debtOk, priceOk)) = {}, Pending = {}
                PROVE  MayAsk
    BY DEF NoDeadEnd
  <2> DEFINE q == Asked(S, debt, debtOk, priceOk)
  <2>1. q.debt \in {0, debt} /\ q.boxes \subseteq Today.boxes /\ Today.debt = debt
    BY DEF Asked, Today
  <2>2. Today # Nothing
    BY DEF Asked, Today, Nothing
  <2>3. ASSUME NEW a \in Approvals, Covers(a, Today)
        PROVE  Covers(a, q)
    <3>1. approval[a].debt \in Nat /\ debt \in Nat
      BY IssueAssumption, <1>1 DEF TypeOK, Row
    <3>. HIDE DEF q
    <3>. QED  BY <2>1, <2>3, <3>1 DEF Covers
  <2>. QED  BY <2>2, <2>3 DEF MayAsk, Covering
<1>. QED  BY <1>1, IssueTypes, PTL
=============================================================================
