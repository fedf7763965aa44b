------------------------------ MODULE IssueGate ------------------------------
(***************************************************************************)
(* The issue counter of one warehouse and one of its clients.  Cartons     *)
(* leave against two gates, a debt and a missing price; each is opened by  *)
(* the tick of somebody who may, or by a recorded approval, good for one   *)
(* handover, of the debt and the cartons its decider was shown.            *)
(*                                                                         *)
(* A press of the issue button reads the ledger on its own and then runs   *)
(* one transaction, which holds the cartons' rows and the approval's from  *)
(* its questions to its commit.  A request and a verdict are two steps     *)
(* each, the second of which is a statement of its own.                    *)
(***************************************************************************)
EXTENDS Naturals, FiniteSets

CONSTANTS
  Cartons,    \* of the client
  Presses,    \* bound: presses of the button, each with a handover id of its own
  Approvals,  \* bound: issue_approvals rows
  MaxDebt,    \* bound: the blocking debt, in steps of it that matter
  None

ASSUME IssueAssumption ==
  /\ None \notin Presses \cup Approvals
  /\ MaxDebt \in Nat

VARIABLES
  debt,      \* what the client owes and no deferral covers
  priced,    \* cartons some charge covers
  at,        \* boxes: here and issuable, issued, or away
  approval,  \* issue_approvals
  press,     \* presses and their handlers
  handover,  \* handovers, by press: None, or what it let out and on what
  asks,      \* requests that have asked and not inserted
  verdicts   \* verdicts that have read their request and not written

vars == <<debt, priced, at, approval, press, handover, asks, verdicts>>

Question == [debt: 0..MaxDebt, boxes: SUBSET Cartons]
Row      == [status: {"none", "pending", "approved", "refused", "consumed"}, live: BOOLEAN,
             debt: 0..MaxDebt, boxes: SUBSET Cartons, spent: Presses \cup {None}]
PressRow == [step: {"idle", "ledger", "holding", "answered", "refused", "unheard"},
             boxes: SUBSET Cartons, debtOk: BOOLEAN, priceOk: BOOLEAN, debt: 0..MaxDebt,
             ask: Question, by: Approvals \cup {None}, again: Presses \cup {None}]
AskRow   == [of: Approvals, debt: 0..MaxDebt, boxes: SUBSET Cartons]
Release  == [boxes: SUBSET Cartons, ask: Question, by: Approvals \cup {None}]
Verdict  == [of: Approvals, say: {"approved", "refused"}]

\* No handover is mistaken for its absence.
ASSUME ReleaseAssumption == None \notin Release

TypeOK ==
  /\ debt \in 0..MaxDebt
  /\ priced \subseteq Cartons
  /\ at \in [Cartons -> {"here", "issued", "away"}]
  /\ approval \in [Approvals -> Row]
  /\ press \in [Presses -> PressRow]
  /\ handover \in [Presses -> Release \cup {None}]
  /\ asks \subseteq AskRow
  /\ verdicts \subseteq Verdict
  \* the table's own check
  /\ \A a \in Approvals : approval[a].status = "consumed" <=> approval[a].spent # None

Nothing == [debt |-> 0, boxes |-> {}]
Idle    == [step |-> "idle", boxes |-> {}, debtOk |-> FALSE, priceOk |-> FALSE, debt |-> 0,
            ask |-> Nothing, by |-> None, again |-> None]

Init ==
  /\ debt \in 0..MaxDebt
  /\ priced \in SUBSET Cartons
  /\ at \in [Cartons -> {"here", "away"}]
  /\ approval = [a \in Approvals |-> [status |-> "none", live |-> FALSE, debt |-> 0, boxes |-> {},
                                      spent |-> None]]
  /\ press = [h \in Presses |-> Idle]
  /\ handover = [h \in Presses |-> None]
  /\ asks = {}
  /\ verdicts = {}

-----------------------------------------------------------------------------
(* The ledger and the trucks go their own way.                              *)

Owe(d) ==
  /\ d \in 0..MaxDebt \ {debt}
  /\ debt' = d
  /\ UNCHANGED <<priced, at, approval, press, handover, asks, verdicts>>

\* A charge is entered for a carton's cargo, or voided.
Charge(c) ==
  /\ priced' = IF c \in priced THEN priced \ {c} ELSE priced \cup {c}
  /\ UNCHANGED <<debt, at, approval, press, handover, asks, verdicts>>

Holding(h) == press[h].step = "holding"
Locked(S)  == \E h \in Presses : Holding(h) /\ press[h].boxes \cap S # {}

\* A carton lands here, or is taken onward.
Move(c) ==
  /\ at[c] # "issued"
  /\ ~Locked({c})
  /\ at' = [at EXCEPT ![c] = IF @ = "here" THEN "away" ELSE "here"]
  /\ UNCHANGED <<debt, priced, approval, press, handover, asks, verdicts>>

-----------------------------------------------------------------------------
(* Whether a permission covers a question.                                  *)

Here == {c \in Cartons : at[c] = "here"}

\* A mistake: the cartons are not compared.
CoversDebtAlone(a, q) == approval[a].debt >= q.debt

\* A debt no greater than the decider saw, and no carton he was not shown.
Covers(a, q) == approval[a].debt >= q.debt /\ q.boxes \subseteq approval[a].boxes

Covering(q) ==
  {a \in Approvals : approval[a].status = "approved" /\ approval[a].live /\ Covers(a, q)}

\* What a press of S has to be permitted, over a debt d.
Asked(S, d, debtOk, priceOk) ==
  [debt |-> IF debtOk THEN 0 ELSE d, boxes |-> IF priceOk THEN {} ELSE S \ priced]

-----------------------------------------------------------------------------
(* The issue button.                                                        *)

\* The operator presses; the handler reads the ledger.
Press(h, S, debtOk, priceOk) ==
  /\ press[h].step = "idle"
  /\ S # {} /\ S \subseteq Here
  /\ press' = [press EXCEPT ![h] = [Idle EXCEPT !.step = "ledger", !.boxes = S, !.debtOk = debtOk,
                                                !.priceOk = priceOk, !.debt = debt]]
  /\ UNCHANGED <<debt, priced, at, approval, handover, asks, verdicts>>

\* No answer came: the operator presses again what the screen still shows, and
\* the screen draws a new handover id.
PressAgain(h, g) ==
  /\ press[h].step = "idle"
  /\ press[g].step = "unheard" /\ \A x \in Presses : press[x].again # g
  /\ press' = [press EXCEPT ![h] = [press[g] EXCEPT !.step = "ledger", !.debt = debt, !.again = g]]
  /\ UNCHANGED <<debt, priced, at, approval, handover, asks, verdicts>>

Refuse(h) ==
  /\ press' = [press EXCEPT ![h] = [Idle EXCEPT !.step = "refused", !.again = press[h].again]]
  /\ UNCHANGED <<debt, priced, at, approval, handover, asks, verdicts>>

Hold(h, q, a) ==
  /\ press' = [press EXCEPT ![h].step = "holding", ![h].ask = q, ![h].by = a]
  /\ UNCHANGED <<debt, priced, at, approval, handover, asks, verdicts>>

Judge(h, spare) ==
  LET S == press[h].boxes
      q == Asked(S, press[h].debt, press[h].debtOk, press[h].priceOk)
  IN IF ~(S \subseteq Here) THEN Refuse(h)
     ELSE IF q = Nothing THEN Hold(h, q, None)
     ELSE IF Covering(q) \cap spare = {} THEN Refuse(h)
     ELSE \E a \in Covering(q) \cap spare : Hold(h, q, a)

Unlocked == {a \in Approvals : \A h \in Presses : ~(Holding(h) /\ press[h].by = a)}

\* Two mistakes: the approval is read and not locked; the cartons are.
BeginUnlocked(h) ==
  /\ press[h].step = "ledger"
  /\ ~Locked(press[h].boxes)
  /\ Judge(h, Approvals)

BeginUnwaiting(h) ==
  /\ press[h].step = "ledger"
  /\ Judge(h, Unlocked)

\* The transaction waits for the cartons, and then asks what it needs and finds
\* a permission nobody else is spending.  Its handover id is new: it is never
\* found to have happened already.
Begin(h) ==
  /\ press[h].step = "ledger"
  /\ ~Locked(press[h].boxes)
  /\ Judge(h, Unlocked)

\* The screen hears of it, or keeps what it would press again.
Answer(h, heard) ==
  press' = [press EXCEPT ![h] =
    IF heard THEN [Idle EXCEPT !.step = "answered"]
             ELSE [@ EXCEPT !.step = "unheard", !.debt = 0, !.ask = Nothing, !.by = None]]

\* A mistake: the approval is marked consumed, and not by what.
CommitUnsigned(h, heard) ==
  /\ Holding(h)
  /\ handover' = [handover EXCEPT ![h] = [boxes |-> press[h].boxes, ask |-> press[h].ask, by |-> press[h].by]]
  /\ approval' = [a \in Approvals |->
       IF a = press[h].by THEN [approval[a] EXCEPT !.status = "consumed"] ELSE approval[a]]
  /\ at' = [c \in Cartons |-> IF c \in press[h].boxes THEN "issued" ELSE at[c]]
  /\ Answer(h, heard)
  /\ UNCHANGED <<debt, priced, asks, verdicts>>

\* The cartons go out, the approval with them; the screen may not hear of it.
Commit(h, heard) ==
  /\ Holding(h)
  /\ handover' = [handover EXCEPT ![h] = [boxes |-> press[h].boxes, ask |-> press[h].ask, by |-> press[h].by]]
  /\ approval' = [a \in Approvals |->
       IF a = press[h].by THEN [approval[a] EXCEPT !.status = "consumed", !.spent = h] ELSE approval[a]]
  /\ at' = [c \in Cartons |-> IF c \in press[h].boxes THEN "issued" ELSE at[c]]
  /\ Answer(h, heard)
  /\ UNCHANGED <<debt, priced, asks, verdicts>>

\* The handler dies before its commit, and nothing happened.
Die(h) ==
  /\ press[h].step \in {"ledger", "holding"}
  /\ Answer(h, FALSE)
  /\ UNCHANGED <<debt, priced, at, approval, handover, asks, verdicts>>

-----------------------------------------------------------------------------
(* Asking for a permission, and deciding.                                   *)

Pending == {a \in Approvals : approval[a].status = "pending"}

\* A request is about everything the gates stop here.
Today == [debt |-> debt, boxes |-> Here \ priced]

\* A mistake, once made: any live approval refuses the request.
MayAskUnlessPermitted ==
  /\ Pending = {} /\ Today # Nothing
  /\ \A a \in Approvals : ~(approval[a].status = "approved" /\ approval[a].live)

MayAsk == Pending = {} /\ Today # Nothing /\ Covering(Today) = {}

Ask(a) ==
  /\ MayAsk
  /\ approval[a].status = "none" /\ \A x \in asks : x.of # a
  /\ asks' = asks \cup {[of |-> a, debt |-> debt, boxes |-> Here \ priced]}
  /\ UNCHANGED <<debt, priced, at, approval, press, handover, verdicts>>

Insert(x) ==
  /\ approval' = [approval EXCEPT ![x.of].status = "pending", ![x.of].debt = x.debt,
                                  ![x.of].boxes = x.boxes]
  /\ asks' = asks \ {x}
  /\ UNCHANGED <<debt, priced, at, press, handover, verdicts>>

ReadToDecide(a, say) ==
  /\ approval[a].status = "pending"
  /\ verdicts' = verdicts \cup {[of |-> a, say |-> say]}
  /\ UNCHANGED <<debt, priced, at, approval, press, handover, asks>>

Write(v) == [approval EXCEPT ![v.of].status = v.say, ![v.of].live = (v.say = "approved")]

\* A mistake: the verdict is written on what was read.
DecideBlindly(v) ==
  /\ verdicts' = verdicts \ {v}
  /\ approval' = Write(v)
  /\ UNCHANGED <<debt, priced, at, press, handover, asks>>

\* Only a request still pending takes a verdict.
Decide(v) ==
  /\ verdicts' = verdicts \ {v}
  /\ approval' = IF approval[v.of].status = "pending" THEN Write(v) ELSE approval
  /\ UNCHANGED <<debt, priced, at, press, handover, asks>>

Expire(a) ==
  /\ approval[a].live
  /\ approval' = [approval EXCEPT ![a].live = FALSE]
  /\ UNCHANGED <<debt, priced, at, press, handover, asks, verdicts>>

Next ==
  \/ \E d \in 0..MaxDebt : Owe(d)
  \/ \E c \in Cartons : Charge(c) \/ Move(c)
  \/ \E h \in Presses :
       \/ \E S \in SUBSET Cartons, debtOk, priceOk \in BOOLEAN : Press(h, S, debtOk, priceOk)
       \/ \E g \in Presses : PressAgain(h, g)
       \/ Begin(h) \/ Die(h)
       \/ \E heard \in BOOLEAN : Commit(h, heard)
  \/ \E a \in Approvals :
       \/ Ask(a)
       \/ \E say \in {"approved", "refused"} : ReadToDecide(a, say)
       \/ Expire(a)
  \/ \E x \in asks : Insert(x)
  \/ \E v \in verdicts : Decide(v)

Spec == Init /\ [][Next]_vars

-----------------------------------------------------------------------------
Released == {h \in Presses : handover[h] # None}

(* What holds at every moment of the two locks.                             *)

\* A handler holds cartons that are here and nobody else holds, and has let
\* nothing out yet.
CartonsHeld ==
  \A h \in Presses :
    /\ press[h].step \in {"idle", "ledger", "holding"} => handover[h] = None
    /\ Holding(h) => /\ press[h].boxes \subseteq Here
                     /\ \A g \in Presses : g # h /\ Holding(g) => press[g].boxes \cap press[h].boxes = {}

\* It holds the approval it needs, which nobody else holds and nobody has spent.
ApprovalHeld ==
  \A h \in Presses : Holding(h) =>
    /\ press[h].ask # Nothing => press[h].by # None
    /\ press[h].by # None => /\ approval[press[h].by].status = "approved"
                             /\ Covers(press[h].by, press[h].ask)
                             /\ \A g \in Presses : g # h /\ Holding(g) => press[g].by # press[h].by

\* A request not yet inserted has a row of its own.
AsksFresh ==
  \A x \in asks : /\ approval[x.of].status = "none"
                  /\ \A y \in asks : y.of = x.of => y = x

-----------------------------------------------------------------------------
\* A permission is spent on one handover, which is the one it names, however many
\* phones press at once.
OneReleasePerApproval ==
  \A a \in Approvals :
    {h \in Released : handover[h].by = a} =
      IF approval[a].status = "consumed" THEN {approval[a].spent} ELSE {}

\* A carton is handed over once, and only what was handed over is issued.
HandedOverOnce ==
  /\ \A c \in Cartons : at[c] = "issued" <=> \E h \in Released : c \in handover[h].boxes
  /\ \A g, h \in Released : g # h => handover[g].boxes \cap handover[h].boxes = {}

\* What a handover had to be permitted, some approval the decider gave permits:
\* nothing leaves on a smaller debt than it read, or with a carton he never saw.
NothingLeavesUnpermitted ==
  \A h \in Released : handover[h].ask # Nothing =>
    /\ handover[h].by # None
    /\ approval[handover[h].by].debt >= handover[h].ask.debt
    /\ handover[h].ask.boxes \subseteq approval[handover[h].by].boxes

\* The counter is never at a dead end: cargo it may not release is covered by a
\* permission, waits for a verdict, or can be asked for.
NoDeadEnd ==
  \A S \in SUBSET Here, debtOk, priceOk \in BOOLEAN :
    LET q == Asked(S, debt, debtOk, priceOk)
    IN q # Nothing /\ Covering(q) = {} => Pending # {} \/ MayAsk

\* An answer stands: a request is decided once, and a refusal never spent.
AnswerStands ==
  [][\A a \in Approvals : approval[a].status \in {"approved", "refused", "consumed"} =>
       \/ approval'[a].status = approval[a].status
       \/ approval[a].status = "approved" /\ approval'[a].status = "consumed"]_vars
=============================================================================
