---------------------------- MODULE ArrivalNotice ----------------------------
(***************************************************************************)
(* The customer's "your cargo has arrived" for one truck: one notice row   *)
(* per client, claimed by the first landing, spoken after a window in      *)
(* which the rest of the truck is scanned, and armed again by a landing    *)
(* that finds it spoken.  A sweep every two minutes tells the staff, then  *)
(* claims what is due, sends it and settles it.  Sweeps overlap and die,   *)
(* cartons land and leave meanwhile.                                       *)
(*                                                                         *)
(* A landing that finds the notice waiting writes nothing to it, so it     *)
(* holds no lock on it: it is two steps, the look and the commit.  One     *)
(* that writes keeps the row locked to its commit and is one step.         *)
(***************************************************************************)
EXTENDS Integers

CONSTANTS
  Cartons,      \* box rows of the truck
  Clients,
  Owner,        \* the client of each carton
  Sweeps,       \* runs of sendDueArrivalNotices
  MaxAttempts,  \* MAX_NOTICE_ATTEMPTS
  None

ASSUME NoticeAssumption ==
  /\ Owner \in [Cartons -> Clients]
  /\ None \notin Clients
  /\ MaxAttempts \in Nat \ {0}

VARIABLES
  where,     \* where each carton is: the truck, a landing's transaction, the
             \* shelf, or handed over
  notice,    \* client_notices, by client
  old,       \* notices being sent, claimed more than ten minutes ago
  sweep,     \* each sweep's place
  told,      \* cartons some message to their customer counted
  staffTold, \* cartons some staff event counted
  credit,    \* history: armings of a client's notice less the messages sent
  doubt,     \* history: notices whose claim outlived or outlasted its sweep
  crossed,   \* history: cartons that landed while a sweep had their notice
  passed     \* history: cartons still in a landing when the staff were told

noticeVars == <<notice, old>>
saidVars   == <<told, staffTold, credit, doubt, crossed, passed>>
vars       == <<where, noticeVars, sweep, saidVars>>

Settled == {"sent", "failed", "skipped"}
NoNotice == [status |-> "absent", attempts |-> 0, due |-> FALSE, staff |-> FALSE]
Idle     == [step |-> "idle", staff |-> {}, todo |-> {}, cur |-> None]
Item     == [client: Clients, attempts: 0..MaxAttempts]

TypeOK ==
  /\ where \in [Cartons -> {"truck", "landing", "shelf", "gone"}]
  /\ notice \in [Clients -> [status : {"absent", "pending", "sending"} \cup Settled,
                             attempts : 0..MaxAttempts, due : BOOLEAN, staff : BOOLEAN]]
  /\ old \subseteq Clients
  /\ sweep \in [Sweeps -> [step : {"idle", "dead", "staff", "send", "sent"},
                           staff : SUBSET Clients, todo : SUBSET Item, cur : Item \cup {None}]]
  /\ told \subseteq Cartons /\ staffTold \subseteq Cartons
  /\ credit \in [Clients -> Int]
  /\ doubt \subseteq Clients /\ crossed \subseteq Cartons /\ passed \subseteq Cartons

Init ==
  /\ where = [k \in Cartons |-> "truck"]
  /\ notice = [c \in Clients |-> NoNotice]
  /\ old = {}
  /\ sweep = [w \in Sweeps |-> Idle]
  /\ told = {} /\ staffTold = {}
  /\ credit = [c \in Clients |-> 0]
  /\ doubt = {} /\ crossed = {} /\ passed = {}

OnShelf(c) == {k \in Cartons : Owner[k] = c /\ where[k] = "shelf"}
Batch(w)   == {x.client : x \in sweep[w].todo}

\* Attempts are compared with the cap alone: counting stops there.
Count(n) == IF n = MaxAttempts THEN n ELSE n + 1

-----------------------------------------------------------------------------
(* Cartons land and leave.                                                  *)

\* A carton that lands while a sweep has its notice.
Crosses(k) ==
  crossed' = IF \E w \in Sweeps : Owner[k] \in Batch(w) THEN crossed \cup {k} ELSE crossed

\* A landing that writes the notice: n is what it becomes.
LandAs(k, n) ==
  LET c == Owner[k]
  IN /\ where[k] = "truck"
     /\ notice[c].status # "pending" \/ notice[c].staff
     /\ where' = [where EXCEPT ![k] = "shelf"]
     /\ notice' = [notice EXCEPT ![c] = n]
     /\ old' = old \ {c}
     /\ credit' = [credit EXCEPT ![c] = @ + 1]
     /\ Crosses(k)
     /\ UNCHANGED <<sweep, told, staffTold, doubt, passed>>

Armed == [NoNotice EXCEPT !.status = "pending"]

\* Two mistakes: a notice the customer had stays sent; the staff are not told again.
LandCustomerToldOnce(k) ==
  LET n == notice[Owner[k]]
  IN LandAs(k, IF n.status = "absent" THEN Armed ELSE [n EXCEPT !.staff = FALSE])

LandStaffToldOnce(k) == LandAs(k, [Armed EXCEPT !.staff = notice[Owner[k]].staff])

\* The first landing claims the notice, and one that finds it spoken, to the
\* customer or to the staff, arms it again with a fresh window.
LandArming(k) == LandAs(k, Armed)

\* One still waiting is left alone: it will count the carton by itself.
LandQuietly(k) ==
  /\ where[k] = "truck"
  /\ notice[Owner[k]].status = "pending" /\ ~notice[Owner[k]].staff
  /\ where' = [where EXCEPT ![k] = "landing"]
  /\ UNCHANGED <<noticeVars, sweep, saidVars>>

LandCommit(k) ==
  /\ where[k] = "landing"
  /\ where' = [where EXCEPT ![k] = "shelf"]
  /\ IF notice[Owner[k]].status # "pending" THEN crossed' = crossed \cup {k} ELSE Crosses(k)
  /\ UNCHANGED <<noticeVars, sweep, told, staffTold, credit, doubt, passed>>

\* The client collects the carton, or it is found elsewhere.
Leave(k) ==
  /\ where[k] = "shelf"
  /\ where' = [where EXCEPT ![k] = "gone"]
  /\ UNCHANGED <<noticeVars, sweep, saidVars>>

\* The window passes.
Due(c) ==
  /\ notice[c].status = "pending" /\ ~notice[c].due
  /\ notice' = [notice EXCEPT ![c].due = TRUE]
  /\ UNCHANGED <<where, old, sweep, saidVars>>

\* Finishing the unload: the totals are final and nobody has to wait.
ReleaseArrivals ==
  /\ \E c \in Clients : notice[c].status = "pending" /\ ~notice[c].due
  /\ notice' = [c \in Clients |->
       IF notice[c].status = "pending" THEN [notice[c] EXCEPT !.due = TRUE] ELSE notice[c]]
  /\ UNCHANGED <<where, old, sweep, saidVars>>

\* Ten minutes pass over a claim.
Age(c) ==
  /\ notice[c].status = "sending"
  /\ c \notin old
  /\ old' = old \cup {c}
  /\ doubt' = doubt \cup {c}
  /\ UNCHANGED <<where, notice, sweep, told, staffTold, credit, crossed, passed>>

-----------------------------------------------------------------------------
(* A sweep.                                                                 *)

\* It first reads which arrivals the staff have not heard of.
Begin(w) ==
  /\ sweep[w].step \in {"idle", "dead"}
  /\ sweep' = [sweep EXCEPT ![w] = [Idle EXCEPT !.step = "staff",
       !.staff = {c \in Clients : notice[c].due /\ ~notice[c].staff}]]
  /\ UNCHANGED <<where, noticeVars, saidVars>>

\* Each is fenced and told in one transaction of its own.
TellStaff(w, c) ==
  /\ sweep[w].step = "staff" /\ c \in sweep[w].staff
  /\ sweep' = [sweep EXCEPT ![w].staff = @ \ {c}]
  /\ IF notice[c].staff
       THEN UNCHANGED <<notice, staffTold, passed>>
       ELSE /\ notice' = [notice EXCEPT ![c].staff = TRUE]
            /\ staffTold' = staffTold \cup OnShelf(c)
            /\ passed' = passed \cup {k \in Cartons : Owner[k] = c /\ where[k] = "landing"}
  /\ UNCHANGED <<where, old, told, credit, doubt, crossed>>

Stale     == {c \in old : notice[c].status = "sending"}
DueNow(S) == {c \in Clients : notice[c].due /\ (notice[c].status = "pending" \/ c \in S)}

\* The staff told, the sweep gives the notices of spent up and claims those of claim.
ClaimThese(w, spent, claim) ==
  /\ sweep[w].step = "staff" /\ sweep[w].staff = {}
  /\ notice' = [c \in Clients |->
       [notice[c] EXCEPT
         !.status = IF c \in spent THEN "failed" ELSE IF c \in claim THEN "sending" ELSE @,
         !.attempts = IF c \in spent THEN Count(@) ELSE IF c \in claim \cap Stale THEN @ + 1 ELSE @]]
  /\ old' = old \ (spent \cup claim)
  /\ sweep' = [sweep EXCEPT ![w] = IF claim = {} THEN Idle ELSE
       [Idle EXCEPT !.step = "send",
                    !.todo = {[client |-> c, attempts |-> notice'[c].attempts] : c \in claim}]]
  /\ UNCHANGED <<where, saidVars>>

\* Three mistakes: what is due is read and not marked; a dead sweep's notices are
\* claimed again without end; or never.
ClaimUnmarked(w) ==
  LET claim == DueNow({})
  IN /\ sweep[w].step = "staff" /\ sweep[w].staff = {}
     /\ sweep' = [sweep EXCEPT ![w] = IF claim = {} THEN Idle ELSE
          [Idle EXCEPT !.step = "send",
                       !.todo = {[client |-> c, attempts |-> notice[c].attempts] : c \in claim}]]
     /\ UNCHANGED <<where, noticeVars, saidVars>>

ClaimUncapped(w)    == ClaimThese(w, {}, DueNow(Stale))
ClaimPendingOnly(w) == ClaimThese(w, {}, DueNow({}))

\* What is due is claimed, what a dead sweep held is claimed again or, out of
\* attempts, given up.
Claim(w) ==
  LET spent == {c \in Stale : notice[c].attempts + 1 >= MaxAttempts}
  IN ClaimThese(w, spent, DueNow(Stale \ spent))

\* Notice x is done with: the next one, or the end of the sweep.
NextNotice(w, x) ==
  LET rest == sweep[w].todo \ {x}
  IN sweep' = [sweep EXCEPT ![w] =
       IF rest = {} THEN Idle ELSE [Idle EXCEPT !.step = "send", !.todo = rest]]

\* The sweep comes to notice x.
Reach(w, x) == sweep[w].step = "send" /\ x \in sweep[w].todo

Settle(c, outcome) ==
  /\ notice' = [notice EXCEPT ![c].status = outcome, ![c].attempts = Count(@)]
  /\ old' = old \ {c}

\* Nothing on the shelf to speak of, or no chat to speak in.
Skip(w, x) ==
  /\ Reach(w, x)
  /\ Settle(x.client, "skipped")
  /\ NextNotice(w, x)
  /\ UNCHANGED <<where, saidVars>>

\* What stands on the shelf is read, and Telegram takes the message.
Push(w, x) ==
  /\ Reach(w, x)
  /\ OnShelf(x.client) # {}
  /\ credit' = [credit EXCEPT ![x.client] = @ - 1]
  /\ told' = told \cup OnShelf(x.client)
  /\ sweep' = [sweep EXCEPT ![w].step = "sent", ![w].cur = x]
  /\ UNCHANGED <<where, noticeVars, staffTold, doubt, crossed, passed>>

\* The row reads sent, whatever it has come to say meanwhile.
SettleSent(w, x) ==
  /\ sweep[w].step = "sent" /\ sweep[w].cur = x
  /\ Settle(x.client, "sent")
  /\ NextNotice(w, x)
  /\ UNCHANGED <<where, saidVars>>

\* Every chat refused for good, or something else failed, which is tried again up
\* to the cap; the cap is judged on what the claim read.
Fail(w, x) ==
  /\ Reach(w, x)
  /\ \E outcome \in {"failed", IF x.attempts + 1 >= MaxAttempts THEN "failed" ELSE "pending"} :
       Settle(x.client, outcome)
  /\ NextNotice(w, x)
  /\ UNCHANGED <<where, saidVars>>

\* Telegram asks to wait, and the attempt is not counted.
Defer(w, x) ==
  /\ Reach(w, x)
  /\ notice' = [notice EXCEPT ![x.client].status = "pending", ![x.client].due = FALSE]
  /\ old' = old \ {x.client}
  /\ NextNotice(w, x)
  /\ UNCHANGED <<where, saidVars>>

\* The bot itself is refused: what is left goes back, unless it is settled.  If
\* some chat had the message before, the notice in hand is sent.
BotDown(w) ==
  LET left == IF sweep[w].step = "sent" THEN Batch(w) \ {sweep[w].cur.client} ELSE Batch(w)
  IN /\ sweep[w].step \in {"send", "sent"}
     /\ notice' = [c \in Clients |->
          IF c \in left /\ notice[c].status = "sending" THEN [notice[c] EXCEPT !.status = "pending"]
          ELSE IF c \in Batch(w) \ left
            THEN [notice[c] EXCEPT !.status = "sent", !.attempts = Count(@)]
          ELSE notice[c]]
     /\ old' = old \ Batch(w)
     /\ sweep' = [sweep EXCEPT ![w] = Idle]
     /\ UNCHANGED <<where, saidVars>>

\* The process dies; what it held stays claimed until it is old.
Die(w) ==
  /\ sweep[w].step \notin {"idle", "dead"}
  /\ sweep' = [sweep EXCEPT ![w] = [Idle EXCEPT !.step = "dead"]]
  /\ doubt' = doubt \cup Batch(w)
  /\ UNCHANGED <<where, noticeVars, told, staffTold, credit, crossed, passed>>

Work(w) ==
  \/ Begin(w) \/ Claim(w)
  \/ \E c \in Clients : TellStaff(w, c)
  \/ \E x \in sweep[w].todo : Skip(w, x) \/ Push(w, x) \/ SettleSent(w, x) \/ Fail(w, x)

Next ==
  \/ \E k \in Cartons : LandArming(k) \/ LandQuietly(k) \/ LandCommit(k) \/ Leave(k)
  \/ \E c \in Clients : Due(c) \/ Age(c)
  \/ ReleaseArrivals
  \/ \E w \in Sweeps :
       Work(w) \/ (\E x \in sweep[w].todo : Defer(w, x)) \/ BotDown(w) \/ Die(w)

\* The cron starts a sweep every two minutes, a sweep that lives goes on, time passes.
Spec ==
  /\ Init /\ [][Next]_vars
  /\ \A w \in Sweeps : WF_vars(Work(w))
  /\ \A c \in Clients : WF_vars(Due(c)) /\ WF_vars(Age(c))

-----------------------------------------------------------------------------
\* Whoever has cargo on the shelf has heard of it, or the notice is still to
\* speak, or it was given up; only a carton that landed while a sweep had the
\* notice may be passed over.
NobodyUntold ==
  \A k \in Cartons \ (told \cup crossed) :
    where[k] = "shelf" => notice[Owner[k]].status \notin {"absent", "sent"}

\* The staff hear of every landing, if not of one whose transaction was open
\* when they were told of the truck.
StaffHear ==
  \A k \in Cartons \ (staffTold \cup passed) : where[k] = "shelf" => ~notice[Owner[k]].staff

\* A customer gets one message per arming of the notice, never one per carton,
\* unless a sweep died or took ten minutes over it.
OneMessagePerArming == \A c \in Clients \ doubt : credit[c] >= 0

\* A notice armed is sent, given up or found to have nothing to say in the end,
\* once sweeps stop dying and Telegram stops asking to wait.
EveryNoticeSettles ==
  <>[][\A w \in Sweeps : ~Die(w) /\ ~BotDown(w) /\ \A x \in sweep[w].todo : ~Defer(w, x)]_vars =>
  \A c \in Clients : notice[c].status = "pending" ~> notice[c].status \in Settled
=============================================================================
