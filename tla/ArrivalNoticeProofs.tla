------------------------- MODULE ArrivalNoticeProofs -------------------------
(***************************************************************************)
(* For any cartons, clients, sweeps and cap on attempts: one message per   *)
(* arming, nobody untold, the staff hear.                                  *)
(*                                                                         *)
(* A landing may arm again a notice a sweep still has, and the next sweep  *)
(* claims it beside the first: a notice can be in several batches.  What   *)
(* bounds the messages is a count: each arming not yet spent is a notice   *)
(* waiting or a sweep that has it and has not spoken.                      *)
(***************************************************************************)
EXTENDS ArrivalNotice, FiniteSetTheorems, TLAPS

\* The notices a sweep has and has not yet spoken.
Unsent(w) == IF sweep[w].step = "sent" THEN Batch(w) \ {sweep[w].cur.client} ELSE Batch(w)

\* The sweeps that may still speak a client's notice.
Holders(c) == {w \in Sweeps : c \in Unsent(w)}

Waiting(c) == IF notice[c].status = "pending" THEN 1 ELSE 0

\* A sweep that is not sending has no notice, one that has just sent has the notice it
\* sent, and none has a client's notice twice.
SweepsFit ==
  \A w \in Sweeps :
    /\ sweep[w].step \notin {"send", "sent"} => sweep[w].todo = {}
    /\ sweep[w].step = "sent" => sweep[w].cur \in sweep[w].todo
    /\ \A x, y \in sweep[w].todo : x.client = y.client => x = y

\* A claim ten minutes old is in doubt.
OldInDoubt == old \subseteq doubt

\* The armings of a client's notice that no message has answered are as many as may
\* still be answered, or more.
ArmingsCounted ==
  \A c \in Clients :
    /\ IsFiniteSet(Holders(c))
    /\ c \notin doubt => Cardinality(Holders(c)) + Waiting(c) <= credit[c]

\* What a sweep has just sent told of the whole shelf, but for what came during it.
SentCountsShelf ==
  \A w \in Sweeps : sweep[w].step = "sent" => OnShelf(sweep[w].cur.client) \subseteq told \cup crossed

\* The staff were not told of a truck without its cartons, landed or landing.
StaffCountLandings ==
  \A k \in Cartons \ (staffTold \cup passed) :
    where[k] \in {"landing", "shelf"} => ~notice[Owner[k]].staff

NoticeInv ==
  /\ TypeOK
  /\ SweepsFit
  /\ OldInDoubt
  /\ ArmingsCounted
  /\ SentCountsShelf
  /\ NobodyUntold
  /\ StaffCountLandings
-----------------------------------------------------------------------------
(* Types. *)

Row   == [status : {"absent", "pending", "sending"} \cup Settled,
          attempts : 0..MaxAttempts, due : BOOLEAN, staff : BOOLEAN]
Place == [step : {"idle", "dead", "staff", "send", "sent"},
          staff : SUBSET Clients, todo : SUBSET Item, cur : Item \cup {None}]

\* An attempt counted stays within the cap.
LEMMA CountType == \A n \in 0..MaxAttempts : Count(n) \in 0..MaxAttempts
  BY NoticeAssumption DEF Count

\* A row settled is a row, and the claims that are old are clients'.
LEMMA SettleType ==
  ASSUME TypeOK, NEW c \in Clients, NEW o \in {"sent", "failed", "skipped", "pending"}, Settle(c, o)
  PROVE  /\ notice' \in [Clients -> Row] /\ old' \subseteq Clients
         /\ notice'[c].status = o
         /\ \A d \in Clients : d # c => notice'[d] = notice[d]
         /\ \A d \in Clients : notice'[d].staff = notice[d].staff
<1>1. notice' = [notice EXCEPT ![c] = [notice[c] EXCEPT !.status = o, !.attempts = Count(@)]]
  BY DEF Settle, TypeOK
<1>2. [notice[c] EXCEPT !.status = o, !.attempts = Count(@)] \in Row
  <2>1. notice[c] \in Row /\ Count(notice[c].attempts) \in 0..MaxAttempts
    BY CountType DEF TypeOK, Row
  <2>2. o \in {"absent", "pending", "sending"} \cup Settled
    BY DEF Settled
  <2> QED BY <2>1, <2>2 DEF Row
<1> QED BY <1>1, <1>2 DEF TypeOK, Row, Settle

\* The step to the next notice, or to the end, drops the one done with.
LEMMA NextNoticeType ==
  ASSUME TypeOK, NEW w \in Sweeps, NEW x \in sweep[w].todo, NextNotice(w, x)
  PROVE  /\ sweep' \in [Sweeps -> Place]
         /\ sweep'[w].todo = sweep[w].todo \ {x}
         /\ sweep'[w].step = IF sweep[w].todo \ {x} = {} THEN "idle" ELSE "send"
         /\ \A v \in Sweeps : v # w => sweep'[v] = sweep[v]
<1> DEFINE rest == sweep[w].todo \ {x}
<1>1. rest \in SUBSET Item
  BY DEF TypeOK
<1>2. Idle \in Place /\ Idle.todo = {} /\ Idle.step = "idle"
  BY DEF Idle, Place
<1>3. /\ [Idle EXCEPT !.step = "send", !.todo = rest] \in Place
      /\ [Idle EXCEPT !.step = "send", !.todo = rest].todo = rest
      /\ [Idle EXCEPT !.step = "send", !.todo = rest].step = "send"
  BY <1>1 DEF Idle, Place
<1>4. sweep' = [sweep EXCEPT ![w] =
                  IF rest = {} THEN Idle ELSE [Idle EXCEPT !.step = "send", !.todo = rest]]
  BY DEF NextNotice
<1> HIDE DEF rest
<1> QED BY <1>2, <1>3, <1>4 DEF TypeOK, Place, rest

\* What a sweep claims is marked and counted within the cap, each client's notice once.
LEMMA ClaimType ==
  ASSUME TypeOK, NEW w \in Sweeps, Claim(w)
  PROVE  \E claim \in SUBSET Clients, spent \in SUBSET Stale :
           /\ TypeOK'
           /\ claim \subseteq DueNow(Stale) /\ claim \cap spent = {}
           /\ \A c \in claim : notice'[c].status = "sending"
           /\ \A c \in spent : notice'[c].status = "failed"
           /\ \A c \in Clients \ (claim \cup spent) : notice'[c].status = notice[c].status
           /\ \A c \in Clients : notice'[c].staff = notice[c].staff
           /\ Batch(w)' = claim
           /\ \A x, y \in sweep'[w].todo : x.client = y.client => x = y
           /\ sweep'[w].step \in {"idle", "send"}
           /\ sweep'[w].step = "idle" => sweep'[w].todo = {}
           /\ \A v \in Sweeps : v # w => sweep'[v] = sweep[v]
<1> DEFINE spent == {c \in Stale : notice[c].attempts + 1 >= MaxAttempts}
           claim == DueNow(Stale \ spent)
           todo  == {[client |-> c, attempts |-> notice'[c].attempts] : c \in claim}
<1>1. ClaimThese(w, spent, claim)
  BY DEF Claim
<1>2. spent \subseteq Stale /\ claim \subseteq DueNow(Stale) /\ claim \subseteq Clients
  BY DEF DueNow
<1>3. claim \cap spent = {}
  BY DEF DueNow, Stale
<1>4. spent \subseteq Clients /\ \A c \in claim \cap Stale : notice[c].attempts + 1 < MaxAttempts
  <2>1. Stale \subseteq Clients
    BY DEF Stale, TypeOK
  <2>2. \A c \in Clients : notice[c].attempts \in Nat
    BY DEF TypeOK
  <2> QED BY <1>2, <1>3, <2>1, <2>2, NoticeAssumption
<1> HIDE DEF spent, claim
<1>5. notice' = [c \in Clients |->
         [notice[c] EXCEPT
           !.status = IF c \in spent THEN "failed" ELSE IF c \in claim THEN "sending" ELSE @,
           !.attempts = IF c \in spent THEN Count(@) ELSE IF c \in claim \cap Stale THEN @ + 1 ELSE @]]
  BY <1>1 DEF ClaimThese
<1>6. ASSUME NEW c \in Clients
      PROVE  /\ notice'[c] \in Row
             /\ notice'[c].status =
                  IF c \in spent THEN "failed" ELSE IF c \in claim THEN "sending" ELSE notice[c].status
             /\ notice'[c].staff = notice[c].staff
  <2> DEFINE st == IF c \in spent THEN "failed" ELSE IF c \in claim THEN "sending" ELSE notice[c].status
             n  == IF c \in spent THEN Count(notice[c].attempts)
                   ELSE IF c \in claim \cap Stale THEN notice[c].attempts + 1 ELSE notice[c].attempts
  <2>1. notice[c] \in Row /\ notice[c].attempts \in 0..MaxAttempts
    BY DEF TypeOK, Row
  <2>2. n \in 0..MaxAttempts
    BY <1>4, <2>1, CountType, NoticeAssumption
  <2>3. st \in {"absent", "pending", "sending"} \cup Settled
    BY <2>1 DEF Row, Settled
  <2> HIDE DEF st, n
  <2>4. notice'[c] = [notice[c] EXCEPT !.status = st, !.attempts = n]
    BY <1>5 DEF st, n
  <2> QED BY <2>1, <2>2, <2>3, <2>4 DEF Row, st
<1>7. notice' \in [Clients -> Row]
  BY <1>5, <1>6
<1>8. todo \in SUBSET Item /\ \A x, y \in todo : x.client = y.client => x = y
  BY <1>2, <1>6 DEF Item, Row
<1>9. {x.client : x \in todo} = claim
  <2>1. ASSUME NEW c \in claim PROVE c \in {x.client : x \in todo}
    <3>1. [client |-> c, attempts |-> notice'[c].attempts] \in todo
      OBVIOUS
    <3> QED BY <3>1
  <2>2. ASSUME NEW x \in todo PROVE x.client \in claim
    OBVIOUS
  <2> QED BY <2>1, <2>2
<1>10. sweep' = [sweep EXCEPT ![w] =
                   IF claim = {} THEN Idle ELSE [Idle EXCEPT !.step = "send", !.todo = todo]]
  BY <1>1 DEF ClaimThese
<1>11. todo = {} <=> claim = {}
  OBVIOUS
<1> HIDE DEF todo
<1> DEFINE d == IF claim = {} THEN Idle ELSE [Idle EXCEPT !.step = "send", !.todo = todo]
<1>12. d \in Place /\ d.todo = todo /\ d.step \in {"idle", "send"} /\ (d.step = "idle" => todo = {})
  BY <1>8, <1>11 DEF Idle, Place
<1> HIDE DEF d
<1>13. sweep' = [sweep EXCEPT ![w] = d]
  BY <1>10 DEF d
<1>14. /\ sweep' \in [Sweeps -> Place]
       /\ sweep'[w].todo = todo /\ sweep'[w].step \in {"idle", "send"}
       /\ sweep'[w].step = "idle" => sweep'[w].todo = {}
       /\ \A v \in Sweeps : v # w => sweep'[v] = sweep[v]
  <2>1. sweep \in [Sweeps -> Place]
    BY DEF TypeOK, Place
  <2> QED BY <1>12, <1>13, <2>1
<1>15. TypeOK'
  BY <1>1, <1>4, <1>7, <1>14 DEF ClaimThese, saidVars, TypeOK, Row, Place
<1>16. Batch(w)' = claim
  BY <1>9, <1>14 DEF Batch
<1> QED BY <1>2, <1>3, <1>4, <1>6, <1>8, <1>14, <1>15, <1>16

-----------------------------------------------------------------------------
(* The count of armings. *)

Has(w, c) == IF c \in Unsent(w) THEN 1 ELSE 0

\* A step of one sweep changes by itself alone who may still speak a notice.
LEMMA HoldersMove ==
  ASSUME NEW w \in Sweeps, NEW c \in Clients, IsFiniteSet(Holders(c)),
         \A v \in Sweeps : v # w => sweep'[v] = sweep[v]
  PROVE  /\ IsFiniteSet(Holders(c)')
         /\ Cardinality(Holders(c)) \in Nat /\ Cardinality(Holders(c)') \in Nat
         /\ Cardinality(Holders(c)') = Cardinality(Holders(c)) + Has(w, c)' - Has(w, c)
<1>1. \A v \in Sweeps : v # w => Unsent(v)' = Unsent(v)
  BY DEF Unsent, Batch
<1>2. Holders(c)' = IF c \in Unsent(w)' THEN Holders(c) \cup {w} ELSE Holders(c) \ {w}
  BY <1>1 DEF Holders
<1>3. w \in Holders(c) <=> c \in Unsent(w)
  BY DEF Holders
<1>4. Cardinality(Holders(c)) \in Nat
  BY FS_CardinalityType
<1>5. CASE c \in Unsent(w)'
  <2>1. Holders(c)' = Holders(c) \cup {w} /\ Has(w, c)' = 1
    BY <1>2, <1>5 DEF Has
  <2>2. /\ IsFiniteSet(Holders(c) \cup {w})
        /\ Cardinality(Holders(c) \cup {w}) =
             IF w \in Holders(c) THEN Cardinality(Holders(c)) ELSE Cardinality(Holders(c)) + 1
    BY FS_AddElement
  <2> QED BY <1>3, <1>4, <2>1, <2>2 DEF Has
<1>6. CASE c \notin Unsent(w)'
  <2>1. Holders(c)' = Holders(c) \ {w} /\ Has(w, c)' = 0
    BY <1>2, <1>6 DEF Has
  <2>2. /\ IsFiniteSet(Holders(c) \ {w})
        /\ Cardinality(Holders(c) \ {w}) =
             IF w \in Holders(c) THEN Cardinality(Holders(c)) - 1 ELSE Cardinality(Holders(c))
    BY FS_RemoveElement
  <2>3. Cardinality(Holders(c) \ {w}) \in Nat
    BY <2>2, FS_CardinalityType
  <2> QED BY <1>3, <1>4, <2>1, <2>2, <2>3 DEF Has
<1> QED BY <1>5, <1>6

\* A step of one sweep keeps the invariant if it speaks or settles no more of a notice
\* than it has, and calls a notice sent only when the shelf was told.
LEMMA SweepKeeps ==
  ASSUME NoticeInv, TypeOK', NEW w \in Sweeps,
         \A v \in Sweeps : v # w => sweep'[v] = sweep[v],
         UNCHANGED <<where, staffTold, crossed, passed>>,
         told \subseteq told', old' \subseteq old, doubt \subseteq doubt',
         sweep'[w].step \notin {"send", "sent"} => sweep'[w].todo = {},
         sweep'[w].step = "sent" =>
           /\ sweep'[w].cur \in sweep'[w].todo
           /\ OnShelf(sweep'[w].cur.client) \subseteq told',
         \A x, y \in sweep'[w].todo : x.client = y.client => x = y,
         \A c \in Clients : notice'[c].staff = notice[c].staff,
         \A c \in Clients : \/ notice'[c].status = notice[c].status
                            \/ notice'[c].status \notin {"absent", "sent"}
                            \/ OnShelf(c) \subseteq told \cup crossed,
         \A c \in Clients \ doubt' :
           Has(w, c)' + Waiting(c)' + credit[c] <= Has(w, c) + Waiting(c) + credit'[c]
  PROVE  NoticeInv'
<1>1. SweepsFit'
  BY DEF NoticeInv, SweepsFit
<1>2. OldInDoubt'
  BY DEF NoticeInv, OldInDoubt
<1>3. ArmingsCounted'
  <2> SUFFICES ASSUME NEW c \in Clients
               PROVE  /\ IsFiniteSet(Holders(c)')
                      /\ c \notin doubt' => Cardinality(Holders(c)') + Waiting(c)' <= credit'[c]
    BY DEF ArmingsCounted
  <2>1. IsFiniteSet(Holders(c))
    BY DEF NoticeInv, ArmingsCounted
  <2>2. /\ IsFiniteSet(Holders(c)')
        /\ Cardinality(Holders(c)) \in Nat /\ Cardinality(Holders(c)') \in Nat
        /\ Cardinality(Holders(c)') = Cardinality(Holders(c)) + Has(w, c)' - Has(w, c)
    BY <2>1, HoldersMove
  <2>3. /\ Has(w, c) \in 0..1 /\ Has(w, c)' \in 0..1
        /\ Waiting(c) \in 0..1 /\ Waiting(c)' \in 0..1
    BY DEF Has, Waiting
  <2>4. credit[c] \in Int /\ credit'[c] \in Int
    BY DEF NoticeInv, TypeOK
  <2>5. c \notin doubt => Cardinality(Holders(c)) + Waiting(c) <= credit[c]
    BY DEF NoticeInv, ArmingsCounted
  <2> QED BY <2>2, <2>3, <2>4, <2>5
<1>4. SentCountsShelf'
  BY DEF NoticeInv, SentCountsShelf, OnShelf
<1>5. NobodyUntold'
  <2> SUFFICES ASSUME NEW k \in Cartons \ (told' \cup crossed'), where'[k] = "shelf"
               PROVE  notice'[Owner[k]].status \notin {"absent", "sent"}
    BY DEF NobodyUntold
  <2>1. Owner[k] \in Clients /\ k \in OnShelf(Owner[k]) /\ k \notin told \cup crossed
    BY NoticeAssumption DEF OnShelf
  <2>2. notice[Owner[k]].status \notin {"absent", "sent"}
    BY <2>1 DEF NoticeInv, NobodyUntold
  <2> QED BY <2>1, <2>2
<1>6. StaffCountLandings'
  <2>1. \A k \in Cartons : Owner[k] \in Clients
    BY NoticeAssumption
  <2> QED BY <2>1 DEF NoticeInv, StaffCountLandings
<1> QED BY <1>1, <1>2, <1>3, <1>4, <1>5, <1>6 DEF NoticeInv

-----------------------------------------------------------------------------
(* The steps of a sweep. *)

\* A sweep begins with no notice.
LEMMA BeginKeeps ==
  ASSUME NoticeInv, NEW w \in Sweeps, Begin(w)
  PROVE  NoticeInv'
<1> DEFINE d == [Idle EXCEPT !.step = "staff",
                             !.staff = {c \in Clients : notice[c].due /\ ~notice[c].staff}]
<1>1. d \in Place /\ d.step = "staff" /\ d.todo = {}
  BY DEF Idle, Place
<1>2. sweep' = [sweep EXCEPT ![w] = d]
  BY DEF Begin
<1> HIDE DEF d
<1>3. sweep \in [Sweeps -> Place]
  BY DEF NoticeInv, TypeOK, Place
<1>4. /\ sweep' \in [Sweeps -> Place] /\ sweep'[w] = d
      /\ \A v \in Sweeps : v # w => sweep'[v] = sweep[v]
  BY <1>1, <1>2, <1>3
<1>5. TypeOK'
  BY <1>4 DEF Begin, noticeVars, saidVars, NoticeInv, TypeOK, Place
<1>6. sweep[w].step \in {"idle", "dead"} /\ sweep[w].todo = {}
  BY DEF Begin, NoticeInv, SweepsFit
<1>7. \A c \in Clients : Has(w, c) = 0 /\ Has(w, c)' = 0 /\ Waiting(c)' = Waiting(c)
  BY <1>1, <1>4, <1>6 DEF Has, Unsent, Batch, Waiting, Begin, noticeVars
<1>8. \A c \in Clients : Waiting(c) \in 0..1 /\ credit[c] \in Int
  BY DEF Waiting, NoticeInv, TypeOK
<1>9. UNCHANGED <<where, notice, old, told, staffTold, credit, doubt, crossed, passed>>
  BY DEF Begin, noticeVars, saidVars
<1>10. \A c \in Clients \ doubt' :
         Has(w, c)' + Waiting(c)' + credit[c] <= Has(w, c) + Waiting(c) + credit'[c]
  BY <1>7, <1>8, <1>9
<1> QED BY <1>1, <1>4, <1>5, <1>9, <1>10, SweepKeeps

\* A claim trades a notice that waits for a sweep that has it; one claimed again or given
\* up is in doubt.
LEMMA ClaimKeeps ==
  ASSUME NoticeInv, NEW w \in Sweeps, Claim(w)
  PROVE  NoticeInv'
<1>1. PICK claim \in SUBSET Clients, spent \in SUBSET Stale :
        /\ TypeOK'
        /\ claim \subseteq DueNow(Stale) /\ claim \cap spent = {}
        /\ \A c \in claim : notice'[c].status = "sending"
        /\ \A c \in spent : notice'[c].status = "failed"
        /\ \A c \in Clients \ (claim \cup spent) : notice'[c].status = notice[c].status
        /\ \A c \in Clients : notice'[c].staff = notice[c].staff
        /\ Batch(w)' = claim
        /\ \A x, y \in sweep'[w].todo : x.client = y.client => x = y
        /\ sweep'[w].step \in {"idle", "send"}
        /\ sweep'[w].step = "idle" => sweep'[w].todo = {}
        /\ \A v \in Sweeps : v # w => sweep'[v] = sweep[v]
  BY ClaimType DEF NoticeInv
<1>2. /\ UNCHANGED <<where, told, staffTold, credit, doubt, crossed, passed>>
      /\ old' \subseteq old /\ sweep[w].step = "staff"
  BY DEF Claim, ClaimThese, saidVars
<1>3. Stale \subseteq doubt
  BY DEF Stale, NoticeInv, OldInDoubt
<1>4. Unsent(w) = {} /\ Unsent(w)' = claim
  BY <1>1, <1>2 DEF Unsent, Batch, NoticeInv, SweepsFit
<1>5. ASSUME NEW c \in Clients \ doubt'
      PROVE  Has(w, c)' + Waiting(c)' + credit[c] <= Has(w, c) + Waiting(c) + credit'[c]
  <2>1. c \in claim => notice[c].status = "pending"
    BY <1>1, <1>2, <1>3 DEF DueNow
  <2>2. c \notin spent
    BY <1>1, <1>2, <1>3
  <2>3. Has(w, c)' + Waiting(c)' = Has(w, c) + Waiting(c)
    BY <1>1, <1>4, <2>1, <2>2 DEF Has, Waiting
  <2>4. credit'[c] = credit[c] /\ credit[c] \in Int
    BY <1>2 DEF NoticeInv, TypeOK
  <2>5. Has(w, c) \in 0..1 /\ Has(w, c)' \in 0..1 /\ Waiting(c) \in 0..1 /\ Waiting(c)' \in 0..1
    BY DEF Has, Waiting
  <2> QED BY <2>3, <2>4, <2>5
<1>6. \A c \in Clients : \/ notice'[c].status = notice[c].status
                         \/ notice'[c].status \notin {"absent", "sent"}
  BY <1>1
<1> QED BY <1>1, <1>2, <1>5, <1>6, SweepKeeps

\* A sweep done with a notice no longer has it, and has the others still.
LEMMA NextNoticeHas ==
  ASSUME NoticeInv, NEW w \in Sweeps, NEW x \in sweep[w].todo, NextNotice(w, x)
  PROVE  /\ x.client \in Clients
         /\ Unsent(w)' = Batch(w) \ {x.client}
         /\ x.client \in Batch(w)
         /\ sweep'[w].step \notin {"send", "sent"} => sweep'[w].todo = {}
         /\ sweep'[w].step # "sent"
         /\ \A y, z \in sweep'[w].todo : y.client = z.client => y = z
<1>1. /\ sweep'[w].todo = sweep[w].todo \ {x}
      /\ sweep'[w].step = IF sweep[w].todo \ {x} = {} THEN "idle" ELSE "send"
  BY NextNoticeType DEF NoticeInv
<1>2. x \in Item
  BY DEF NoticeInv, TypeOK
<1>3. Batch(w)' = Batch(w) \ {x.client}
  BY <1>1 DEF Batch, NoticeInv, SweepsFit
<1>4. Unsent(w)' = Batch(w)'
  BY <1>1 DEF Unsent
<1> QED BY <1>1, <1>2, <1>3, <1>4 DEF Batch, Item, NoticeInv, SweepsFit

\* A notice skipped, failed, put back or settled as sent leaves its sweep; at most it waits again.
LEMMA SettleKeeps ==
  ASSUME NoticeInv, NEW w \in Sweeps, NEW x \in sweep[w].todo,
         NextNotice(w, x), UNCHANGED <<where, saidVars>>,
         notice' \in [Clients -> Row], old' \subseteq old,
         \A c \in Clients : c # x.client => notice'[c] = notice[c],
         notice'[x.client].staff = notice[x.client].staff,
         \/ sweep[w].step = "send" /\ notice'[x.client].status \in {"skipped", "failed", "pending"}
         \/ /\ sweep[w].step = "sent" /\ sweep[w].cur = x
            /\ notice'[x.client].status = "sent"
  PROVE  NoticeInv'
<1>1. /\ x.client \in Clients /\ x.client \in Batch(w)
      /\ Unsent(w)' = Batch(w) \ {x.client}
      /\ sweep'[w].step \notin {"send", "sent"} => sweep'[w].todo = {}
      /\ sweep'[w].step # "sent"
      /\ \A y, z \in sweep'[w].todo : y.client = z.client => y = z
  BY NextNoticeHas
<1>2. sweep' \in [Sweeps -> Place] /\ \A v \in Sweeps : v # w => sweep'[v] = sweep[v]
  BY NextNoticeType DEF NoticeInv
<1>3. UNCHANGED <<where, told, staffTold, credit, doubt, crossed, passed>>
  BY DEF saidVars
<1>4. TypeOK'
  BY <1>2, <1>3 DEF NoticeInv, TypeOK, Row, Place
<1>5. ASSUME NEW c \in Clients \ doubt'
      PROVE  Has(w, c)' + Waiting(c)' + credit[c] <= Has(w, c) + Waiting(c) + credit'[c]
  <2>1. credit'[c] = credit[c] /\ credit[c] \in Int
    BY <1>3 DEF NoticeInv, TypeOK
  <2>2. Has(w, c) \in 0..1 /\ Has(w, c)' \in 0..1 /\ Waiting(c) \in 0..1 /\ Waiting(c)' \in 0..1
    BY DEF Has, Waiting
  <2>3. CASE c # x.client
    <3>1. Waiting(c)' = Waiting(c)
      BY <2>3 DEF Waiting
    <3>2. Has(w, c)' = Has(w, c)
      BY <1>1, <2>3 DEF Has, Unsent
    <3> QED BY <2>1, <2>2, <3>1, <3>2
  <2>4. CASE c = x.client
    <3>1. Has(w, c)' = 0
      BY <1>1, <2>4 DEF Has
    <3>2. Waiting(c)' <= Has(w, c)
      BY <1>1, <2>4 DEF Has, Unsent, Waiting
    <3> QED BY <2>1, <2>2, <3>1, <3>2
  <2> QED BY <2>3, <2>4
<1>6. \A c \in Clients : notice'[c].staff = notice[c].staff
  OBVIOUS
<1>7. \A c \in Clients : \/ notice'[c].status = notice[c].status
                         \/ notice'[c].status \notin {"absent", "sent"}
                         \/ OnShelf(c) \subseteq told \cup crossed
  BY DEF NoticeInv, SentCountsShelf
<1> QED BY <1>1, <1>2, <1>3, <1>4, <1>5, <1>6, <1>7, SweepKeeps

\* Nothing to speak of, or a failure: the notice is settled, or waits again.
LEMMA SkipOrFailKeeps ==
  ASSUME NoticeInv, NEW w \in Sweeps, NEW x \in sweep[w].todo, Skip(w, x) \/ Fail(w, x)
  PROVE  NoticeInv'
<1>1. PICK o \in {"skipped", "failed", "pending"} : Settle(x.client, o)
  BY DEF Skip, Fail
<1>2. x.client \in Clients
  BY DEF NoticeInv, TypeOK, Item
<1>3. /\ notice' \in [Clients -> Row]
      /\ notice'[x.client].status = o
      /\ \A d \in Clients : d # x.client => notice'[d] = notice[d]
      /\ \A d \in Clients : notice'[d].staff = notice[d].staff
  BY <1>1, <1>2, SettleType DEF NoticeInv
<1>4. old' \subseteq old /\ NextNotice(w, x) /\ UNCHANGED <<where, saidVars>> /\ sweep[w].step = "send"
  BY <1>1 DEF Settle, Skip, Fail, Reach
<1> QED BY <1>2, <1>3, <1>4, SettleKeeps

\* A notice put back because Telegram asks to wait.
LEMMA DeferKeeps ==
  ASSUME NoticeInv, NEW w \in Sweeps, NEW x \in sweep[w].todo, Defer(w, x)
  PROVE  NoticeInv'
<1>1. x.client \in Clients
  BY DEF NoticeInv, TypeOK, Item
<1>2. notice' = [notice EXCEPT ![x.client] = [notice[x.client] EXCEPT !.status = "pending", !.due = FALSE]]
  BY <1>1 DEF Defer, NoticeInv, TypeOK
<1>3. notice \in [Clients -> Row]
  BY DEF NoticeInv, TypeOK, Row
<1>4. /\ [notice[x.client] EXCEPT !.status = "pending", !.due = FALSE] \in Row
      /\ [notice[x.client] EXCEPT !.status = "pending", !.due = FALSE].status = "pending"
      /\ [notice[x.client] EXCEPT !.status = "pending", !.due = FALSE].staff = notice[x.client].staff
  BY <1>1, <1>3 DEF Row
<1>5. /\ notice' \in [Clients -> Row]
      /\ \A c \in Clients : c # x.client => notice'[c] = notice[c]
      /\ notice'[x.client].status = "pending" /\ notice'[x.client].staff = notice[x.client].staff
  BY <1>1, <1>2, <1>3, <1>4
<1>6. old' \subseteq old /\ NextNotice(w, x) /\ UNCHANGED <<where, saidVars>> /\ sweep[w].step = "send"
  BY DEF Defer, Reach
<1> QED BY <1>1, <1>5, <1>6, SettleKeeps

\* A notice spoken is settled as sent: its message told of what stood on the shelf.
LEMMA SettleSentKeeps ==
  ASSUME NoticeInv, NEW w \in Sweeps, NEW x \in sweep[w].todo, SettleSent(w, x)
  PROVE  NoticeInv'
<1>1. x.client \in Clients
  BY DEF NoticeInv, TypeOK, Item
<1>2. /\ notice' \in [Clients -> Row]
      /\ notice'[x.client].status = "sent"
      /\ \A d \in Clients : d # x.client => notice'[d] = notice[d]
      /\ \A d \in Clients : notice'[d].staff = notice[d].staff
  BY <1>1, SettleType DEF NoticeInv, SettleSent
<1>3. /\ old' \subseteq old /\ NextNotice(w, x) /\ UNCHANGED <<where, saidVars>>
      /\ sweep[w].step = "sent" /\ sweep[w].cur = x
  BY DEF Settle, SettleSent
<1> QED BY <1>1, <1>2, <1>3, SettleKeeps

\* A message spends one arming, its sweep's, and counts the whole shelf.
LEMMA PushKeeps ==
  ASSUME NoticeInv, NEW w \in Sweeps, NEW x \in sweep[w].todo, Push(w, x)
  PROVE  NoticeInv'
<1> DEFINE d == [sweep[w] EXCEPT !.step = "sent", !.cur = x]
<1>1. x \in Item /\ x.client \in Clients
  BY DEF NoticeInv, TypeOK, Item
<1>2. sweep \in [Sweeps -> Place]
  BY DEF NoticeInv, TypeOK, Place
<1>3. d \in Place /\ d.step = "sent" /\ d.cur = x /\ d.todo = sweep[w].todo
  BY <1>1, <1>2 DEF Place
<1>4. sweep' = [sweep EXCEPT ![w] = d]
  BY <1>2 DEF Push
<1> HIDE DEF d
<1>5. /\ sweep' \in [Sweeps -> Place]
      /\ sweep'[w].step = "sent" /\ sweep'[w].cur = x /\ sweep'[w].todo = sweep[w].todo
      /\ \A v \in Sweeps : v # w => sweep'[v] = sweep[v]
  BY <1>2, <1>3, <1>4
<1>6. /\ UNCHANGED <<where, notice, old, staffTold, doubt, crossed, passed>>
      /\ told' = told \cup OnShelf(x.client)
      /\ credit' = [credit EXCEPT ![x.client] = @ - 1]
      /\ sweep[w].step = "send"
  BY DEF Push, noticeVars, Reach
<1>7. OnShelf(x.client) \subseteq Cartons
  BY DEF OnShelf
<1>8. TypeOK'
  BY <1>1, <1>5, <1>6, <1>7 DEF NoticeInv, TypeOK, Place
<1>9. Unsent(w)' = Unsent(w) \ {x.client} /\ x.client \in Unsent(w)
  BY <1>5, <1>6 DEF Unsent, Batch
<1>10. ASSUME NEW c \in Clients \ doubt'
       PROVE  Has(w, c)' + Waiting(c)' + credit[c] <= Has(w, c) + Waiting(c) + credit'[c]
  <2>1. credit[c] \in Int /\ Waiting(c)' = Waiting(c) /\ Waiting(c) \in 0..1
    BY <1>6 DEF NoticeInv, TypeOK, Waiting
  <2>2. CASE c = x.client
    <3>1. Has(w, c) = 1 /\ Has(w, c)' = 0 /\ credit'[c] = credit[c] - 1
      BY <1>6, <1>9, <2>2 DEF Has, NoticeInv, TypeOK
    <3> QED BY <2>1, <3>1
  <2>3. CASE c # x.client
    <3>1. Has(w, c)' = Has(w, c) /\ Has(w, c) \in 0..1 /\ credit'[c] = credit[c]
      BY <1>6, <1>9, <2>3 DEF Has, NoticeInv, TypeOK
    <3> QED BY <2>1, <3>1
  <2> QED BY <2>2, <2>3
<1>11. \A y, z \in sweep'[w].todo : y.client = z.client => y = z
  BY <1>5 DEF NoticeInv, SweepsFit
<1>12. OnShelf(sweep'[w].cur.client) \subseteq told'
  BY <1>5, <1>6
<1> QED BY <1>5, <1>6, <1>8, <1>10, <1>11, <1>12, SweepKeeps

\* The bot refused: what was not spoken waits again, what was is sent.
LEMMA BotDownKeeps ==
  ASSUME NoticeInv, NEW w \in Sweeps, BotDown(w)
  PROVE  NoticeInv'
<1> DEFINE left == IF sweep[w].step = "sent" THEN Batch(w) \ {sweep[w].cur.client} ELSE Batch(w)
<1>1. /\ left = Unsent(w)
      /\ sweep[w].step \in {"send", "sent"}
      /\ notice' = [c \in Clients |->
           IF c \in left /\ notice[c].status = "sending" THEN [notice[c] EXCEPT !.status = "pending"]
           ELSE IF c \in Batch(w) \ left
             THEN [notice[c] EXCEPT !.status = "sent", !.attempts = Count(@)]
           ELSE notice[c]]
      /\ sweep' = [sweep EXCEPT ![w] = Idle]
      /\ old' \subseteq old
      /\ UNCHANGED <<where, told, staffTold, credit, doubt, crossed, passed>>
  BY DEF BotDown, Unsent, saidVars
<1> HIDE DEF left
<1>2. sweep \in [Sweeps -> Place] /\ notice \in [Clients -> Row]
  BY DEF NoticeInv, TypeOK, Place, Row
<1>3. ASSUME NEW c \in Clients
      PROVE  /\ notice'[c] \in Row /\ notice'[c].staff = notice[c].staff
             /\ c \in Unsent(w) => notice'[c].status \in {notice[c].status, "pending"}
             /\ c \in Batch(w) \ Unsent(w) => notice'[c].status = "sent"
             /\ c \notin Batch(w) => notice'[c].status = notice[c].status
  <2>1. notice[c] \in Row /\ Count(notice[c].attempts) \in 0..MaxAttempts
    BY <1>2, CountType DEF Row
  <2>2. CASE c \in left /\ notice[c].status = "sending"
    <3>1. notice'[c] = [notice[c] EXCEPT !.status = "pending"]
      BY <1>1, <2>2
    <3>2. c \in Batch(w)
      BY <1>1, <2>2 DEF Unsent
    <3> QED BY <1>1, <2>1, <2>2, <3>1, <3>2 DEF Row
  <2>3. CASE c \in left /\ notice[c].status # "sending"
    <3>1. notice'[c] = notice[c] /\ c \in Batch(w)
      BY <1>1, <2>3 DEF Unsent
    <3> QED BY <1>1, <2>1, <2>3, <3>1
  <2>4. CASE c \in Batch(w) \ left
    <3>1. notice'[c] = [notice[c] EXCEPT !.status = "sent", !.attempts = Count(@)]
      BY <1>1, <2>4
    <3>2. "sent" \in {"absent", "pending", "sending"} \cup Settled
      BY DEF Settled
    <3> QED BY <1>1, <2>1, <2>4, <3>1, <3>2 DEF Row
  <2>5. CASE c \notin Batch(w) /\ c \notin left
    <3>1. notice'[c] = notice[c]
      BY <1>1, <2>5
    <3> QED BY <1>1, <2>1, <2>5, <3>1
  <2> QED BY <2>2, <2>3, <2>4, <2>5
<1>4. Idle \in Place /\ Idle.step = "idle" /\ Idle.todo = {}
  BY DEF Idle, Place
<1>5. /\ sweep' \in [Sweeps -> Place] /\ sweep'[w].step = "idle" /\ sweep'[w].todo = {}
      /\ \A v \in Sweeps : v # w => sweep'[v] = sweep[v]
  BY <1>1, <1>2, <1>4
<1>6. notice' \in [Clients -> Row]
  BY <1>1, <1>3
<1>7. TypeOK'
  BY <1>1, <1>5, <1>6 DEF NoticeInv, TypeOK, Row, Place
<1>8. Unsent(w)' = {}
  BY <1>5 DEF Unsent, Batch
<1>9. ASSUME NEW c \in Clients \ doubt'
      PROVE  Has(w, c)' + Waiting(c)' + credit[c] <= Has(w, c) + Waiting(c) + credit'[c]
  <2>1. credit'[c] = credit[c] /\ credit[c] \in Int /\ Has(w, c)' = 0
    BY <1>1, <1>8 DEF NoticeInv, TypeOK, Has
  <2>2. CASE c \in Unsent(w)
    BY <2>1, <2>2 DEF Has, Waiting
  <2>3. CASE c \notin Unsent(w)
    <3>1. Waiting(c)' <= Waiting(c)
      BY <1>3, <2>3 DEF Waiting
    <3>2. Has(w, c) = 0 /\ Waiting(c) \in 0..1 /\ Waiting(c)' \in 0..1
      BY <2>3 DEF Has, Waiting
    <3> QED BY <2>1, <3>1, <3>2
  <2> QED BY <2>2, <2>3
<1>10. ASSUME NEW c \in Clients
       PROVE  \/ notice'[c].status = notice[c].status
              \/ notice'[c].status \notin {"absent", "sent"}
              \/ OnShelf(c) \subseteq told \cup crossed
  <2>1. CASE c \in Batch(w) \ Unsent(w)
    <3>1. sweep[w].step = "sent" /\ c = sweep[w].cur.client
      BY <2>1 DEF Unsent
    <3> QED BY <3>1 DEF NoticeInv, SentCountsShelf
  <2>2. CASE c \notin Batch(w) \ Unsent(w)
    BY <1>3, <2>2
  <2> QED BY <2>1, <2>2
<1>11. \A c \in Clients : notice'[c].staff = notice[c].staff
  BY <1>3
<1> QED BY <1>1, <1>5, <1>7, <1>9, <1>10, <1>11, SweepKeeps

\* A sweep that dies leaves what it had in doubt.
LEMMA DieKeeps ==
  ASSUME NoticeInv, NEW w \in Sweeps, Die(w)
  PROVE  NoticeInv'
<1>1. /\ UNCHANGED <<where, notice, old, told, staffTold, credit, crossed, passed>>
      /\ doubt' = doubt \cup Batch(w)
      /\ sweep' = [sweep EXCEPT ![w] = [Idle EXCEPT !.step = "dead"]]
  BY DEF Die, noticeVars
<1>2. sweep \in [Sweeps -> Place] /\ Batch(w) \subseteq Clients
  BY DEF NoticeInv, TypeOK, Place, Batch, Item
<1>3. /\ [Idle EXCEPT !.step = "dead"] \in Place
      /\ [Idle EXCEPT !.step = "dead"].step = "dead" /\ [Idle EXCEPT !.step = "dead"].todo = {}
  BY DEF Idle, Place
<1>4. /\ sweep' \in [Sweeps -> Place] /\ sweep'[w].step = "dead" /\ sweep'[w].todo = {}
      /\ \A v \in Sweeps : v # w => sweep'[v] = sweep[v]
  BY <1>1, <1>2, <1>3
<1>5. TypeOK'
  BY <1>1, <1>2, <1>4 DEF NoticeInv, TypeOK, Place
<1>6. ASSUME NEW c \in Clients \ doubt'
      PROVE  Has(w, c)' + Waiting(c)' + credit[c] <= Has(w, c) + Waiting(c) + credit'[c]
  <2>1. Has(w, c) = 0 /\ Has(w, c)' = 0
    BY <1>1, <1>4 DEF Has, Unsent, Batch
  <2>2. Waiting(c)' = Waiting(c) /\ Waiting(c) \in 0..1 /\ credit'[c] = credit[c] /\ credit[c] \in Int
    BY <1>1 DEF Waiting, NoticeInv, TypeOK
  <2> QED BY <2>1, <2>2
<1> QED BY <1>1, <1>4, <1>5, <1>6, SweepKeeps

\* The staff are told of what is landed, and what is still landing is passed over.
LEMMA TellStaffKeeps ==
  ASSUME NoticeInv, NEW w \in Sweeps, NEW c \in Clients, TellStaff(w, c)
  PROVE  NoticeInv'
<1> DEFINE d == [sweep[w] EXCEPT !.staff = @ \ {c}]
<1>1. sweep \in [Sweeps -> Place] /\ notice \in [Clients -> Row]
  BY DEF NoticeInv, TypeOK, Place, Row
<1>2. /\ UNCHANGED <<where, old, told, credit, doubt, crossed>>
      /\ sweep' = [sweep EXCEPT ![w] = d] /\ sweep[w].step = "staff"
  BY <1>1 DEF TellStaff
<1>3. d \in Place /\ d.step = "staff" /\ d.todo = sweep[w].todo
  BY <1>1, <1>2 DEF Place
<1> HIDE DEF d
<1>4. /\ sweep' \in [Sweeps -> Place] /\ sweep'[w].step = "staff"
      /\ sweep[w].todo = {} /\ sweep'[w].todo = {}
      /\ \A v \in Sweeps : v # w => sweep'[v] = sweep[v]
  BY <1>1, <1>2, <1>3 DEF NoticeInv, SweepsFit
<1>5. /\ notice' \in [Clients -> Row]
      /\ \A e \in Clients : notice'[e].status = notice[e].status
      /\ \A e \in Clients : e # c => notice'[e].staff = notice[e].staff
  <2>1. [notice[c] EXCEPT !.staff = TRUE] \in Row
    BY <1>1 DEF Row
  <2>2. \/ notice' = notice
        \/ notice' = [notice EXCEPT ![c] = [notice[c] EXCEPT !.staff = TRUE]]
    BY <1>1 DEF TellStaff
  <2>3. [notice[c] EXCEPT !.staff = TRUE].status = notice[c].status
    BY <1>1 DEF Row
  <2> QED BY <1>1, <2>1, <2>2, <2>3
<1>6. staffTold \subseteq staffTold' /\ staffTold' \subseteq Cartons
  BY DEF TellStaff, OnShelf, NoticeInv, TypeOK
<1>7. passed \subseteq passed' /\ passed' \subseteq Cartons
  BY DEF TellStaff, NoticeInv, TypeOK
<1>8. TypeOK'
  BY <1>2, <1>4, <1>5, <1>6, <1>7 DEF NoticeInv, TypeOK, Row, Place
<1>9. \A v \in Sweeps : Unsent(v)' = Unsent(v)
  BY <1>2, <1>4 DEF Unsent, Batch
<1>10. SweepsFit' /\ OldInDoubt' /\ SentCountsShelf'
  BY <1>2, <1>4 DEF NoticeInv, SweepsFit, OldInDoubt, SentCountsShelf, OnShelf
<1>11. ArmingsCounted'
  <2>1. \A e \in Clients : Holders(e)' = Holders(e) /\ Waiting(e)' = Waiting(e)
    BY <1>5, <1>9 DEF Holders, Waiting
  <2> QED BY <1>2, <2>1 DEF NoticeInv, ArmingsCounted
<1>12. NobodyUntold'
  <2>1. \A k \in Cartons : Owner[k] \in Clients
    BY NoticeAssumption
  <2> QED BY <1>2, <1>5, <2>1 DEF NoticeInv, NobodyUntold
<1>13. StaffCountLandings'
  <2> SUFFICES ASSUME NEW k \in Cartons \ (staffTold' \cup passed'), where[k] \in {"landing", "shelf"}
               PROVE  ~notice'[Owner[k]].staff
    BY <1>2 DEF StaffCountLandings
  <2>1. ~notice[Owner[k]].staff /\ Owner[k] \in Clients
    BY <1>6, <1>7, NoticeAssumption DEF NoticeInv, StaffCountLandings
  <2>2. CASE Owner[k] # c
    BY <1>5, <2>1, <2>2
  <2>3. CASE Owner[k] = c
    <3>1. /\ staffTold' = staffTold \cup OnShelf(c)
          /\ passed' = passed \cup {j \in Cartons : Owner[j] = c /\ where[j] = "landing"}
      BY <2>1, <2>3 DEF TellStaff
    <3> QED BY <2>3, <3>1 DEF OnShelf
  <2> QED BY <2>2, <2>3
<1> QED BY <1>8, <1>10, <1>11, <1>12, <1>13 DEF NoticeInv

-----------------------------------------------------------------------------
(* Cartons and time. *)

\* A landing that arms the notice adds one to the armings, and to what waits.
LEMMA ArmingKeeps ==
  ASSUME NoticeInv, NEW k \in Cartons, LandArming(k)
  PROVE  NoticeInv'
<1> DEFINE c == Owner[k]
<1>1. c \in Clients
  BY NoticeAssumption
<1>2. /\ where[k] = "truck"
      /\ notice[c].status # "pending" \/ notice[c].staff
      /\ where' = [where EXCEPT ![k] = "shelf"]
      /\ notice' = [notice EXCEPT ![c] = Armed]
      /\ old' = old \ {c}
      /\ credit' = [credit EXCEPT ![c] = @ + 1]
      /\ Crosses(k)
      /\ UNCHANGED <<sweep, told, staffTold, doubt, passed>>
  BY DEF LandArming, LandAs
<1>3. Armed \in Row /\ Armed.status = "pending" /\ Armed.staff = FALSE
  <2>1. NoNotice \in Row /\ NoNotice.staff = FALSE
    BY NoticeAssumption DEF NoNotice, Row
  <2> QED BY <2>1 DEF Armed, Row
<1>4. /\ notice' \in [Clients -> Row] /\ notice'[c].status = "pending" /\ ~notice'[c].staff
      /\ \A d \in Clients : d # c => notice'[d] = notice[d]
  BY <1>1, <1>2, <1>3 DEF NoticeInv, TypeOK, Row
<1>5. /\ where' \in [Cartons -> {"truck", "landing", "shelf", "gone"}] /\ where'[k] = "shelf"
      /\ \A j \in Cartons : j # k => where'[j] = where[j]
  BY <1>2 DEF NoticeInv, TypeOK
<1>6. /\ crossed \subseteq crossed' /\ crossed' \subseteq crossed \cup {k}
      /\ (\E w \in Sweeps : c \in Batch(w)) => k \in crossed'
  BY <1>2 DEF Crosses
<1>7. /\ credit' \in [Clients -> Int] /\ credit'[c] = credit[c] + 1
      /\ \A d \in Clients : d # c => credit'[d] = credit[d]
  BY <1>1, <1>2 DEF NoticeInv, TypeOK
<1>8. TypeOK'
  BY <1>2, <1>4, <1>5, <1>6, <1>7 DEF NoticeInv, TypeOK, Row
<1>9. SweepsFit' /\ OldInDoubt'
  BY <1>2 DEF NoticeInv, SweepsFit, OldInDoubt
<1>10. ArmingsCounted'
  <2> SUFFICES ASSUME NEW d \in Clients
               PROVE  /\ IsFiniteSet(Holders(d)')
                      /\ d \notin doubt' => Cardinality(Holders(d)') + Waiting(d)' <= credit'[d]
    BY DEF ArmingsCounted
  <2>1. Holders(d)' = Holders(d)
    BY <1>2 DEF Holders, Unsent, Batch
  <2>2. IsFiniteSet(Holders(d)) /\ Cardinality(Holders(d)) \in Nat
    BY FS_CardinalityType DEF NoticeInv, ArmingsCounted
  <2>3. d \notin doubt => Cardinality(Holders(d)) + Waiting(d) <= credit[d]
    BY DEF NoticeInv, ArmingsCounted
  <2>4. credit[d] \in Int /\ Waiting(d) \in 0..1 /\ Waiting(d)' \in 0..1
    BY DEF NoticeInv, TypeOK, Waiting
  <2>5. CASE d = c
    BY <1>2, <1>7, <2>1, <2>2, <2>3, <2>4, <2>5
  <2>6. CASE d # c
    <3>1. Waiting(d)' = Waiting(d)
      BY <1>4, <2>6 DEF Waiting
    <3> QED BY <1>2, <1>7, <2>1, <2>2, <2>3, <2>6, <3>1
  <2> QED BY <2>5, <2>6
<1>11. SentCountsShelf'
  <2> SUFFICES ASSUME NEW w \in Sweeps, sweep[w].step = "sent",
                      NEW j \in Cartons, Owner[j] = sweep[w].cur.client, where'[j] = "shelf"
               PROVE  j \in told \cup crossed'
    BY <1>2 DEF SentCountsShelf, OnShelf
  <2>1. CASE j = k
    <3>1. c \in Batch(w)
      BY <2>1 DEF NoticeInv, SweepsFit, Batch
    <3> QED BY <1>6, <2>1, <3>1
  <2>2. CASE j # k
    BY <1>5, <1>6, <2>2 DEF NoticeInv, SentCountsShelf, OnShelf
  <2> QED BY <2>1, <2>2
<1>12. NobodyUntold'
  <2> SUFFICES ASSUME NEW j \in Cartons \ (told \cup crossed'), where'[j] = "shelf"
               PROVE  notice'[Owner[j]].status \notin {"absent", "sent"}
    BY <1>2 DEF NobodyUntold
  <2>1. CASE Owner[j] = c
    BY <1>4, <2>1
  <2>2. CASE Owner[j] # c
    <3>1. j # k /\ Owner[j] \in Clients
      BY <2>2, NoticeAssumption
    <3> QED BY <1>4, <1>5, <1>6, <2>2, <3>1 DEF NoticeInv, NobodyUntold
  <2> QED BY <2>1, <2>2
<1>13. StaffCountLandings'
  <2> SUFFICES ASSUME NEW j \in Cartons \ (staffTold \cup passed), where'[j] \in {"landing", "shelf"}
               PROVE  ~notice'[Owner[j]].staff
    BY <1>2 DEF StaffCountLandings
  <2>1. CASE Owner[j] = c
    BY <1>4, <2>1
  <2>2. CASE Owner[j] # c
    <3>1. j # k /\ Owner[j] \in Clients
      BY <2>2, NoticeAssumption
    <3> QED BY <1>4, <1>5, <2>2, <3>1 DEF NoticeInv, StaffCountLandings
  <2> QED BY <2>1, <2>2
<1> QED BY <1>8, <1>9, <1>10, <1>11, <1>12, <1>13 DEF NoticeInv

\* A carton that moves without a word to its notice keeps every count: it may land
\* quietly when the notice waits and the staff were not told, or is known as crossed.
LEMMA CartonKeeps ==
  ASSUME NoticeInv, NEW k \in Cartons, NEW to \in {"landing", "shelf", "gone"},
         where' = [where EXCEPT ![k] = to],
         UNCHANGED <<notice, old, sweep, told, staffTold, credit, doubt, passed>>,
         crossed \subseteq crossed', crossed' \subseteq crossed \cup {k},
         to = "landing" => ~notice[Owner[k]].staff,
         to = "shelf" => where[k] = "landing",
         to = "shelf" => k \in crossed' \/ notice[Owner[k]].status = "pending",
         to = "shelf" => \A w \in Sweeps : Owner[k] \in Batch(w) => k \in crossed'
  PROVE  NoticeInv'
<1>1. /\ where' \in [Cartons -> {"truck", "landing", "shelf", "gone"}] /\ where'[k] = to
      /\ \A j \in Cartons : j # k => where'[j] = where[j]
  BY DEF NoticeInv, TypeOK
<1>2. TypeOK'
  BY <1>1 DEF NoticeInv, TypeOK
<1>3. SweepsFit' /\ OldInDoubt'
  BY DEF NoticeInv, SweepsFit, OldInDoubt
<1>4. ArmingsCounted'
  <2>1. \A c \in Clients : Holders(c)' = Holders(c) /\ Waiting(c)' = Waiting(c)
    BY DEF Holders, Unsent, Batch, Waiting
  <2> QED BY <2>1 DEF NoticeInv, ArmingsCounted
<1>5. SentCountsShelf'
  <2> SUFFICES ASSUME NEW w \in Sweeps, sweep[w].step = "sent",
                      NEW j \in Cartons, Owner[j] = sweep[w].cur.client, where'[j] = "shelf"
               PROVE  j \in told \cup crossed'
    BY DEF SentCountsShelf, OnShelf
  <2>1. Owner[j] \in Batch(w)
    BY DEF NoticeInv, SweepsFit, Batch
  <2>2. CASE j = k
    BY <1>1, <2>1, <2>2
  <2>3. CASE j # k
    BY <1>1, <2>3 DEF NoticeInv, SentCountsShelf, OnShelf
  <2> QED BY <2>2, <2>3
<1>6. NobodyUntold'
  BY <1>1 DEF NoticeInv, NobodyUntold
<1>7. StaffCountLandings'
  BY <1>1 DEF NoticeInv, StaffCountLandings
<1> QED BY <1>2, <1>3, <1>4, <1>5, <1>6, <1>7 DEF NoticeInv

\* Quiet landings, their commits and departures are such moves.
LEMMA LandOrLeaveKeeps ==
  ASSUME NoticeInv, NEW k \in Cartons, LandQuietly(k) \/ LandCommit(k) \/ Leave(k)
  PROVE  NoticeInv'
<1>1. CASE LandQuietly(k)
  BY <1>1, CartonKeeps DEF LandQuietly, noticeVars, saidVars
<1>2. CASE LandCommit(k)
  <2>1. /\ where' = [where EXCEPT ![k] = "shelf"] /\ where[k] = "landing"
        /\ UNCHANGED <<notice, old, sweep, told, staffTold, credit, doubt, passed>>
    BY <1>2 DEF LandCommit, noticeVars
  <2>2. crossed \subseteq crossed' /\ crossed' \subseteq crossed \cup {k}
    BY <1>2 DEF LandCommit, Crosses
  <2>3. k \in crossed' \/ notice[Owner[k]].status = "pending"
    BY <1>2 DEF LandCommit, Crosses
  <2>4. \A w \in Sweeps : Owner[k] \in Batch(w) => k \in crossed'
    BY <1>2 DEF LandCommit, Crosses
  <2> QED BY <2>1, <2>2, <2>3, <2>4, CartonKeeps
<1>3. CASE Leave(k)
  BY <1>3, CartonKeeps DEF Leave, noticeVars, saidVars
<1> QED BY <1>1, <1>2, <1>3

\* Time passing, and the end of an unload, only make what waits due.
LEMMA DueKeeps ==
  ASSUME NoticeInv, (\E c \in Clients : Due(c)) \/ ReleaseArrivals
  PROVE  NoticeInv'
<1>1. notice \in [Clients -> Row]
  BY DEF NoticeInv, TypeOK, Row
<1>2. UNCHANGED <<where, old, sweep, told, staffTold, credit, doubt, crossed, passed>>
  BY DEF Due, ReleaseArrivals, saidVars
<1>3. \A c \in Clients : /\ [notice[c] EXCEPT !.due = TRUE] \in Row
                         /\ [notice[c] EXCEPT !.due = TRUE].status = notice[c].status
                         /\ [notice[c] EXCEPT !.due = TRUE].staff = notice[c].staff
  BY <1>1 DEF Row
<1>4. /\ notice' \in [Clients -> Row]
      /\ \A c \in Clients : /\ notice'[c].status = notice[c].status
                            /\ notice'[c].staff = notice[c].staff
  <2>1. ASSUME NEW c \in Clients, Due(c)
        PROVE notice' = [notice EXCEPT ![c] = [notice[c] EXCEPT !.due = TRUE]]
    BY <1>1, <2>1 DEF Due
  <2>2. CASE \E c \in Clients : Due(c)
    BY <1>1, <1>3, <2>1, <2>2
  <2>3. CASE ReleaseArrivals
    <3>1. notice' = [c \in Clients |->
            IF notice[c].status = "pending" THEN [notice[c] EXCEPT !.due = TRUE] ELSE notice[c]]
      BY <2>3 DEF ReleaseArrivals
    <3>2. ASSUME NEW c \in Clients
          PROVE  /\ notice'[c] \in Row /\ notice'[c].status = notice[c].status
                 /\ notice'[c].staff = notice[c].staff
      <4>1. CASE notice[c].status = "pending"
        <5>1. notice'[c] = [notice[c] EXCEPT !.due = TRUE]
          BY <3>1, <4>1
        <5> QED BY <1>3, <5>1
      <4>2. CASE notice[c].status # "pending"
        <5>1. notice'[c] = notice[c]
          BY <3>1, <4>2
        <5> QED BY <1>1, <5>1
      <4> QED BY <4>1, <4>2
    <3> QED BY <3>1, <3>2
  <2> QED BY <2>2, <2>3
<1>5. TypeOK'
  BY <1>2, <1>4 DEF NoticeInv, TypeOK, Row
<1>6. SweepsFit' /\ OldInDoubt' /\ SentCountsShelf'
  BY <1>2 DEF NoticeInv, SweepsFit, OldInDoubt, SentCountsShelf, OnShelf
<1>7. ArmingsCounted'
  <2>1. \A c \in Clients : Holders(c)' = Holders(c) /\ Waiting(c)' = Waiting(c)
    BY <1>2, <1>4 DEF Holders, Unsent, Batch, Waiting
  <2> QED BY <1>2, <2>1 DEF NoticeInv, ArmingsCounted
<1>8. NobodyUntold' /\ StaffCountLandings'
  <2>1. \A k \in Cartons : Owner[k] \in Clients
    BY NoticeAssumption
  <2> QED BY <1>2, <1>4, <2>1 DEF NoticeInv, NobodyUntold, StaffCountLandings
<1> QED BY <1>5, <1>6, <1>7, <1>8 DEF NoticeInv

\* A claim that grows old is in doubt.
LEMMA AgeKeeps ==
  ASSUME NoticeInv, NEW c \in Clients, Age(c)
  PROVE  NoticeInv'
<1>1. /\ UNCHANGED <<where, notice, sweep, told, staffTold, credit, crossed, passed>>
      /\ old' = old \cup {c} /\ doubt' = doubt \cup {c}
  BY DEF Age
<1>2. TypeOK' /\ SweepsFit' /\ OldInDoubt'
  BY <1>1 DEF NoticeInv, TypeOK, SweepsFit, OldInDoubt
<1>3. ArmingsCounted'
  <2>1. \A d \in Clients : Holders(d)' = Holders(d) /\ Waiting(d)' = Waiting(d)
    BY <1>1 DEF Holders, Unsent, Batch, Waiting
  <2> QED BY <1>1, <2>1 DEF NoticeInv, ArmingsCounted
<1>4. SentCountsShelf' /\ NobodyUntold' /\ StaffCountLandings'
  BY <1>1 DEF NoticeInv, SentCountsShelf, OnShelf, NobodyUntold, StaffCountLandings
<1> QED BY <1>2, <1>3, <1>4 DEF NoticeInv

\* To begin with all cartons are on the truck and no notice exists.
LEMMA InitNotice == Init => NoticeInv
<1> SUFFICES ASSUME Init PROVE NoticeInv
  OBVIOUS
<1>1. NoNotice \in Row /\ Idle \in Place
  BY NoticeAssumption DEF NoNotice, Row, Idle, Place
<1>2. TypeOK
  BY <1>1 DEF Init, TypeOK, Row, Place
<1>3. \A w \in Sweeps : sweep[w].step = "idle" /\ sweep[w].todo = {}
  BY DEF Init, Idle
<1>4. SweepsFit /\ OldInDoubt /\ SentCountsShelf
  BY <1>3 DEF Init, SweepsFit, OldInDoubt, SentCountsShelf
<1>5. ArmingsCounted
  <2>1. \A c \in Clients : Holders(c) = {}
    BY <1>3 DEF Holders, Unsent, Batch
  <2>2. \A c \in Clients : Waiting(c) = 0 /\ credit[c] = 0
    BY DEF Init, NoNotice, Waiting
  <2> QED BY <2>1, <2>2, FS_EmptySet DEF ArmingsCounted
<1>6. NobodyUntold /\ StaffCountLandings
  BY DEF Init, NobodyUntold, StaffCountLandings
<1> QED BY <1>2, <1>4, <1>5, <1>6 DEF NoticeInv

-----------------------------------------------------------------------------
\* The invariant holds throughout, however cartons land and sweeps overlap and die.
THEOREM NoticesKeepCount == Spec => []NoticeInv
<1>1. Init => NoticeInv
  BY InitNotice
<1>2. NoticeInv /\ [Next]_vars => NoticeInv'
  <2> SUFFICES ASSUME NoticeInv, [Next]_vars PROVE NoticeInv'
    OBVIOUS
  <2>1. CASE UNCHANGED vars
    <3>1. UNCHANGED <<where, notice, old, sweep, told, staffTold, credit, doubt, crossed, passed>>
      BY <2>1 DEF vars, noticeVars, saidVars
    <3>2. TypeOK' /\ SweepsFit' /\ OldInDoubt'
      BY <3>1 DEF NoticeInv, TypeOK, SweepsFit, OldInDoubt
    <3>3. ArmingsCounted'
      BY <3>1 DEF NoticeInv, ArmingsCounted, Holders, Unsent, Batch, Waiting
    <3>4. SentCountsShelf' /\ NobodyUntold' /\ StaffCountLandings'
      BY <3>1 DEF NoticeInv, SentCountsShelf, OnShelf, NobodyUntold, StaffCountLandings
    <3> QED BY <3>2, <3>3, <3>4 DEF NoticeInv
  <2>2. CASE Next
    <3>1. ASSUME NEW k \in Cartons, LandArming(k) \/ LandQuietly(k) \/ LandCommit(k) \/ Leave(k)
          PROVE  NoticeInv'
      BY <3>1, ArmingKeeps, LandOrLeaveKeeps
    <3>2. ASSUME NEW c \in Clients, Due(c) \/ Age(c) PROVE NoticeInv'
      BY <3>2, DueKeeps, AgeKeeps
    <3>3. CASE ReleaseArrivals
      BY <3>3, DueKeeps
    <3>4. ASSUME NEW w \in Sweeps, Work(w) PROVE NoticeInv'
      BY <3>4, BeginKeeps, ClaimKeeps, TellStaffKeeps, SkipOrFailKeeps, PushKeeps, SettleSentKeeps
         DEF Work
    <3>5. ASSUME NEW w \in Sweeps, (\E x \in sweep[w].todo : Defer(w, x)) \/ BotDown(w) \/ Die(w)
          PROVE  NoticeInv'
      BY <3>5, DeferKeeps, BotDownKeeps, DieKeeps
    <3> QED BY <2>2, <3>1, <3>2, <3>3, <3>4, <3>5 DEF Next
  <2> QED BY <2>1, <2>2
<1> QED BY <1>1, <1>2, PTL DEF Spec

\* Notices, sweeps and counts are always well formed; attempts stay within the cap.
THEOREM NoticeTyped == Spec => []TypeOK
<1>1. NoticeInv => TypeOK
  BY DEF NoticeInv
<1> QED BY <1>1, NoticesKeepCount, PTL

\* A customer gets one message per arming, unless a sweep died or took ten minutes over it.
THEOREM MessagePerArming == Spec => []OneMessagePerArming
<1>1. NoticeInv => OneMessagePerArming
  <2> SUFFICES ASSUME NoticeInv, NEW c \in Clients \ doubt PROVE credit[c] >= 0
    BY DEF OneMessagePerArming
  <2>1. IsFiniteSet(Holders(c)) /\ Cardinality(Holders(c)) + Waiting(c) <= credit[c]
    BY DEF NoticeInv, ArmingsCounted
  <2>2. Cardinality(Holders(c)) \in Nat /\ Waiting(c) \in 0..1 /\ credit[c] \in Int
    BY <2>1, FS_CardinalityType DEF Waiting, NoticeInv, TypeOK
  <2> QED BY <2>1, <2>2
<1> QED BY <1>1, NoticesKeepCount, PTL

\* Whoever has cargo on the shelf has heard of it or is still to hear, but for what landed
\* while a sweep had the notice.
THEOREM NoOneUntold == Spec => []NobodyUntold
<1>1. NoticeInv => NobodyUntold
  BY DEF NoticeInv
<1> QED BY <1>1, NoticesKeepCount, PTL

\* The staff hear of every landing whose transaction was not open when they were told.
THEOREM StaffAreTold == Spec => []StaffHear
<1>1. NoticeInv => StaffHear
  BY DEF NoticeInv, StaffCountLandings, StaffHear
<1> QED BY <1>1, NoticesKeepCount, PTL
==============================================================================
