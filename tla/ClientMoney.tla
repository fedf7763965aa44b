---------------------------- MODULE ClientMoney ----------------------------
(***************************************************************************)
(* One client's ledger and the rule that closes its exchange difference.   *)
(*                                                                         *)
(* Every row freezes its dollars at its own day's rate, so soums charged   *)
(* and paid at two rates leave dollars behind.  Wherever the running sum   *)
(* of the soums returns to zero, the rows up to there are a closed CYCLE,  *)
(* and the reconciler keeps one fx_diff row on the row that closed it,     *)
(* worth minus the cycle's residue.  Every door that moves a row runs it   *)
(* under the client's money lock, so a door is one step here; what a door  *)
(* reads before the lock is read in a step of its own.                     *)
(*                                                                         *)
(* A place is a row's position in the ledger's order (day, time, id).  A   *)
(* voided row frees its place unless something still names its id.         *)
(***************************************************************************)
EXTENDS Integers, FiniteSets, Sequences

CONSTANTS
    Places,    \* number of places; BOUND on the live rows
    Day,       \* Day[p]: the day of the rows at place p, not decreasing
    Rates,     \* rates of the soum, in half cents
    Slips,     \* what may be typed: kind, currency, amount and rate
    OldSlips,  \* what was typed before the rule, at the places OldPlaces
    OldPlaces,
    Tolerance, \* how close a dollar row offsets a residue: a cent
    Floor,     \* the allowance for a drift: $5, or 2 % where that is more
    Movers,    \* presses of the move button
    Idle, None \* no press; no row

Place == 1..Places
Currency == {"som", "usd"}
UsdRate == 2

ASSUME MoneyAssumption ==
    /\ Places \in Nat \ {0} /\ Day \in [Place -> Nat]
    /\ \A p, q \in Place : p < q => Day[p] <= Day[q]
    /\ Rates \subseteq Nat \ {0} /\ OldPlaces \subseteq Place
    /\ OldSlips \subseteq Slips
    /\ \A slip \in Slips :
          /\ slip \in [kind : {"charge", "payment", "refund"}, cur : Currency,
                       native : Nat \ {0}, rate : Rates \cup {UsdRate}]
          /\ slip.cur = "usd" => slip.rate = UsdRate
    /\ Tolerance \in Nat /\ Floor \in Nat

VARIABLES
    row,     \* the live row at a place, or None
    diff,    \* the live soum fx_diff anchored at a place, in cents; 0: none
    managed, \* places whose row ever anchored a soum fx_diff
    hand,    \* the live dollar fx_diff anchored at a place, written by hand
    auto,    \* the setting fx_residue_auto
    moving   \* the charge a press of the move button has read

vars == <<row, diff, managed, hand, auto, moving>>

-----------------------------------------------------------------------------
(* Rows.                                                                   *)

Entries ==
    [kind : {"charge", "payment", "refund"}, cur : Currency, native : Nat \ {0},
     rate : Nat, usd : Int, fresh : BOOLEAN]

ASSUME AbsenceAssumption == None \notin Entries

ToUsd(n, rate) == (n * rate + 1) \div 2

Entry(slip, fresh) ==
    [kind |-> slip.kind, cur |-> slip.cur, native |-> slip.native, rate |-> slip.rate,
     usd |-> ToUsd(slip.native, slip.rate), fresh |-> fresh]

Sign(r) == IF r.kind = "payment" THEN -1 ELSE 1
NativeOf(r) == Sign(r) * r.native
SignedUsd(r) == Sign(r) * r.usd

Live(R) == {p \in Place : R[p] # None}
Of(R, cur) == {p \in Live(R) : R[p].cur = cur}

-----------------------------------------------------------------------------
(* Sums along the ledger.                                                  *)

SumTo(f) ==
    LET to[p \in 0..Places] == IF p = 0 THEN 0 ELSE to[p - 1] + f[p] IN to

Total(f) == SumTo(f)[Places]

Natives(R, S) == [p \in Place |-> IF p \in S THEN NativeOf(R[p]) ELSE 0]
Dollars(R, S) == [p \in Place |-> IF p \in S THEN SignedUsd(R[p]) ELSE 0]

NativeSum(R, S) == Total(Natives(R, S))
UsdSum(R, S) == Total(Dollars(R, S))

-----------------------------------------------------------------------------
(* Cycles of the soums, and which of them the system closes.               *)

Run(R) == SumTo(Natives(R, Of(R, "som")))

Zeros(R) == LET run == Run(R) IN {p \in Of(R, "som") : run[p] = 0}

Cycle(R, z) ==
    LET earlier == {y \in Zeros(R) : y < z}
    IN {q \in Of(R, "som") : q <= z /\ \A y \in earlier : y < q}

Open(R) == LET zeros == Zeros(R) IN {q \in Of(R, "som") : \A z \in zeros : z < q}

Residue(R, z) == UsdSum(R, Cycle(R, z))

UsdOffset(R, z, residue) ==
    \E p \in Of(R, "usd") :
        /\ Day[p] >= Day[z]
        /\ SignedUsd(R[p]) + residue \in -Tolerance..Tolerance

Managed(R, M, z) == Cycle(R, z) \cap M # {}

\* A mistake: what was closed before is left alone while the switch is off.
MayCloseSwitched(R, M, on, z, residue) ==
    /\ on
    /\ \/ Managed(R, M, z)
       \/ \A q \in Cycle(R, z) : R[q].fresh
       \/ ~UsdOffset(R, z, residue)

\* What was closed once is maintained; nothing new while the switch is off.
MayClose(R, M, on, z, residue) ==
    \/ Managed(R, M, z)
    \/ on /\ ((\A q \in Cycle(R, z) : R[q].fresh) \/ ~UsdOffset(R, z, residue))

IsLegacy(R, M, z) == Residue(R, z) # 0 /\ ~Managed(R, M, z)

LegacyResidues(R, M) ==
    [z \in Place |-> IF z \in Zeros(R) /\ IsLegacy(R, M, z) THEN Residue(R, z) ELSE 0]

Closing(R, M, on) ==
    LET zeros == Zeros(R)
    IN [p \in Place |->
           IF p \notin zeros THEN 0
           ELSE LET residue == Residue(R, p)
                IN IF residue # 0 /\ MayClose(R, M, on, p, residue) THEN -residue ELSE 0]

Anchors(D) == {p \in Place : D[p] # 0}

\* What every door ends with: the fx_diff rows are what the cycles ask for.
Reconcile(R, M) ==
    /\ row' = R
    /\ diff' = Closing(R, M, auto)
    /\ managed' = M \cup Anchors(diff')

Balance(R, D, H) == UsdSum(R, Live(R)) + Total(D) + Total(H)

-----------------------------------------------------------------------------
(* The ledger's doors.                                                     *)

MoneyInit ==
    /\ \E old \in [OldPlaces -> {None} \cup {Entry(slip, FALSE) : slip \in OldSlips}] :
          row = [p \in Place |-> IF p \in OldPlaces THEN old[p] ELSE None]
    /\ diff = [p \in Place |-> 0]
    /\ managed = {}
    /\ hand = [p \in Place |-> 0]
    /\ auto \in BOOLEAN
    /\ moving = [m \in Movers |-> Idle]

\* No live row, close by hand or press names the place.
Vacant(R, p, me) ==
    /\ R[p] = None
    /\ hand[p] = 0
    /\ \A m \in Movers \ me : moving[m] # Idle => moving[m].place # p

\* A refund fits the advance held in its own currency when nothing is owed
\* in the other; else the dollars paid in advance and their drift.
RefundFits(r) ==
    LET own == NativeSum(row, Of(row, r.cur))
        elsewhere == NativeSum(row, Live(row) \ Of(row, r.cur))
        advance == -Balance(row, diff, hand)
    IN IF own < 0 /\ elsewhere <= 0
       THEN r.native <= -own
       ELSE advance > 0 /\ r.usd <= advance + Floor

\* The rate was read before the lock: it may be one a reprice has replaced.
AddTransaction(p, slip) ==
    LET r == Entry(slip, TRUE)
    IN /\ Vacant(row, p, {})
       /\ \A q \in Live(row) : Day[q] = Day[p] => q < p
       /\ r.kind = "refund" => RefundFits(r)
       /\ Reconcile([row EXCEPT ![p] = r], managed \ {p})
       /\ UNCHANGED <<hand, auto, moving>>

\* A mistake: a void leaves the differences as they were.
VoidUnreconciled(p) ==
    /\ row[p] # None
    /\ row' = [row EXCEPT ![p] = None]
    /\ managed' = managed \ {p}
    /\ UNCHANGED <<diff, hand, auto, moving>>

VoidTransaction(p) ==
    /\ row[p] # None
    /\ Reconcile([row EXCEPT ![p] = None], managed \ {p})
    /\ UNCHANGED <<hand, auto, moving>>

ReadToMove(m, p) ==
    /\ moving[m] = Idle
    /\ row[p] # None
    /\ row[p].kind = "charge"
    /\ moving' = [moving EXCEPT ![m] = [place |-> p, row |-> row[p]]]
    /\ UNCHANGED <<row, diff, managed, hand, auto>>

\* A mistake: a charge is claimed for being live, whatever it is now worth.
StillAsReadIfLive(m) == row[moving[m].place] # None

\* The row is claimed only if live and worth what it was when it was read.
StillAsRead(m) == row[moving[m].place] = moving[m].row

\* One part, or two: the copies keep day, rate and freshness, and the last
\* takes the dollars the others leave.
Part(r, n, usd) == [r EXCEPT !.native = n, !.usd = usd]

Parts(r) ==
    {<<r>>} \cup
    {<<Part(r, n, ToUsd(n, r.rate)), Part(r, r.native - n, r.usd - ToUsd(n, r.rate))>> :
        n \in 1..(r.native - 1)}

\* The parts' places lie where the charge lay: no live row comes between.
Beside(R, p, q) ==
    /\ Day[q] = Day[p]
    /\ \A s \in Live(R) : ~(p < s /\ s < q) /\ ~(q < s /\ s < p)

\* The rows with each part in its place.
Placed(rest, parts, at) ==
    [q \in Place |-> IF q = at[1] THEN parts[1]
                     ELSE IF 2 \in DOMAIN parts /\ q = at[2] THEN parts[2] ELSE rest[q]]

MoveCharge(m) ==
    /\ moving[m] # Idle
    /\ StillAsRead(m)
    /\ moving' = [moving EXCEPT ![m] = Idle]
    /\ LET p == moving[m].place
           rest == [row EXCEPT ![p] = None]
       IN \E parts \in Parts(moving[m].row), at \in [1..2 -> Place] :
            /\ 2 \in DOMAIN parts => at[1] # at[2]
            /\ \A i \in DOMAIN parts : Vacant(rest, at[i], {m}) /\ Beside(rest, p, at[i])
            /\ Reconcile(Placed(rest, parts, at), managed \ {p})
    /\ UNCHANGED <<hand, auto>>

MoveRefused(m) ==
    /\ moving[m] # Idle
    /\ ~StillAsRead(m)
    /\ moving' = [moving EXCEPT ![m] = Idle]
    /\ UNCHANGED <<row, diff, managed, hand, auto>>

\* A charge of a closed cycle nobody maintains is settled: its dollars stay.
\* The question is asked of the cycle as if it had a residue.
Settled(p) ==
    \E z \in Zeros(row) :
        /\ p \in Cycle(row, z)
        /\ ~MayClose(row, managed, auto, z, Residue(row, z))

\* A mistake: a settled charge is priced anew like any other.
RepricedAll(day, rate) ==
    {p \in Of(row, "som") : row[p].kind = "charge" /\ Day[p] = day /\ row[p].rate # rate}

Repriced(day, rate) ==
    {p \in Of(row, "som") : /\ row[p].kind = "charge" /\ Day[p] = day
                            /\ row[p].rate # rate /\ ~Settled(p)}

\* A rate typed late prices the day's charges anew, never a payment.
PlanApply(day, rate) ==
    LET chosen == Repriced(day, rate)
        R == [p \in Place |-> IF p \in chosen
                              THEN [row[p] EXCEPT !.rate = rate, !.usd = ToUsd(row[p].native, rate)]
                              ELSE row[p]]
    IN /\ chosen # {}
       /\ Reconcile(R, managed)
       /\ UNCHANGED <<hand, auto, moving>>

-----------------------------------------------------------------------------
(* Closing by hand, and the switch.                                        *)

SetAuto ==
    /\ auto' = ~auto
    /\ UNCHANGED <<row, diff, managed, hand, moving>>

ApplyFxHistory ==
    /\ Reconcile(row, managed)
    /\ UNCHANGED <<hand, auto, moving>>

CloseLegacyFxResidue(z) ==
    /\ z \in Zeros(row)
    /\ IsLegacy(row, managed, z)
    /\ Reconcile(row, managed \cup {z})
    /\ UNCHANGED <<hand, auto, moving>>

\* A second close at one anchor takes the place of the first.
CloseAmount(anchor) == hand[anchor] - Balance(row, diff', hand)

\* Only a drift, only on an account that moves in two currencies, and never
\* over a residue that waits for a person.
CloseCrossCurrencyResidue ==
    /\ \A cur \in Currency : Of(row, cur) # {}
    /\ Reconcile(row, managed)
    /\ \A z \in Zeros(row) : ~IsLegacy(row, managed', z)
    /\ Balance(row, diff', hand) \in (-Floor..Floor) \ {0}
    /\ \E anchor \in Live(row) :
          /\ \A p \in Live(row) : p <= anchor
          /\ hand' = [hand EXCEPT ![anchor] = CloseAmount(anchor)]
    /\ UNCHANGED <<auto, moving>>

VoidFxClose(p) ==
    /\ hand[p] # 0
    /\ hand' = [hand EXCEPT ![p] = 0]
    /\ Reconcile(row, managed)
    /\ UNCHANGED <<auto, moving>>

MoneyNext ==
    \/ \E p \in Place : \/ \E slip \in Slips : AddTransaction(p, slip)
                        \/ VoidTransaction(p)
                        \/ CloseLegacyFxResidue(p)
                        \/ VoidFxClose(p)
    \/ \E m \in Movers : \/ \E p \in Place : ReadToMove(m, p)
                         \/ MoveCharge(m)
                         \/ MoveRefused(m)
    \/ \E day \in {Day[p] : p \in Place}, k \in Rates : PlanApply(day, k)
    \/ SetAuto \/ ApplyFxHistory \/ CloseCrossCurrencyResidue

MoneySpec == MoneyInit /\ [][MoneyNext]_vars

-----------------------------------------------------------------------------
(* Properties.                                                             *)

\* Every live row is a row, and a fx_diff stands on a live soum row.
TypeOK ==
    /\ row \in [Place -> Entries \cup {None}]
    /\ diff \in [Place -> Int] /\ hand \in [Place -> Int]
    /\ Anchors(diff) \subseteq managed /\ managed \subseteq Live(row)
    /\ auto \in BOOLEAN
    /\ moving \in [Movers -> [place : Place, row : Entries] \cup {Idle}]

\* What a client owes in dollars is what his open soum rows and his dollar
\* rows say, and the residues that wait for a person: a cycle that closed and
\* is maintained leaves nothing, whatever was typed, voided, split, repriced
\* or dated back since (fx-residue.ts:9-27).
OnlyOpenMoneyOwed ==
    Balance(row, diff, hand)
      = UsdSum(row, Open(row)) + NativeSum(row, Of(row, "usd")) + Total(hand)
        + Total(LegacyResidues(row, managed))

OnDay(R, day, cur) == {p \in Of(R, cur) : Day[p] = day}

\* A charge that is moved, in one part or two, moves no money: each day has
\* the soums and the dollars it had, and so has every other row's run, though
\* the charge was read before the lock and may be voided, moved by another
\* press or repriced meanwhile (finance/service.ts:382-386, 440-446).
MoveMovesNoMoney ==
    [][\A m \in Movers : moving[m] # Idle /\ moving'[m] = Idle =>
          /\ \A p \in Place, cur \in Currency :
                LET on == OnDay(row, Day[p], cur) IN
                /\ NativeSum(row, on)' = NativeSum(row, on)
                /\ UsdSum(row, on)' = UsdSum(row, on)
          /\ \A p \in Of(row, "som") \ {moving[m].place} : Run(row')[p] = Run(row)[p]]_vars

IsReprice == row' # row /\ Live(row') = Live(row)

\* A reprice moves what the client owes by the open charges alone: what was
\* settled stays settled, since the reconciler writes the new difference or
\* the charge is left alone (fx-reprice.ts:249-256).  Excepted: a difference
\* that was waiting to be written, and a cycle whose new residue happens to
\* equal a dollar row.
RepriceMovesOnlyOpenDebt ==
    [][(/\ IsReprice
        /\ diff = Closing(row, managed, auto)
        /\ \A z \in Zeros(row) :
              UsdOffset(row', z, Residue(row', z)) => UsdOffset(row, z, Residue(row, z)))
       => Balance(row', diff', hand') - Balance(row, diff, hand)
            = UsdSum(row', Open(row')) - UsdSum(row, Open(row))]_vars

=============================================================================
