--------------------------- MODULE MCClientMoney ---------------------------
(* One client, four places on two days.                                    *)
EXTENDS ClientMoney, FiniteSetsExt, TLC

MCSymmetry == Permutations(Movers)

MCDay == <<1, 1, 2, 2>>

Slip(kind, cur, n, rate) == [kind |-> kind, cur |-> cur, native |-> n, rate |-> rate]

\* Soums worth 1 or 2, charged at two rates and paid at one; a dollar.
MCSlips ==
    {Slip("charge", "som", n, k) : n \in {1, 2}, k \in {2, 3}}
    \cup {Slip("payment", "som", n, 2) : n \in {1, 2}}
    \cup {Slip("refund", "som", 1, 2), Slip("charge", "usd", 1, 2), Slip("payment", "usd", 1, 2)}

MCOldSlips == {slip \in MCSlips : slip.kind # "refund" /\ slip.cur = "som" /\ slip.native = 1}

Count(S) == Cardinality(S)

Odd == Of(row, "usd") \cup {p \in Live(row) : row[p].kind = "refund"}

Old == {p \in Live(row) : ~row[p].fresh}
Worth == MapThenSumSet(LAMBDA p : row[p].native, Live(row))
Presses == {m \in Movers : moving[m] # Idle}
Pressed == Presses # {}
Hands == {p \in Place : hand[p] # 0}

\* BOUND: rows worth 4 in all, or 3 with one typed before the rule; one
\* dollar row or refund, but none on a ledger of four rows or beside a charge
\* on the move; two presses at once only on a single row; one close by hand,
\* beside two new rows at most.
Small ==
    /\ Worth <= (IF Old = {} THEN 4 ELSE 3)
    /\ Count(Odd) <= 1
    /\ Count(Live(row)) = 4 \/ Pressed => Odd = {}
    /\ Old # {} => ~Pressed
    /\ Count(Presses) = 2 => Count(Live(row)) = 1
    /\ Hands # {} => Count(Hands) = 1 /\ Count(Live(row)) <= 2 /\ Old = {} /\ ~Pressed

=============================================================================
