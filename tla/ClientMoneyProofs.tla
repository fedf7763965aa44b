-------------------------- MODULE ClientMoneyProofs --------------------------
(***************************************************************************)
(* What a client owes, proved for ledgers of any length.                   *)
(***************************************************************************)
EXTENDS ClientMoney, WellFoundedInduction, TLAPS

-----------------------------------------------------------------------------
(* Sums along the ledger.  What holds at its start, and one place further  *)
(* wherever it holds, holds all along: of the places where it does not,    *)
(* there would be a least.                                                 *)

\* A set of numbers that is not empty has a least.
LEMMA LeastNumber ==
  ASSUME NEW T \in SUBSET Nat, T # {}
  PROVE  \E x \in T : \A y \in T : x <= y
<1> DEFINE Less == {pair \in Nat \X Nat : pair[1] < pair[2]}
<1>1. IsWellFoundedOn(Less, Nat)
  BY NatLessThanWellFounded, Zenon DEF OpToRel
<1>2. \E x \in T : \A y \in T : <<y, x>> \notin Less
  <2> HIDE DEF Less
  <2> QED BY <1>1, WFMin
<1>3. PICK x \in T : \A y \in T : <<y, x>> \notin Less
  BY <1>2
<1>4. ASSUME NEW y \in T PROVE x <= y
  <2>1. <<y, x>> \in Nat \X Nat /\ <<y, x>>[1] = y /\ <<y, x>>[2] = x
    OBVIOUS
  <2>2. ~(y < x)
    BY <1>3, <2>1
  <2> QED BY <2>2
<1> QED BY <1>4

\* A set that holds the start, and each next place, holds the ledger.
LEMMA UpTheLedger ==
  ASSUME NEW S, 0 \in S, \A n \in 0..Places : n \in S /\ n < Places => n + 1 \in S
  PROVE  0..Places \subseteq S
<1>1. Places \in Nat \ {0}
  BY MoneyAssumption
<1> DEFINE T == 0..Places \ S
<1>2. ASSUME T # {} PROVE FALSE
  <2>1. T \in SUBSET Nat
    BY <1>1
  <2>2. PICK x \in T : \A y \in T : x <= y
    BY <1>2, <2>1, LeastNumber
  <2>3. x \in Nat /\ x <= Places /\ x # 0
    BY <1>1, <2>2
  <2>4. x - 1 \in 0..Places /\ x - 1 \notin T /\ x - 1 < Places
    BY <1>1, <2>2, <2>3
  <2>5. x - 1 \in S
    BY <2>4
  <2>6. (x - 1) + 1 \in S
    BY <2>4, <2>5
  <2> QED BY <2>2, <2>3, <2>6
<1> QED BY <1>2

\* The sum exists: it grows by each place's number.
LEMMA SumGrows ==
  ASSUME NEW f \in [Place -> Int]
  PROVE  /\ SumTo(f) \in [0..Places -> Int]
         /\ SumTo(f)[0] = 0
         /\ \A p \in Place : SumTo(f)[p] = SumTo(f)[p - 1] + f[p]
<1>1. Places \in Nat \ {0}
  BY MoneyAssumption
<1> DEFINE Sums(g, n) == g[0] = 0 /\ \A p \in 1..n : g[p] = g[p - 1] + f[p]
           S == {n \in 0..Places : \E g \in [0..Places -> Int] : Sums(g, n)}
<1>2. 0 \in S
  <2> DEFINE zero == [p \in 0..Places |-> 0]
  <2>1. zero \in [0..Places -> Int] /\ Sums(zero, 0) /\ 0 \in 0..Places
    BY <1>1
  <2> HIDE DEF zero, Sums
  <2> QED BY <2>1
<1>3. ASSUME NEW n \in 0..Places, n \in S, n < Places PROVE n + 1 \in S
  <2>1. PICK g \in [0..Places -> Int] : Sums(g, n)
    BY <1>3
  <2> DEFINE h == [g EXCEPT ![n + 1] = g[n] + f[n + 1]]
  <2>2. n + 1 \in Place /\ n + 1 \in 0..Places /\ f[n + 1] \in Int /\ g[n] \in Int
    BY <1>1, <1>3 DEF Place
  <2>3. h \in [0..Places -> Int]
    BY <2>2
  <2>4. h[n + 1] = g[n] + f[n + 1] /\ \A p \in 0..n : h[p] = g[p]
    BY <1>1, <1>3, <2>2
  <2>5. Sums(h, n + 1)
    <3> HIDE DEF h
    <3> SUFFICES ASSUME NEW p \in 1..(n + 1) PROVE h[0] = 0 /\ h[p] = h[p - 1] + f[p]
      BY <1>1
    <3>1. n \in Nat /\ 0 \in 0..n /\ n \in 0..n /\ p \in Int /\ (p = n + 1 \/ p \in 1..n)
      BY <1>1
    <3>2. h[0] = 0
      BY <2>1, <2>4, <3>1
    <3>3. CASE p = n + 1
      BY <2>4, <3>1, <3>2, <3>3
    <3>4. CASE p \in 1..n
      <4>1. p \in 0..n /\ p - 1 \in 0..n
        BY <3>1, <3>4
      <4> QED BY <2>1, <2>4, <3>2, <3>4, <4>1
    <3> QED BY <3>1, <3>3, <3>4
  <2> HIDE DEF h, Sums
  <2> QED BY <2>2, <2>3, <2>5
<1>4. Places \in S
  <2> HIDE DEF S
  <2>1. 0..Places \subseteq S
    BY <1>2, <1>3, UpTheLedger
  <2> QED BY <1>1, <2>1
<1>5. PICK g \in [0..Places -> Int] : Sums(g, Places)
  BY <1>4
<1>6. g = [p \in 0..Places |-> IF p = 0 THEN 0 ELSE g[p - 1] + f[p]]
  BY <1>1, <1>5
<1>7. SumTo(f) = [p \in 0..Places |-> IF p = 0 THEN 0 ELSE SumTo(f)[p - 1] + f[p]]
  BY <1>6, Zenon DEF SumTo
<1> DEFINE s == SumTo(f)
           D == {n \in 0..Places : s[n] \in Int}
<1> HIDE DEF s
<1>8. s = [p \in 0..Places |-> IF p = 0 THEN 0 ELSE s[p - 1] + f[p]]
  BY <1>7 DEF s
<1>9. s[0] = 0 /\ \A p \in Place : s[p] = s[p - 1] + f[p]
  BY <1>1, <1>8 DEF Place
<1>10. 0..Places \subseteq D
  <2>1. 0 \in D
    BY <1>1, <1>9
  <2>2. ASSUME NEW n \in 0..Places, n \in D, n < Places PROVE n + 1 \in D
    <3>1. n + 1 \in Place /\ (n + 1) - 1 = n /\ n + 1 \in 0..Places
      BY <1>1, <2>2 DEF Place
    <3>2. f[n + 1] \in Int /\ s[n] \in Int /\ s[n + 1] = s[n] + f[n + 1]
      BY <1>9, <2>2, <3>1
    <3> QED BY <3>1, <3>2
  <2> HIDE DEF D
  <2> QED BY <2>1, <2>2, UpTheLedger
<1>11. s \in [0..Places -> Int]
  BY <1>8, <1>10
<1> QED BY <1>9, <1>11 DEF s

\* What grows as the sum does is the sum.
LEMMA SumIs ==
  ASSUME NEW f \in [Place -> Int], NEW g \in [0..Places -> Int],
         g[0] = 0, \A p \in Place : g[p] = g[p - 1] + f[p]
  PROVE  SumTo(f) = g
<1>1. Places \in Nat \ {0}
  BY MoneyAssumption
<1> DEFINE s == SumTo(f)
           D == {n \in 0..Places : s[n] = g[n]}
<1>2. /\ s \in [0..Places -> Int] /\ s[0] = 0
      /\ \A p \in Place : s[p] = s[p - 1] + f[p]
  BY SumGrows
<1> HIDE DEF s
<1>3. 0 \in D
  BY <1>1, <1>2
<1>4. ASSUME NEW n \in 0..Places, n \in D, n < Places PROVE n + 1 \in D
  <2>1. n + 1 \in Place /\ (n + 1) - 1 = n /\ n + 1 \in 0..Places
    BY <1>1, <1>4 DEF Place
  <2> QED BY <1>2, <1>4, <2>1
<1>5. 0..Places \subseteq D
  <2> HIDE DEF D
  <2> QED BY <1>3, <1>4, UpTheLedger
<1>6. s = g
  <2>1. \A n \in 0..Places : s[n] = g[n]
    BY <1>5
  <2>2. s = [n \in 0..Places |-> s[n]] /\ g = [n \in 0..Places |-> g[n]]
    BY <1>2
  <2> HIDE DEF D
  <2> QED BY <2>1, <2>2, Zenon
<1> QED BY <1>6 DEF s

\* Sums add.
LEMMA SumAdds ==
  ASSUME NEW f \in [Place -> Int], NEW g \in [Place -> Int], NEW h \in [Place -> Int],
         \A p \in Place : h[p] = f[p] + g[p]
  PROVE  \A p \in 0..Places : SumTo(h)[p] = SumTo(f)[p] + SumTo(g)[p]
<1>1. Places \in Nat \ {0}
  BY MoneyAssumption
<1> DEFINE s == SumTo(f)
           t == SumTo(g)
           u == [p \in 0..Places |-> s[p] + t[p]]
<1>2. /\ s \in [0..Places -> Int] /\ s[0] = 0 /\ \A p \in Place : s[p] = s[p - 1] + f[p]
      /\ t \in [0..Places -> Int] /\ t[0] = 0 /\ \A p \in Place : t[p] = t[p - 1] + g[p]
  BY SumGrows
<1> HIDE DEF s, t
<1>3. u \in [0..Places -> Int] /\ u[0] = 0
  BY <1>1, <1>2
<1>4. \A p \in Place : u[p] = u[p - 1] + h[p]
  <2> SUFFICES ASSUME NEW p \in Place PROVE u[p] = u[p - 1] + h[p]
    OBVIOUS
  <2>1. p \in 0..Places /\ p - 1 \in 0..Places
    BY <1>1 DEF Place
  <2>2. s[p - 1] \in Int /\ t[p - 1] \in Int /\ f[p] \in Int /\ g[p] \in Int
    BY <1>2, <2>1
  <2> QED BY <1>2, <2>1, <2>2
<1>5. SumTo(h) = u
  <2> HIDE DEF u
  <2> QED BY <1>3, <1>4, SumIs
<1> QED BY <1>5 DEF s, t

\* The sum over the places after a and up to b.
LEMMA SumOfSlice ==
  ASSUME NEW f \in [Place -> Int], NEW a \in 0..Places, NEW b \in 0..Places, a <= b,
         NEW h, h = [p \in Place |-> IF a < p /\ p <= b THEN f[p] ELSE 0]
  PROVE  Total(h) = SumTo(f)[b] - SumTo(f)[a]
<1>1. Places \in Nat \ {0}
  BY MoneyAssumption
<1> DEFINE s == SumTo(f)
           u == [p \in 0..Places |-> IF p <= a THEN 0 ELSE IF p <= b THEN s[p] - s[a] ELSE s[b] - s[a]]
<1>2. s \in [0..Places -> Int] /\ \A p \in Place : s[p] = s[p - 1] + f[p]
  BY SumGrows
<1> HIDE DEF s
<1>3. u \in [0..Places -> Int] /\ u[0] = 0 /\ u[Places] = s[b] - s[a] /\ h \in [Place -> Int]
  <2>1. s[a] \in Int /\ s[b] \in Int /\ a \in Nat /\ b \in Nat /\ 0 \in 0..Places /\ Places \in 0..Places
    BY <1>1, <1>2
  <2>2. ASSUME NEW p \in 0..Places PROVE u[p] \in Int
    BY <1>2, <2>1
  <2>3. u \in [0..Places -> Int]
    BY <2>2
  <2>4. h \in [Place -> Int]
    OBVIOUS
  <2>5. u[0] = 0
    BY <2>1
  <2>6. u[Places] = s[b] - s[a]
    <3>1. b = Places \/ ~(Places <= b)
      BY <1>1
    <3>2. Places <= a => a = b
      BY <1>1, <2>1
    <3> QED BY <1>1, <2>1, <3>1, <3>2
  <2> QED BY <2>3, <2>4, <2>5, <2>6
<1>4. \A p \in Place : u[p] = u[p - 1] + h[p]
  <2> SUFFICES ASSUME NEW p \in Place PROVE u[p] = u[p - 1] + h[p]
    OBVIOUS
  <2>1. p \in 0..Places /\ p - 1 \in 0..Places /\ a \in Nat /\ b \in Nat /\ p \in Nat
    BY <1>1 DEF Place
  <2>2. s[p - 1] \in Int /\ s[a] \in Int /\ s[b] \in Int /\ f[p] \in Int /\ s[p] = s[p - 1] + f[p]
    BY <1>2, <2>1
  <2>3. h[p] = IF a < p /\ p <= b THEN f[p] ELSE 0
    OBVIOUS
  <2>4. u[p] = IF p <= a THEN 0 ELSE IF p <= b THEN s[p] - s[a] ELSE s[b] - s[a]
    BY <2>1
  <2>5. u[p - 1] = IF p - 1 <= a THEN 0 ELSE IF p - 1 <= b THEN s[p - 1] - s[a] ELSE s[b] - s[a]
    BY <2>1
  <2> HIDE DEF u
  <2>6. p - 1 <= a /\ a < p => p - 1 = a
    BY <2>1
  <2>7. p - 1 <= b /\ b < p => p - 1 = b
    BY <2>1
  <2> QED BY <2>1, <2>2, <2>3, <2>4, <2>5, <2>6, <2>7
<1>5. SumTo(h) = u
  <2> HIDE DEF u
  <2> QED BY <1>3, <1>4, SumIs
<1> QED BY <1>3, <1>5 DEF Total, s

\* The place of the last member so far, or the start.
LEMMA LastUpTo ==
  ASSUME NEW Z \in SUBSET Place, NEW n \in 0..Places
  PROVE  \E m \in 0..n : (m = 0 \/ m \in Z) /\ \A z \in Z : z <= n => z <= m
<1>1. Places \in Nat \ {0}
  BY MoneyAssumption
<1> DEFINE Last(m, k) == (m = 0 \/ m \in Z) /\ \A z \in Z : z <= k => z <= m
           D == {k \in 0..Places : \E m \in 0..k : Last(m, k)}
<1>2. 0 \in D
  BY <1>1 DEF Place
<1>3. ASSUME NEW k \in 0..Places, k \in D, k < Places PROVE k + 1 \in D
  <2>1. PICK m \in 0..k : Last(m, k)
    BY <1>3
  <2>2. k + 1 \in 0..Places /\ m \in 0..(k + 1) /\ k + 1 \in 0..(k + 1)
    BY <1>1, <1>3, <2>1
  <2>3. CASE k + 1 \in Z
    <3>1. Last(k + 1, k + 1)
      BY <2>3
    <3> QED BY <2>2, <3>1
  <2>4. CASE k + 1 \notin Z
    <3>1. ASSUME NEW z \in Z, z <= k + 1 PROVE z <= m
      <4>1. z # k + 1 /\ z \in Nat
        BY <2>4 DEF Place
      <4>2. z <= k
        BY <3>1, <4>1
      <4> QED BY <2>1, <4>2
    <3>2. Last(m, k + 1)
      BY <2>1, <3>1
    <3> QED BY <2>2, <3>2
  <2> QED BY <2>3, <2>4
<1>4. 0..Places \subseteq D
  <2> HIDE DEF D
  <2> QED BY <1>2, <1>3, UpTheLedger
<1> QED BY <1>4

-----------------------------------------------------------------------------
(* Rows and what they are worth.                                           *)

\* The ledgers there are.
Ledgers == [Place -> Entries \cup {None}]

\* A number of cents is a number; a dollar is worth a dollar.
LEMMA CentsAreNumbers ==
  ASSUME NEW n \in Nat, NEW rate \in Nat
  PROVE  ToUsd(n, rate) \in Int /\ ToUsd(n, UsdRate) = n
<1>1. n * rate + 1 \in Int
  OBVIOUS
<1>2. ToUsd(n, rate) \in Int
  BY <1>1 DEF ToUsd
<1>3. ToUsd(n, UsdRate) = n
  BY DEF ToUsd, UsdRate
<1> QED BY <1>2, <1>3

\* A row's worth is a number of each currency, of either sign.
LEMMA RowsAreWorth ==
  ASSUME NEW r \in Entries
  PROVE  /\ Sign(r) \in {-1, 1}
         /\ NativeOf(r) \in Int /\ SignedUsd(r) \in Int
         /\ NativeOf(r) = (IF r.kind = "payment" THEN -r.native ELSE r.native)
         /\ SignedUsd(r) = (IF r.kind = "payment" THEN -r.usd ELSE r.usd)
<1>1. r.native \in Int /\ r.usd \in Int
  BY DEF Entries
<1> QED BY <1>1 DEF Sign, NativeOf, SignedUsd

\* What a typed line becomes is a row.
LEMMA SlipsBecomeRows ==
  ASSUME NEW slip \in Slips, NEW fresh \in BOOLEAN
  PROVE  /\ Entry(slip, fresh) \in Entries
         /\ slip.cur = "usd" => Entry(slip, fresh).rate = UsdRate /\ Entry(slip, fresh).usd = slip.native
         /\ Entry(slip, fresh).cur = slip.cur /\ Entry(slip, fresh).native = slip.native
<1>1. /\ slip \in [kind : {"charge", "payment", "refund"}, cur : Currency,
                   native : Nat \ {0}, rate : Rates \cup {UsdRate}]
      /\ slip.cur = "usd" => slip.rate = UsdRate
      /\ Rates \subseteq Nat
  BY MoneyAssumption
<1>2. slip.native \in Nat \ {0} /\ slip.rate \in Nat /\ slip.cur \in Currency
      /\ slip.kind \in {"charge", "payment", "refund"}
  <2>1. /\ slip.native \in Nat \ {0} /\ slip.rate \in Rates \cup {UsdRate}
        /\ slip.cur \in Currency /\ slip.kind \in {"charge", "payment", "refund"}
    BY <1>1
  <2>2. Rates \cup {UsdRate} \subseteq Nat
    BY <1>1 DEF UsdRate
  <2> QED BY <2>1, <2>2
<1>3. ToUsd(slip.native, slip.rate) \in Int /\ ToUsd(slip.native, UsdRate) = slip.native
  BY <1>2, CentsAreNumbers
<1> QED BY <1>1, <1>2, <1>3 DEF Entry, Entries

\* The numbers summed are numbers, and so are the sums.
LEMMA SumsAreNumbers ==
  ASSUME NEW R \in Ledgers, NEW S \in SUBSET Live(R)
  PROVE  /\ Natives(R, S) \in [Place -> Int] /\ NativeSum(R, S) \in Int
         /\ Dollars(R, S) \in [Place -> Int] /\ UsdSum(R, S) \in Int
<1>1. ASSUME NEW p \in S PROVE p \in Place /\ NativeOf(R[p]) \in Int /\ SignedUsd(R[p]) \in Int
  <2>1. p \in Place /\ R[p] \in Entries
    BY DEF Ledgers, Live
  <2> QED BY <2>1, RowsAreWorth
<1>2. Natives(R, S) \in [Place -> Int]
  BY <1>1 DEF Natives
<1>3. Dollars(R, S) \in [Place -> Int]
  BY <1>1 DEF Dollars
<1>4. Places \in 0..Places
  BY MoneyAssumption
<1>5. NativeSum(R, S) \in Int /\ UsdSum(R, S) \in Int
  <2>1. SumTo(Natives(R, S)) \in [0..Places -> Int] /\ SumTo(Dollars(R, S)) \in [0..Places -> Int]
    BY <1>2, <1>3, SumGrows
  <2> QED BY <1>4, <2>1 DEF NativeSum, UsdSum, Total
<1> QED BY <1>2, <1>3, <1>5

\* A sum of numbers is a number, and the sums of two ledgers add.
LEMMA TotalsAdd ==
  ASSUME NEW f \in [Place -> Int], NEW g \in [Place -> Int], NEW h \in [Place -> Int],
         \A p \in Place : h[p] = f[p] + g[p]
  PROVE  /\ Total(h) = Total(f) + Total(g)
         /\ Total(f) \in Int /\ Total(g) \in Int /\ Total(h) \in Int
<1>1. Places \in 0..Places
  BY MoneyAssumption
<1>2. SumTo(h)[Places] = SumTo(f)[Places] + SumTo(g)[Places]
  BY <1>1, SumAdds
<1>3. /\ SumTo(f) \in [0..Places -> Int] /\ SumTo(g) \in [0..Places -> Int]
      /\ SumTo(h) \in [0..Places -> Int]
  BY SumGrows
<1> QED BY <1>1, <1>2, <1>3 DEF Total

\* What does not overlap is worth its parts.
LEMMA WorthOfParts ==
  ASSUME NEW R \in Ledgers, NEW S \in SUBSET Live(R), NEW T \in SUBSET Live(R), S \cap T = {}
  PROVE  UsdSum(R, S \cup T) = UsdSum(R, S) + UsdSum(R, T)
<1>1. /\ Dollars(R, S) \in [Place -> Int] /\ Dollars(R, T) \in [Place -> Int]
      /\ Dollars(R, S \cup T) \in [Place -> Int]
  BY SumsAreNumbers
<1>2. ASSUME NEW p \in Place
      PROVE  Dollars(R, S \cup T)[p] = Dollars(R, S)[p] + Dollars(R, T)[p]
  <2>1. /\ Dollars(R, S)[p] = (IF p \in S THEN SignedUsd(R[p]) ELSE 0)
        /\ Dollars(R, T)[p] = (IF p \in T THEN SignedUsd(R[p]) ELSE 0)
        /\ Dollars(R, S \cup T)[p] = (IF p \in S \cup T THEN SignedUsd(R[p]) ELSE 0)
    BY DEF Dollars
  <2>2. Dollars(R, S)[p] \in Int /\ Dollars(R, T)[p] \in Int /\ Dollars(R, S \cup T)[p] \in Int
    BY <1>1
  <2>3. CASE p \in S
    BY <2>1, <2>2, <2>3
  <2>4. CASE p \in T
    BY <2>1, <2>2, <2>4
  <2>5. CASE p \notin S /\ p \notin T
    BY <2>1, <2>2, <2>5
  <2> QED BY <2>3, <2>4, <2>5
<1> QED BY <1>1, <1>2, TotalsAdd DEF UsdSum

-----------------------------------------------------------------------------
(* Cycles part the ledger: what the soum rows are worth is the residues of *)
(* the closed cycles and the open rows.                                    *)

\* The residues of the cycles, at the places that closed them.
Residues(R) == [z \in Place |-> IF z \in Zeros(R) THEN Residue(R, z) ELSE 0]

\* The soum rows after a and up to b are worth what the running dollars grew.
LEMMA SliceIsWorth ==
  ASSUME NEW R \in Ledgers, NEW a \in 0..Places, NEW b \in 0..Places, a <= b,
         NEW S, S = {q \in Of(R, "som") : a < q /\ q <= b}
  PROVE  LET dollars == SumTo(Dollars(R, Of(R, "som")))
         IN UsdSum(R, S) = dollars[b] - dollars[a]
<1> DEFINE f == Dollars(R, Of(R, "som"))
<1>1. f \in [Place -> Int]
  BY SumsAreNumbers DEF Of
<1>2. Dollars(R, S) = [p \in Place |-> IF a < p /\ p <= b THEN f[p] ELSE 0]
  BY DEF Dollars
<1>3. Total(Dollars(R, S)) = SumTo(f)[b] - SumTo(f)[a]
  <2> HIDE DEF f
  <2> QED BY <1>1, <1>2, SumOfSlice
<1> QED BY <1>3 DEF UsdSum

\* A closed cycle lies after the zero before it.
LEMMA CycleIsSlice ==
  ASSUME NEW R \in Ledgers, NEW z \in Zeros(R), NEW a \in 0..(z - 1),
         a = 0 \/ a \in Zeros(R), \A y \in Zeros(R) : y <= z - 1 => y <= a
  PROVE  Cycle(R, z) = {q \in Of(R, "som") : a < q /\ q <= z}
<1>1. /\ Zeros(R) \subseteq Place /\ Of(R, "som") \subseteq Place /\ Place \subseteq Nat
      /\ \A p \in Place : p > 0
  BY MoneyAssumption DEF Zeros, Of, Live, Place
<1>2. ASSUME NEW q \in Of(R, "som")
      PROVE  (\A y \in {y \in Zeros(R) : y < z} : y < q) <=> a < q
  <2>1. q \in Nat /\ q > 0 /\ z \in Nat /\ a \in Int /\ a < z
    <3>1. q \in Place /\ z \in Place
      BY <1>1, <1>2
    <3>2. q \in Nat /\ z \in Nat /\ q > 0
      BY <1>1, <3>1
    <3> QED BY <3>2
  <2>2. ASSUME \A y \in {y \in Zeros(R) : y < z} : y < q PROVE a < q
    BY <2>1, <2>2
  <2>3. ASSUME a < q, NEW y \in Zeros(R), y < z PROVE y < q
    <3>1. y \in Nat /\ y <= a
      BY <1>1, <2>1, <2>3
    <3> QED BY <2>1, <2>3, <3>1
  <2> QED BY <2>2, <2>3
<1> QED BY <1>2 DEF Cycle

\* The soum rows are worth the residues of their cycles and what is open.
LEMMA CyclesPart ==
  ASSUME NEW R \in Ledgers
  PROVE  /\ UsdSum(R, Of(R, "som")) = UsdSum(R, Open(R)) + Total(Residues(R))
         /\ Residues(R) \in [Place -> Int]
<1>1. Places \in Nat \ {0} /\ Places \in 0..Places /\ 0 \in 0..Places
  BY MoneyAssumption
<1> DEFINE som == Of(R, "som")
           U == SumTo(Dollars(R, som))
           Z == Zeros(R)
           Last(m, p) == (m = 0 \/ m \in Z) /\ \A z \in Z : z <= p => z <= m
           L == [p \in 0..Places |-> CHOOSE m \in 0..p : Last(m, p)]
           g == [p \in 0..Places |-> U[L[p]]]
<1>2. Z \in SUBSET Place /\ som \in SUBSET Live(R) /\ Z \in SUBSET som
  BY DEF Zeros, Of, Live
<1>3. U \in [0..Places -> Int] /\ U[0] = 0
  BY <1>2, SumsAreNumbers, SumGrows
<1>4. ASSUME NEW p \in 0..Places PROVE L[p] \in 0..p /\ Last(L[p], p)
  <2>1. \E m \in 0..p : Last(m, p)
    <3> HIDE DEF Z
    <3> QED BY <1>2, LastUpTo
  <2> HIDE DEF Last
  <2> QED BY <2>1
<1> HIDE DEF L, U, som, Z
<1>5. \A p \in 0..Places : L[p] \in 0..Places /\ L[p] <= p
  BY <1>1, <1>4
<1>6. g \in [0..Places -> Int] /\ g[0] = 0
  <2>1. L[0] = 0
    BY <1>1, <1>4
  <2> QED BY <1>1, <1>3, <1>5, <2>1
<1>7. \A z \in Z : Residue(R, z) = U[z] - U[L[z - 1]] /\ L[z] = z
  <2> SUFFICES ASSUME NEW z \in Z PROVE Residue(R, z) = U[z] - U[L[z - 1]] /\ L[z] = z
    OBVIOUS
  <2>1. z \in 1..Places /\ z \in 0..Places /\ z - 1 \in 0..Places
    BY <1>1, <1>2 DEF Place
  <2>2. L[z] = z
    <3>1. L[z] \in 0..z /\ z <= L[z]
      BY <1>4, <2>1
    <3> QED BY <2>1, <3>1
  <2>3. L[z - 1] \in 0..(z - 1) /\ Last(L[z - 1], z - 1)
    BY <1>4, <2>1
  <2>4. Cycle(R, z) = {q \in Of(R, "som") : L[z - 1] < q /\ q <= z}
    BY <2>3, CycleIsSlice DEF Z
  <2>5. L[z - 1] \in 0..Places /\ L[z - 1] <= z
    BY <1>1, <2>1, <2>3
  <2>6. UsdSum(R, Cycle(R, z)) = U[z] - U[L[z - 1]]
    BY <2>1, <2>4, <2>5, SliceIsWorth DEF U, som
  <2> QED BY <2>2, <2>6 DEF Residue
<1>8. Residues(R) \in [Place -> Int]
  <2>1. ASSUME NEW z \in Z PROVE Residue(R, z) \in Int
    <3>1. z \in 0..Places /\ z - 1 \in 0..Places
      BY <1>1, <1>2 DEF Place
    <3>2. U[z] \in Int /\ U[L[z - 1]] \in Int
      BY <1>3, <1>5, <3>1
    <3> QED BY <1>7, <3>2
  <2> QED BY <2>1 DEF Residues, Z
<1>9. \A p \in Place : g[p] = g[p - 1] + Residues(R)[p]
  <2> SUFFICES ASSUME NEW p \in Place PROVE g[p] = g[p - 1] + Residues(R)[p]
    OBVIOUS
  <2>1. p \in 0..Places /\ p - 1 \in 0..Places /\ g[p] = U[L[p]] /\ g[p - 1] = U[L[p - 1]]
    BY <1>1 DEF Place
  <2>2. U[L[p]] \in Int /\ U[L[p - 1]] \in Int
    BY <1>3, <1>5, <2>1
  <2>3. Residues(R)[p] = IF p \in Z THEN Residue(R, p) ELSE 0
    BY DEF Residues, Z
  <2>4. CASE p \in Z
    <3>1. Residue(R, p) = U[p] - U[L[p - 1]] /\ L[p] = p
      BY <1>7, <2>4
    <3> HIDE DEF g
    <3> QED BY <2>1, <2>2, <2>3, <2>4, <3>1
  <2>5. CASE p \notin Z
    <3>1. L[p] \in 0..p /\ L[p - 1] \in 0..(p - 1) /\ Last(L[p], p) /\ Last(L[p - 1], p - 1)
      BY <1>4, <2>1
    <3>2. L[p] # p
      BY <1>1, <2>5, <3>1 DEF Place
    <3>3. L[p] <= L[p - 1]
      BY <1>1, <2>1, <3>1, <3>2
    <3>4. L[p - 1] <= L[p]
      BY <1>1, <2>1, <3>1
    <3>5. L[p] = L[p - 1]
      BY <2>1, <3>1, <3>3, <3>4
    <3> HIDE DEF g
    <3> QED BY <2>1, <2>2, <2>3, <2>5, <3>5
  <2> QED BY <2>4, <2>5
<1>10. Total(Residues(R)) = U[L[Places]]
  <2> HIDE DEF g
  <2>1. SumTo(Residues(R)) = g
    BY <1>6, <1>8, <1>9, SumIs
  <2> QED BY <1>1, <2>1 DEF Total, g
<1>11. UsdSum(R, Open(R)) = U[Places] - U[L[Places]]
  <2>1. L[Places] \in 0..Places /\ Last(L[Places], Places)
    BY <1>1, <1>4
  <2>2. Open(R) = {q \in Of(R, "som") : L[Places] < q /\ q <= Places}
    <3>1. ASSUME NEW q \in Of(R, "som")
          PROVE  (\A z \in Zeros(R) : z < q) <=> L[Places] < q /\ q <= Places
      <4>1. /\ q \in Nat /\ q > 0 /\ q <= Places
            /\ \A z \in Zeros(R) : z \in Nat /\ z <= Places
        BY <1>1, <1>2 DEF som, Z, Place, Live
      <4> QED BY <1>1, <2>1, <4>1 DEF Z
    <3> QED BY <3>1 DEF Open
  <2> QED BY <1>1, <2>1, <2>2, SliceIsWorth DEF U, som
<1>12. UsdSum(R, Of(R, "som")) = U[Places]
  BY DEF UsdSum, Total, U, som
<1>13. U[Places] \in Int /\ U[L[Places]] \in Int
  BY <1>1, <1>3, <1>5
<1> QED BY <1>8, <1>10, <1>11, <1>12, <1>13

-----------------------------------------------------------------------------
(* The differences written are those the cycles ask for.                   *)

\* A dollar row is worth its dollars.
WorthIn(R) == \A p \in Of(R, "usd") : R[p].rate = UsdRate /\ R[p].usd = R[p].native

\* A cycle is closed by its whole residue if it is maintained, else not at all.
Differences(R, M) ==
  [z \in Place |-> IF z \in Zeros(R) /\ Residue(R, z) # 0 /\ Managed(R, M, z)
                   THEN -Residue(R, z) ELSE 0]

DollarsWorth == WorthIn(row)
DiffsAgree   == diff = Differences(row, managed)

LedgerInv == TypeOK /\ DollarsWorth /\ DiffsAgree

\* A place that closed a cycle is of that cycle, and of no later one.
LEMMA ZerosPartCycles ==
  ASSUME NEW R, NEW z \in Zeros(R)
  PROVE  /\ z \in Cycle(R, z) /\ z \in Live(R) /\ z \in Place /\ R[z] # None
         /\ \A y \in Zeros(R) : y \in Cycle(R, z) => y = z
<1>1. /\ Zeros(R) \subseteq Of(R, "som") /\ Of(R, "som") \subseteq Live(R)
      /\ Live(R) \subseteq Place /\ Place \subseteq Nat
  BY MoneyAssumption DEF Zeros, Of, Live, Place
<1>2. ASSUME NEW y \in Zeros(R) PROVE y \in Nat /\ z \in Nat
  <2>1. y \in Place /\ z \in Place
    BY <1>1
  <2> QED BY <1>1, <2>1
<1>3. z \in Cycle(R, z)
  BY <1>1, <1>2 DEF Cycle
<1>4. ASSUME NEW y \in Zeros(R), y \in Cycle(R, z) PROVE y = z
  <2>1. y <= z /\ ~(y < z)
    BY <1>2, <1>4 DEF Cycle
  <2> QED BY <1>2, <2>1
<1> QED BY <1>1, <1>3, <1>4 DEF Live

\* The reconciler leaves the ledger's rows as given, and the differences agree.
LEMMA ReconcilerAgrees ==
  ASSUME NEW R \in Ledgers, NEW M \in SUBSET Live(R), Reconcile(R, M)
  PROVE  /\ row' = R
         /\ diff' \in [Place -> Int] /\ Anchors(diff') \subseteq managed'
         /\ managed' \subseteq Live(R)
         /\ diff' = Differences(R, managed')
         /\ \A z \in Zeros(R) : Residue(R, z) # 0 =>
               (Managed(R, managed', z) <=> MayClose(R, M, auto, z, Residue(R, z)))
<1>1. row' = R /\ diff' = Closing(R, M, auto) /\ managed' = M \cup Anchors(diff')
  BY DEF Reconcile
<1>2. \A z \in Zeros(R) : Residue(R, z) \in Int
  <2>1. Residues(R) \in [Place -> Int]
    BY CyclesPart
  <2> QED BY <2>1, ZerosPartCycles DEF Residues
<1>3. /\ \A z \in Place : diff'[z] = IF z \in Zeros(R) /\ Residue(R, z) # 0
                                        /\ MayClose(R, M, auto, z, Residue(R, z))
                                     THEN -Residue(R, z) ELSE 0
      /\ diff' = [z \in Place |-> diff'[z]]
  BY <1>1 DEF Closing
<1>4. diff' \in [Place -> Int]
  BY <1>2, <1>3
<1>5. Anchors(diff') \subseteq Zeros(R)
  BY <1>3 DEF Anchors
<1>6. ASSUME NEW z \in Zeros(R), Residue(R, z) # 0
      PROVE  Managed(R, managed', z) <=> MayClose(R, M, auto, z, Residue(R, z))
  <2>1. z \in Place /\ z \in Cycle(R, z) /\ \A y \in Zeros(R) : y \in Cycle(R, z) => y = z
    BY ZerosPartCycles
  <2>2. ASSUME MayClose(R, M, auto, z, Residue(R, z)) PROVE Managed(R, managed', z)
    <3>1. diff'[z] = -Residue(R, z) /\ diff'[z] # 0
      BY <1>2, <1>3, <1>6, <2>1, <2>2
    <3>2. z \in managed'
      BY <1>1, <2>1, <3>1 DEF Anchors
    <3> QED BY <2>1, <3>2 DEF Managed
  <2>3. ASSUME Managed(R, managed', z), ~MayClose(R, M, auto, z, Residue(R, z)) PROVE FALSE
    <3>1. PICK y \in Cycle(R, z) : y \in M \/ y \in Anchors(diff')
      BY <1>1, <2>3 DEF Managed
    <3>2. y \notin M
      BY <2>3, <3>1 DEF MayClose, Managed
    <3>3. y = z /\ diff'[z] # 0
      BY <1>5, <2>1, <3>1, <3>2 DEF Anchors
    <3> QED BY <1>3, <2>1, <2>3, <3>3
  <2> QED BY <2>2, <2>3
<1>7. diff' = Differences(R, managed')
  <2>1. \A z \in Place : diff'[z] = Differences(R, managed')[z]
    BY <1>3, <1>6 DEF Differences
  <2>2. Differences(R, managed') = [z \in Place |-> Differences(R, managed')[z]]
    BY DEF Differences
  <2> QED BY <1>3, <2>1, <2>2, Zenon
<1>8. Anchors(diff') \subseteq managed' /\ managed' \subseteq Live(R)
  BY <1>1, <1>5, ZerosPartCycles
<1> QED BY <1>1, <1>4, <1>6, <1>7, <1>8

\* What the invariant says of a ledger, in parts.
LEMMA LedgerTyped ==
  ASSUME LedgerInv
  PROVE  /\ row \in Ledgers /\ diff \in [Place -> Int] /\ hand \in [Place -> Int]
         /\ managed \in SUBSET Live(row) /\ auto \in BOOLEAN
         /\ \A p \in Live(row) : p \in Place /\ row[p] \in Entries
<1>1. TypeOK
  BY DEF LedgerInv
<1> QED BY <1>1 DEF TypeOK, Ledgers, Live

\* A ledger whose differences agree owes its open money and nothing else.
LEMMA AgreeingOwesOpen == LedgerInv => OnlyOpenMoneyOwed
<1> SUFFICES ASSUME LedgerInv PROVE OnlyOpenMoneyOwed
  OBVIOUS
<1> DEFINE som == Of(row, "som")
           usd == Of(row, "usd")
           legacy == LegacyResidues(row, managed)
<1>1. /\ row \in Ledgers /\ diff \in [Place -> Int] /\ hand \in [Place -> Int]
      /\ \A p \in Live(row) : p \in Place /\ row[p] \in Entries
  BY LedgerTyped
<1>2. som \in SUBSET Live(row) /\ usd \in SUBSET Live(row) /\ som \cap usd = {} /\ som \cup usd = Live(row)
  BY <1>1 DEF Of, Entries, Currency
<1>3. UsdSum(row, Live(row)) = UsdSum(row, som) + UsdSum(row, usd)
  BY <1>1, <1>2, WorthOfParts
<1>4. UsdSum(row, usd) = NativeSum(row, usd)
  <2>1. ASSUME NEW p \in usd PROVE SignedUsd(row[p]) = NativeOf(row[p])
    <3>1. row[p].usd = row[p].native
      BY DEF LedgerInv, DollarsWorth, WorthIn
    <3> QED BY <3>1 DEF SignedUsd, NativeOf
  <2>2. Dollars(row, usd) = Natives(row, usd)
    BY <2>1 DEF Dollars, Natives
  <2> QED BY <2>2 DEF UsdSum, NativeSum
<1>5. /\ UsdSum(row, som) = UsdSum(row, Open(row)) + Total(Residues(row))
      /\ Residues(row) \in [Place -> Int]
  BY <1>1, CyclesPart
<1>6. \A z \in Zeros(row) : Residue(row, z) \in Int /\ z \in Place
  BY <1>5, ZerosPartCycles DEF Residues
<1>7. legacy \in [Place -> Int]
  BY <1>6 DEF LegacyResidues
<1>8. ASSUME NEW z \in Place PROVE legacy[z] = diff[z] + Residues(row)[z]
  <2>1. diff[z] = IF z \in Zeros(row) /\ Residue(row, z) # 0 /\ Managed(row, managed, z)
                  THEN -Residue(row, z) ELSE 0
    BY DEF LedgerInv, DiffsAgree, Differences
  <2>2. Residues(row)[z] = IF z \in Zeros(row) THEN Residue(row, z) ELSE 0
    BY DEF Residues
  <2>3. legacy[z] = IF z \in Zeros(row) /\ Residue(row, z) # 0 /\ ~Managed(row, managed, z)
                    THEN Residue(row, z) ELSE 0
    BY DEF LegacyResidues, IsLegacy
  <2> QED BY <1>6, <2>1, <2>2, <2>3
<1>9. Total(legacy) = Total(diff) + Total(Residues(row)) /\ Total(diff) \in Int /\ Total(Residues(row)) \in Int
  <2> HIDE DEF legacy
  <2> QED BY <1>1, <1>5, <1>7, <1>8, TotalsAdd
<1>10. UsdSum(row, Open(row)) \in Int /\ UsdSum(row, usd) \in Int
  <2>1. Open(row) \in SUBSET Live(row)
    BY DEF Open, Of
  <2> QED BY <1>1, <1>2, <2>1, SumsAreNumbers
<1>11. Total(hand) \in Int
  <2>1. SumTo(hand) \in [0..Places -> Int] /\ Places \in 0..Places
    BY <1>1, SumGrows, MoneyAssumption
  <2> QED BY <2>1 DEF Total
<1> QED BY <1>3, <1>4, <1>5, <1>9, <1>10, <1>11 DEF OnlyOpenMoneyOwed, Balance

-----------------------------------------------------------------------------
(* Every door keeps the invariant.                                         *)

\* A door that reconciles rows keeps it, whatever else it did.
LEMMA DoorsReconcile ==
  ASSUME NEW R \in Ledgers, NEW M \in SUBSET Live(R), Reconcile(R, M), WorthIn(R),
         hand' \in [Place -> Int], auto' \in BOOLEAN,
         moving' \in [Movers -> [place : Place, row : Entries] \cup {Idle}]
  PROVE  LedgerInv'
<1>1. /\ row' = R /\ diff' \in [Place -> Int] /\ Anchors(diff') \subseteq managed'
      /\ managed' \subseteq Live(R) /\ diff' = Differences(R, managed')
  BY ReconcilerAgrees
<1>2. TypeOK'
  BY <1>1 DEF TypeOK, Ledgers
<1> QED BY <1>1, <1>2 DEF LedgerInv, DollarsWorth, DiffsAgree

\* Typing a row.
LEMMA TypingKeeps ==
  ASSUME LedgerInv, NEW p \in Place, NEW slip \in Slips, AddTransaction(p, slip)
  PROVE  LedgerInv'
<1> DEFINE r == Entry(slip, TRUE)
           R == [row EXCEPT ![p] = r]
<1>1. r \in Entries /\ r # None /\ (r.cur = "usd" => r.rate = UsdRate /\ r.usd = r.native)
  BY SlipsBecomeRows, AbsenceAssumption
<1>2. /\ row \in Ledgers /\ managed \subseteq Live(row) /\ auto \in BOOLEAN
      /\ hand \in [Place -> Int] /\ TypeOK /\ WorthIn(row)
  BY LedgerTyped DEF LedgerInv, DollarsWorth
<1>3. Reconcile(R, managed \ {p}) /\ UNCHANGED <<hand, auto, moving>>
  BY DEF AddTransaction
<1> HIDE DEF r
<1>4. R \in Ledgers
  BY <1>1, <1>2 DEF Ledgers
<1>5. managed \ {p} \in SUBSET Live(R)
  BY <1>2 DEF Live, Ledgers
<1>6. WorthIn(R)
  BY <1>1, <1>2 DEF WorthIn, Of, Live, Ledgers
<1> HIDE DEF R
<1> QED BY <1>2, <1>3, <1>4, <1>5, <1>6, DoorsReconcile DEF TypeOK

\* Voiding a row.
LEMMA VoidingKeeps ==
  ASSUME LedgerInv, NEW p \in Place, VoidTransaction(p)
  PROVE  LedgerInv'
<1> DEFINE R == [row EXCEPT ![p] = None]
<1>1. /\ row \in Ledgers /\ managed \subseteq Live(row) /\ auto \in BOOLEAN
      /\ hand \in [Place -> Int] /\ TypeOK /\ WorthIn(row)
  BY LedgerTyped DEF LedgerInv, DollarsWorth
<1>2. Reconcile(R, managed \ {p}) /\ UNCHANGED <<hand, auto, moving>>
  BY DEF VoidTransaction
<1>3. R \in Ledgers
  BY <1>1 DEF Ledgers
<1>4. managed \ {p} \in SUBSET Live(R)
  BY <1>1 DEF Live, Ledgers
<1>5. WorthIn(R)
  BY <1>1 DEF WorthIn, Of, Live, Ledgers
<1> HIDE DEF R
<1> QED BY <1>1, <1>2, <1>3, <1>4, <1>5, DoorsReconcile DEF TypeOK

\* A charge goes on whole, or in two parts that make it up.
LEMMA PartsMakeUp ==
  ASSUME NEW r \in Entries, NEW parts \in Parts(r),
         r.cur = "usd" => r.rate = UsdRate /\ r.usd = r.native
  PROVE  /\ \A i \in DOMAIN parts :
               /\ parts[i] \in Entries /\ parts[i].cur = r.cur /\ parts[i].kind = r.kind
               /\ r.cur = "usd" => parts[i].rate = UsdRate /\ parts[i].usd = parts[i].native
         /\ \/ DOMAIN parts = {1} /\ Len(parts) = 1 /\ parts[1] = r
            \/ /\ DOMAIN parts = {1, 2} /\ Len(parts) = 2
               /\ parts[1].native + parts[2].native = r.native
               /\ parts[1].usd + parts[2].usd = r.usd
<1>1. /\ r.kind \in {"charge", "payment", "refund"} /\ r.cur \in Currency
      /\ r.native \in Nat \ {0} /\ r.rate \in Nat /\ r.usd \in Int /\ r.fresh \in BOOLEAN
  BY DEF Entries
<1>2. CASE parts = <<r>>
  BY <1>2
<1>3. ASSUME NEW n \in 1..(r.native - 1),
             parts = <<Part(r, n, ToUsd(n, r.rate)), Part(r, r.native - n, r.usd - ToUsd(n, r.rate))>>
      PROVE  /\ DOMAIN parts = {1, 2} /\ Len(parts) = 2
             /\ \A i \in {1, 2} :
                   /\ parts[i] \in Entries /\ parts[i].cur = r.cur /\ parts[i].kind = r.kind
                   /\ r.cur = "usd" => parts[i].rate = UsdRate /\ parts[i].usd = parts[i].native
             /\ parts[1].native + parts[2].native = r.native
             /\ parts[1].usd + parts[2].usd = r.usd
  <2> DEFINE u == ToUsd(n, r.rate)
             a == Part(r, n, u)
             b == Part(r, r.native - n, r.usd - u)
  <2>1. n \in Nat \ {0} /\ r.native - n \in Nat \ {0}
    BY <1>1
  <2>2. u \in Int /\ r.usd - u \in Int /\ (r.rate = UsdRate => u = n)
    BY <1>1, <2>1, CentsAreNumbers
  <2>3. parts = <<a, b>>
    BY <1>3
  <2> HIDE DEF u
  <2>4. ASSUME NEW k \in Nat \ {0}, NEW v \in Int
        PROVE  /\ Part(r, k, v) \in Entries /\ Part(r, k, v).native = k /\ Part(r, k, v).usd = v
               /\ Part(r, k, v).cur = r.cur /\ Part(r, k, v).kind = r.kind
               /\ Part(r, k, v).rate = r.rate
    BY DEF Entries, Part
  <2>5. /\ a \in Entries /\ a.native = n /\ a.usd = u /\ a.cur = r.cur /\ a.kind = r.kind
        /\ a.rate = r.rate
    BY <2>1, <2>2, <2>4
  <2>6. /\ b \in Entries /\ b.native = r.native - n /\ b.usd = r.usd - u /\ b.cur = r.cur
        /\ b.kind = r.kind /\ b.rate = r.rate
    BY <2>1, <2>2, <2>4
  <2> HIDE DEF a, b
  <2>7. parts[1] = a /\ parts[2] = b /\ DOMAIN parts = {1, 2} /\ Len(parts) = 2
    BY <2>3
  <2>8. r.cur = "usd" => a.rate = UsdRate /\ a.usd = a.native /\ b.rate = UsdRate /\ b.usd = b.native
    BY <2>2, <2>5, <2>6
  <2> QED BY <1>1, <2>1, <2>2, <2>5, <2>6, <2>7, <2>8
<1>4. CASE \E n \in 1..(r.native - 1) :
             parts = <<Part(r, n, ToUsd(n, r.rate)), Part(r, r.native - n, r.usd - ToUsd(n, r.rate))>>
  BY <1>3, <1>4
<1> QED BY <1>2, <1>4 DEF Parts

\* What a move does to the rows: the charge goes, and each of its parts stands on a
\* place of its own that was free, on the charge's day, with no row between.
Moves(m, parts, at) ==
  LET p == moving[m].place
      rest == [row EXCEPT ![p] = None]
  IN /\ parts \in Parts(row[p]) /\ at \in [1..2 -> Place]
     /\ p \in Place /\ row[p] \in Entries
     /\ 2 \in DOMAIN parts => at[1] # at[2]
     /\ \A i \in DOMAIN parts : rest[at[i]] = None /\ Beside(rest, p, at[i])
     /\ row' = Placed(rest, parts, at)

\* A move is one of those, and reconciles the rows it leaves.
LEMMA MoveMoves ==
  ASSUME LedgerInv, NEW m \in Movers, MoveCharge(m)
  PROVE  \E parts, at : Moves(m, parts, at) /\ Reconcile(row', managed \ {moving[m].place})
<1>1. moving[m].place \in Place /\ row[moving[m].place] = moving[m].row /\ moving[m].row \in Entries
  BY DEF LedgerInv, TypeOK, MoveCharge, StillAsRead
<1> QED BY <1>1 DEF Moves, MoveCharge, Vacant, Reconcile

\* Moving a charge.
LEMMA MovingKeeps ==
  ASSUME LedgerInv, NEW m \in Movers, MoveCharge(m)
  PROVE  LedgerInv'
<1> DEFINE p == moving[m].place
<1>1. PICK parts, at : Moves(m, parts, at) /\ Reconcile(row', managed \ {p})
  BY MoveMoves
<1>2. /\ row \in Ledgers /\ managed \subseteq Live(row) /\ auto \in BOOLEAN
      /\ hand \in [Place -> Int] /\ TypeOK /\ WorthIn(row)
  BY LedgerTyped DEF LedgerInv, DollarsWorth
<1>3. /\ parts \in Parts(row[p]) /\ at \in [1..2 -> Place] /\ p \in Place /\ row[p] \in Entries
      /\ row' = Placed([row EXCEPT ![p] = None], parts, at)
  BY <1>1 DEF Moves
<1>4. row[p].cur = "usd" => row[p].rate = UsdRate /\ row[p].usd = row[p].native
  BY <1>2, <1>3, AbsenceAssumption DEF WorthIn, Of, Live
<1>5. /\ 1 \in DOMAIN parts
      /\ \A i \in DOMAIN parts :
            /\ parts[i] \in Entries /\ parts[i].cur = row[p].cur
            /\ parts[i].cur = "usd" => parts[i].rate = UsdRate /\ parts[i].usd = parts[i].native
  BY <1>3, <1>4, PartsMakeUp
<1>6. ASSUME NEW q \in Place
      PROVE  \/ \E i \in DOMAIN parts : row'[q] = parts[i]
             \/ q = p /\ row'[q] = None
             \/ q # p /\ row'[q] = row[q]
  <2>1. [row EXCEPT ![p] = None][q] = IF q = p THEN None ELSE row[q]
    BY <1>2 DEF Ledgers
  <2>2. row'[q] = IF q = at[1] THEN parts[1]
                  ELSE IF 2 \in DOMAIN parts /\ q = at[2] THEN parts[2]
                  ELSE [row EXCEPT ![p] = None][q]
    BY <1>3 DEF Placed
  <2> QED BY <1>5, <2>1, <2>2
<1>7. row' \in Ledgers
  <2>1. ASSUME NEW q \in Place PROVE row'[q] \in Entries \cup {None}
    <3>1. row[q] \in Entries \cup {None}
      BY <1>2 DEF Ledgers
    <3> QED BY <1>5, <1>6, <3>1, AbsenceAssumption
  <2>2. row' = [q \in Place |-> row'[q]]
    BY <1>3 DEF Placed
  <2> QED BY <2>1, <2>2 DEF Ledgers
<1>8. managed \ {p} \in SUBSET Live(row')
  <2>1. ASSUME NEW q \in managed \ {p} PROVE q \in Place /\ row'[q] # None
    <3>1. q \in Place /\ q # p /\ row[q] # None
      BY <1>2 DEF Live
    <3> QED BY <1>5, <1>6, <3>1, AbsenceAssumption
  <2> QED BY <2>1 DEF Live
<1>9. WorthIn(row')
  <2> SUFFICES ASSUME NEW q \in Place, row'[q] # None, row'[q].cur = "usd"
               PROVE  row'[q].rate = UsdRate /\ row'[q].usd = row'[q].native
    BY DEF WorthIn, Of, Live
  <2>1. CASE \E i \in DOMAIN parts : row'[q] = parts[i]
    <3>1. PICK i \in DOMAIN parts : row'[q] = parts[i]
      BY <2>1
    <3>2. parts[i].cur = "usd" => parts[i].rate = UsdRate /\ parts[i].usd = parts[i].native
      BY <1>5
    <3> QED BY <3>1, <3>2
  <2>2. CASE row'[q] = row[q]
    BY <1>2, <2>2 DEF WorthIn, Of, Live
  <2> QED BY <1>6, <2>1, <2>2
<1>10. /\ hand' = hand /\ auto' = auto
       /\ moving' \in [Movers -> [place : Place, row : Entries] \cup {Idle}]
  BY <1>2 DEF MoveCharge, TypeOK
<1> QED BY <1>1, <1>2, <1>7, <1>8, <1>9, <1>10, DoorsReconcile

\* The rows once a day's charges are priced anew.
Priced(day, rate) ==
  [p \in Place |-> IF p \in Repriced(day, rate)
                   THEN [row[p] EXCEPT !.rate = rate, !.usd = ToUsd(row[p].native, rate)]
                   ELSE row[p]]

\* Pricing changes soum rows in rate and dollars, and no other row.
LEMMA PricingSpares ==
  ASSUME LedgerInv, NEW day, NEW rate \in Rates, NEW R, R = Priced(day, rate)
  PROVE  /\ R \in Ledgers /\ Live(R) = Live(row)
         /\ \A p \in Place : p \notin Repriced(day, rate) => R[p] = row[p]
         /\ \A p \in Live(row) : /\ R[p].cur = row[p].cur /\ R[p].kind = row[p].kind
                                 /\ R[p].native = row[p].native /\ R[p].fresh = row[p].fresh
         /\ Of(R, "som") = Of(row, "som") /\ Of(R, "usd") = Of(row, "usd")
         /\ Repriced(day, rate) \subseteq Of(row, "som")
<1>1. row \in Ledgers /\ rate \in Nat
  BY LedgerTyped, MoneyAssumption
<1>2. \A p \in Place : R[p] = IF p \in Repriced(day, rate)
                              THEN [row[p] EXCEPT !.rate = rate, !.usd = ToUsd(row[p].native, rate)]
                              ELSE row[p]
  BY DEF Priced
<1>3. Repriced(day, rate) \subseteq Of(row, "som") /\ Of(row, "som") \subseteq Live(row)
  BY DEF Repriced, Of
<1>4. ASSUME NEW p \in Repriced(day, rate)
      PROVE  /\ p \in Place /\ R[p] \in Entries /\ R[p] # None /\ row[p] # None
             /\ R[p].cur = row[p].cur /\ R[p].kind = row[p].kind
             /\ R[p].native = row[p].native /\ R[p].fresh = row[p].fresh
  <2>1. p \in Place /\ row[p] \in Entries /\ row[p] # None
    BY <1>1, <1>3 DEF Live, Ledgers
  <2>2. ToUsd(row[p].native, rate) \in Int
    BY <1>1, <2>1, CentsAreNumbers DEF Entries
  <2> DEFINE u == ToUsd(row[p].native, rate)
  <2> HIDE DEF u
  <2>3. R[p] = [row[p] EXCEPT !.rate = rate, !.usd = u]
    BY <1>2, <2>1 DEF u
  <2>4. R[p] \in Entries
    BY <1>1, <2>1, <2>2, <2>3 DEF Entries, u
  <2>5. /\ R[p].cur = row[p].cur /\ R[p].kind = row[p].kind
        /\ R[p].native = row[p].native /\ R[p].fresh = row[p].fresh
    BY <2>1, <2>3 DEF Entries
  <2> QED BY <2>1, <2>4, <2>5, AbsenceAssumption
<1>5. \A p \in Place : p \notin Repriced(day, rate) => R[p] = row[p]
  BY <1>2
<1>6. R \in Ledgers
  <2>1. \A p \in Place : R[p] \in Entries \cup {None}
    BY <1>1, <1>4, <1>5 DEF Ledgers
  <2>2. R = [p \in Place |-> R[p]]
    BY DEF Priced
  <2> QED BY <2>1, <2>2 DEF Ledgers
<1>7. \A p \in Place : R[p] # None <=> row[p] # None
  BY <1>4, <1>5
<1>8. Live(R) = Live(row)
  BY <1>7 DEF Live
<1>9. \A p \in Live(row) : /\ R[p].cur = row[p].cur /\ R[p].kind = row[p].kind
                           /\ R[p].native = row[p].native /\ R[p].fresh = row[p].fresh
  BY <1>4, <1>5 DEF Live
<1>10. Of(R, "som") = Of(row, "som") /\ Of(R, "usd") = Of(row, "usd")
  BY <1>8, <1>9 DEF Of
<1> QED BY <1>3, <1>5, <1>6, <1>8, <1>9, <1>10

\* Pricing a day's charges anew.
LEMMA PricingKeeps ==
  ASSUME LedgerInv, NEW day, NEW rate \in Rates, PlanApply(day, rate)
  PROVE  LedgerInv'
<1> DEFINE R == Priced(day, rate)
<1>1. Reconcile(R, managed) /\ UNCHANGED <<hand, auto, moving>>
  BY DEF PlanApply, Priced
<1>2. /\ managed \subseteq Live(row) /\ auto \in BOOLEAN
      /\ hand \in [Place -> Int] /\ TypeOK /\ WorthIn(row)
  BY LedgerTyped DEF LedgerInv, DollarsWorth
<1> HIDE DEF R
<1>3. /\ R \in Ledgers /\ Live(R) = Live(row) /\ Of(R, "usd") = Of(row, "usd")
      /\ Repriced(day, rate) \subseteq Of(row, "som")
      /\ \A p \in Place : p \notin Repriced(day, rate) => R[p] = row[p]
  BY PricingSpares DEF R
<1>4. WorthIn(R)
  <2>1. ASSUME NEW p \in Of(row, "usd") PROVE R[p] = row[p]
    BY <1>3 DEF Of, Live
  <2> QED BY <1>2, <1>3, <2>1 DEF WorthIn
<1> QED BY <1>1, <1>2, <1>3, <1>4, DoorsReconcile DEF TypeOK

\* Closing by hand, an old residue or a drift, applying the rule to the ledger as it
\* is, and undoing a close.
LEMMA ClosingKeeps ==
  ASSUME LedgerInv,
         \/ ApplyFxHistory \/ CloseCrossCurrencyResidue
         \/ \E p \in Place : CloseLegacyFxResidue(p) \/ VoidFxClose(p)
  PROVE  LedgerInv'
<1>1. /\ row \in Ledgers /\ diff \in [Place -> Int] /\ managed \in SUBSET Live(row)
      /\ auto \in BOOLEAN /\ hand \in [Place -> Int] /\ TypeOK /\ WorthIn(row)
  BY LedgerTyped DEF LedgerInv, DollarsWorth
<1>2. CASE ApplyFxHistory
  BY <1>1, <1>2, DoorsReconcile DEF ApplyFxHistory, TypeOK
<1>3. ASSUME NEW p \in Place, CloseLegacyFxResidue(p) PROVE LedgerInv'
  <2>1. managed \cup {p} \in SUBSET Live(row)
    BY <1>1, <1>3, ZerosPartCycles DEF CloseLegacyFxResidue
  <2> QED BY <1>1, <1>3, <2>1, DoorsReconcile DEF CloseLegacyFxResidue, TypeOK
<1>4. ASSUME NEW p \in Place, VoidFxClose(p) PROVE LedgerInv'
  BY <1>1, <1>4, DoorsReconcile DEF VoidFxClose, TypeOK
<1>5. CASE CloseCrossCurrencyResidue
  <2>1. Reconcile(row, managed) /\ UNCHANGED <<auto, moving>>
    BY <1>5 DEF CloseCrossCurrencyResidue
  <2>2. PICK anchor \in Live(row) : hand' = [hand EXCEPT ![anchor] = CloseAmount(anchor)]
    BY <1>5 DEF CloseCrossCurrencyResidue
  <2>3. diff' \in [Place -> Int]
    BY <1>1, <2>1, ReconcilerAgrees
  <2>4. UsdSum(row, Live(row)) \in Int /\ Total(diff') \in Int /\ Total(hand) \in Int
    <3>1. SumTo(diff') \in [0..Places -> Int] /\ SumTo(hand) \in [0..Places -> Int] /\ Places \in 0..Places
      BY <1>1, <2>3, SumGrows, MoneyAssumption
    <3> QED BY <1>1, <3>1, SumsAreNumbers DEF Total
  <2>5. hand[anchor] \in Int
    BY <1>1 DEF Live
  <2>6. CloseAmount(anchor) \in Int
    BY <2>4, <2>5 DEF CloseAmount, Balance
  <2>7. hand' \in [Place -> Int]
    BY <1>1, <2>2, <2>6
  <2> QED BY <1>1, <2>1, <2>7, DoorsReconcile DEF TypeOK
<1> QED BY <1>2, <1>3, <1>4, <1>5

\* What leaves the ledger alone keeps it: a press that reads or gives up, the switch.
LEMMA WaitingKeeps ==
  ASSUME LedgerInv,
         \/ SetAuto \/ UNCHANGED vars
         \/ \E m \in Movers : MoveRefused(m) \/ \E p \in Place : ReadToMove(m, p)
  PROVE  LedgerInv'
<1>1. UNCHANGED <<row, diff, managed, hand>>
  BY DEF SetAuto, MoveRefused, ReadToMove, vars
<1>2. TypeOK /\ DollarsWorth /\ DiffsAgree
  BY DEF LedgerInv
<1>3. auto' \in BOOLEAN
  BY <1>2 DEF SetAuto, MoveRefused, ReadToMove, vars, TypeOK
<1>4. moving' \in [Movers -> [place : Place, row : Entries] \cup {Idle}]
  <2>1. moving \in [Movers -> [place : Place, row : Entries] \cup {Idle}]
    BY <1>2 DEF TypeOK
  <2>2. CASE SetAuto \/ UNCHANGED vars
    BY <2>1, <2>2 DEF SetAuto, vars
  <2>3. ASSUME NEW m \in Movers, MoveRefused(m) PROVE moving' \in [Movers -> [place : Place, row : Entries] \cup {Idle}]
    BY <2>1, <2>3 DEF MoveRefused
  <2>4. ASSUME NEW m \in Movers, NEW p \in Place, ReadToMove(m, p)
        PROVE  moving' \in [Movers -> [place : Place, row : Entries] \cup {Idle}]
    <3>1. row[p] \in Entries
      BY <1>2, <2>4 DEF TypeOK, ReadToMove
    <3> QED BY <2>1, <2>4, <3>1 DEF ReadToMove
  <2> QED BY <2>2, <2>3, <2>4
<1>5. TypeOK'
  BY <1>1, <1>2, <1>3, <1>4 DEF TypeOK, Anchors, Live
<1>6. DollarsWorth' /\ DiffsAgree'
  BY <1>1, <1>2 DEF DollarsWorth, DiffsAgree
<1> QED BY <1>5, <1>6 DEF LedgerInv

\* A ledger from before the rule has no differences, and maintains none.
LEMMA InitLedger == MoneyInit => LedgerInv
<1> SUFFICES ASSUME MoneyInit PROVE LedgerInv
  OBVIOUS
<1>1. PICK old \in [OldPlaces -> {None} \cup {Entry(slip, FALSE) : slip \in OldSlips}] :
         row = [p \in Place |-> IF p \in OldPlaces THEN old[p] ELSE None]
  BY DEF MoneyInit
<1>2. ASSUME NEW p \in Place, row[p] # None
      PROVE  row[p] \in Entries /\ (row[p].cur = "usd" => row[p].rate = UsdRate /\ row[p].usd = row[p].native)
  <2>1. p \in OldPlaces /\ row[p] = old[p]
    BY <1>1, <1>2
  <2>2. PICK slip \in OldSlips : row[p] = Entry(slip, FALSE)
    BY <1>1, <1>2, <2>1
  <2>3. slip \in Slips
    BY MoneyAssumption
  <2>4. /\ Entry(slip, FALSE) \in Entries
        /\ slip.cur = "usd" => Entry(slip, FALSE).rate = UsdRate /\ Entry(slip, FALSE).usd = slip.native
        /\ Entry(slip, FALSE).cur = slip.cur /\ Entry(slip, FALSE).native = slip.native
    BY <2>3, SlipsBecomeRows
  <2> QED BY <2>2, <2>4
<1>3. /\ diff = [p \in Place |-> 0] /\ managed = {} /\ hand = [p \in Place |-> 0] /\ auto \in BOOLEAN
      /\ moving = [m \in Movers |-> Idle]
  BY DEF MoneyInit
<1>4. Anchors(diff) = {}
  BY <1>3 DEF Anchors
<1>5. row \in [Place -> Entries \cup {None}]
  BY <1>1, <1>2
<1>6. TypeOK
  BY <1>3, <1>4, <1>5 DEF TypeOK
<1>7. DollarsWorth
  BY <1>2 DEF DollarsWorth, WorthIn, Of, Live
<1>8. DiffsAgree
  BY <1>3 DEF DiffsAgree, Differences, Managed
<1> QED BY <1>6, <1>7, <1>8 DEF LedgerInv

\* Whatever is typed, voided, moved, repriced or closed, the differences written are
\* those the cycles ask for, and each dollar row is worth its dollars.
THEOREM LedgerAgrees == MoneySpec => []LedgerInv
<1>1. MoneyInit => LedgerInv
  BY InitLedger
<1>2. LedgerInv /\ [MoneyNext]_vars => LedgerInv'
  <2> SUFFICES ASSUME LedgerInv, [MoneyNext]_vars PROVE LedgerInv'
    OBVIOUS
  <2>1. ASSUME NEW p \in Place, NEW slip \in Slips, AddTransaction(p, slip) PROVE LedgerInv'
    BY <2>1, TypingKeeps
  <2>2. ASSUME NEW p \in Place, VoidTransaction(p) PROVE LedgerInv'
    BY <2>2, VoidingKeeps
  <2>3. ASSUME NEW m \in Movers, MoveCharge(m) PROVE LedgerInv'
    BY <2>3, MovingKeeps
  <2>4. ASSUME NEW p \in Place, NEW k \in Rates, PlanApply(Day[p], k) PROVE LedgerInv'
    BY <2>4, PricingKeeps
  <2>5. CASE \/ ApplyFxHistory \/ CloseCrossCurrencyResidue
             \/ \E p \in Place : CloseLegacyFxResidue(p) \/ VoidFxClose(p)
    BY <2>5, ClosingKeeps
  <2>6. CASE \/ SetAuto \/ UNCHANGED vars
             \/ \E m \in Movers : MoveRefused(m) \/ \E p \in Place : ReadToMove(m, p)
    BY <2>6, WaitingKeeps
  <2> QED BY <2>1, <2>2, <2>3, <2>4, <2>5, <2>6 DEF MoneyNext
<1> QED BY <1>1, <1>2, PTL DEF MoneySpec

\* Every reachable ledger is well typed; a difference stands on a live soum row
\* (finance/fx-residue.ts:252-275).
THEOREM MoneyTyped == MoneySpec => []TypeOK
<1>1. LedgerInv => TypeOK
  BY DEF LedgerInv
<1> QED BY <1>1, LedgerAgrees, PTL

\* A client owes his open rows, his dollar rows and the residues that wait for a
\* person, and nothing of a cycle that closed (finance/fx-residue.ts:9-27).
THEOREM OwesOpenMoney == MoneySpec => []OnlyOpenMoneyOwed
<1> QED BY AgreeingOwesOpen, LedgerAgrees, PTL

-----------------------------------------------------------------------------
(* A reprice moves what is owed by the open charges alone.                 *)

\* Pricing changes no soum: cycles, dollar rows and open rows are where they were.
LEMMA PricingKeepsCycles ==
  ASSUME LedgerInv, NEW day, NEW rate \in Rates, NEW R, R = Priced(day, rate)
  PROVE  /\ Zeros(R) = Zeros(row) /\ Open(R) = Open(row)
         /\ \A z : Cycle(R, z) = Cycle(row, z)
         /\ NativeSum(R, Of(R, "usd")) = NativeSum(row, Of(row, "usd"))
         /\ \A z, v : UsdOffset(R, z, v) <=> UsdOffset(row, z, v)
         /\ \A z : Cycle(row, z) \cap Repriced(day, rate) = {} => Residue(R, z) = Residue(row, z)
<1>1. /\ Of(R, "som") = Of(row, "som") /\ Of(R, "usd") = Of(row, "usd")
      /\ \A p \in Place : p \notin Repriced(day, rate) => R[p] = row[p]
      /\ \A p \in Live(row) : R[p].kind = row[p].kind /\ R[p].native = row[p].native
      /\ Repriced(day, rate) \subseteq Of(row, "som")
  BY PricingSpares
<1>2. ASSUME NEW p \in Live(row) PROVE NativeOf(R[p]) = NativeOf(row[p])
  BY <1>1 DEF NativeOf, Sign
<1>3. \A S : S \subseteq Live(row) => Natives(R, S) = Natives(row, S)
  BY <1>2 DEF Natives
<1>4. Of(row, "som") \subseteq Live(row) /\ Of(row, "usd") \subseteq Live(row)
  BY DEF Of
<1>5. Zeros(R) = Zeros(row)
  BY <1>1, <1>3, <1>4 DEF Zeros, Run
<1>6. \A z : Cycle(R, z) = Cycle(row, z)
  BY <1>1, <1>5 DEF Cycle
<1>7. NativeSum(R, Of(R, "usd")) = NativeSum(row, Of(row, "usd"))
  BY <1>1, <1>3, <1>4 DEF NativeSum
<1>8. \A p \in Of(row, "usd") : R[p] = row[p]
  BY <1>1 DEF Of, Live
<1>9. \A z, v : UsdOffset(R, z, v) <=> UsdOffset(row, z, v)
  BY <1>1, <1>8 DEF UsdOffset
<1>10. ASSUME NEW z, Cycle(row, z) \cap Repriced(day, rate) = {}
       PROVE  Residue(R, z) = Residue(row, z)
  <2>1. \A p \in Place : p \in Cycle(row, z) => R[p] = row[p]
    BY <1>1, <1>10
  <2>2. Dollars(R, Cycle(row, z)) = Dollars(row, Cycle(row, z))
    BY <2>1 DEF Dollars
  <2> QED BY <1>6, <2>2 DEF Residue, UsdSum
<1>11. Open(R) = Open(row)
  BY <1>1, <1>5 DEF Open
<1> QED BY <1>5, <1>6, <1>7, <1>9, <1>10, <1>11

\* Where no difference waits to be written, a cycle is maintained exactly when the rule
\* may close it.
LEMMA WrittenIsMaintained ==
  ASSUME LedgerInv, diff = Closing(row, managed, auto), NEW z \in Zeros(row), Residue(row, z) # 0
  PROVE  Managed(row, managed, z) <=> MayClose(row, managed, auto, z, Residue(row, z))
<1>1. z \in Place /\ Residue(row, z) \in Int
  <2>1. Residues(row) \in [Place -> Int]
    BY LedgerTyped, CyclesPart
  <2> QED BY <2>1, ZerosPartCycles DEF Residues
<1>2. ASSUME MayClose(row, managed, auto, z, Residue(row, z)) PROVE Managed(row, managed, z)
  <2>1. diff[z] = -Residue(row, z)
    BY <1>1, <1>2 DEF Closing
  <2>2. diff[z] = IF Managed(row, managed, z) THEN -Residue(row, z) ELSE 0
    BY <1>1 DEF LedgerInv, DiffsAgree, Differences
  <2> QED BY <1>1, <2>1, <2>2
<1> QED BY <1>2 DEF MayClose

\* The residues that wait for a person are those that waited.
LEMMA PricingSparesLegacy ==
  ASSUME LedgerInv, NEW day, NEW rate \in Rates, PlanApply(day, rate),
         diff = Closing(row, managed, auto),
         \A z \in Zeros(row) :
            UsdOffset(row', z, Residue(row', z)) => UsdOffset(row, z, Residue(row, z))
  PROVE  LegacyResidues(row', managed') = LegacyResidues(row, managed)
<1> DEFINE R == Priced(day, rate)
<1>1. Reconcile(R, managed) /\ row' = R
  BY DEF PlanApply, Priced, Reconcile
<1>2. managed \in SUBSET Live(row)
  BY LedgerTyped
<1> HIDE DEF R
<1>3. /\ R \in Ledgers /\ Live(R) = Live(row)
      /\ \A p \in Live(row) : R[p].fresh = row[p].fresh
  BY PricingSpares DEF R
<1>4. /\ Zeros(R) = Zeros(row) /\ \A z : Cycle(R, z) = Cycle(row, z)
      /\ \A z, v : UsdOffset(R, z, v) <=> UsdOffset(row, z, v)
      /\ \A z : Cycle(row, z) \cap Repriced(day, rate) = {} => Residue(R, z) = Residue(row, z)
  BY PricingKeepsCycles DEF R
<1>5. \A z \in Zeros(R) : Residue(R, z) # 0 =>
         (Managed(R, managed', z) <=> MayClose(R, managed, auto, z, Residue(R, z)))
  BY <1>1, <1>2, <1>3, ReconcilerAgrees
<1>6. \A z : Managed(R, managed, z) <=> Managed(row, managed, z)
  BY <1>4 DEF Managed
<1>7. \A z : (\A q \in Cycle(R, z) : R[q].fresh) <=> (\A q \in Cycle(row, z) : row[q].fresh)
  <2>1. \A z : Cycle(row, z) \subseteq Live(row)
    BY DEF Cycle, Of
  <2> QED BY <1>3, <1>4, <2>1
<1>8. ASSUME NEW z \in Zeros(row)
      PROVE  IsLegacy(R, managed', z) <=> IsLegacy(row, managed, z)
  <2>1. CASE Cycle(row, z) \cap Repriced(day, rate) = {}
    <3>1. Residue(R, z) = Residue(row, z)
      BY <1>4, <2>1
    <3>2. MayClose(R, managed, auto, z, Residue(R, z)) <=> MayClose(row, managed, auto, z, Residue(row, z))
      BY <1>4, <1>6, <1>7, <3>1 DEF MayClose
    <3> QED BY <1>4, <1>5, <3>1, <3>2, WrittenIsMaintained DEF IsLegacy
  <2>2. CASE Cycle(row, z) \cap Repriced(day, rate) # {}
    <3>1. PICK p \in Cycle(row, z) : p \in Repriced(day, rate)
      BY <2>2
    <3>2. MayClose(row, managed, auto, z, Residue(row, z))
      BY <3>1 DEF Repriced, Settled
    <3>3. MayClose(R, managed, auto, z, Residue(R, z))
      BY <1>1, <1>6, <1>7, <3>2 DEF MayClose
    <3> QED BY <1>4, <1>5, <3>2, <3>3, WrittenIsMaintained DEF IsLegacy
  <2> QED BY <2>1, <2>2
<1>9. ASSUME NEW z \in Zeros(row), IsLegacy(row, managed, z)
      PROVE  Residue(R, z) = Residue(row, z)
  <2>1. ~MayClose(row, managed, auto, z, Residue(row, z))
    BY <1>9, WrittenIsMaintained DEF IsLegacy
  <2>2. Cycle(row, z) \cap Repriced(day, rate) = {}
    BY <2>1 DEF Repriced, Settled
  <2> QED BY <1>4, <2>2
<1>10. LegacyResidues(R, managed') = LegacyResidues(row, managed)
  BY <1>4, <1>8, <1>9 DEF LegacyResidues
<1> QED BY <1>1, <1>10

\* What a reprice changes is what the open rows are worth.
LEMMA PricingMovesOpenDebt ==
  ASSUME LedgerInv, LedgerInv', NEW day, NEW rate \in Rates, PlanApply(day, rate),
         diff = Closing(row, managed, auto),
         \A z \in Zeros(row) :
            UsdOffset(row', z, Residue(row', z)) => UsdOffset(row, z, Residue(row, z))
  PROVE  Balance(row', diff', hand') - Balance(row, diff, hand)
           = UsdSum(row', Open(row')) - UsdSum(row, Open(row))
<1>1. row' = Priced(day, rate) /\ hand' = hand
  BY DEF PlanApply, Priced, Reconcile
<1>2. NativeSum(row', Of(row', "usd")) = NativeSum(row, Of(row, "usd"))
  BY <1>1, PricingKeepsCycles
<1>3. LegacyResidues(row', managed') = LegacyResidues(row, managed)
  BY PricingSparesLegacy
<1> DEFINE rest == NativeSum(row, Of(row, "usd")) + Total(hand) + Total(LegacyResidues(row, managed))
           open == UsdSum(row, Open(row))
           openThen == UsdSum(row', Open(row'))
<1>4. Balance(row, diff, hand) = open + NativeSum(row, Of(row, "usd")) + Total(hand)
                                 + Total(LegacyResidues(row, managed))
  BY AgreeingOwesOpen DEF OnlyOpenMoneyOwed
<1>5. OnlyOpenMoneyOwed'
  BY AgreeingOwesOpen, PTL
<1>6. Balance(row', diff', hand') = openThen + NativeSum(row, Of(row, "usd")) + Total(hand)
                                    + Total(LegacyResidues(row, managed))
  BY <1>1, <1>2, <1>3, <1>5 DEF OnlyOpenMoneyOwed
<1>7. open \in Int /\ openThen \in Int /\ NativeSum(row, Of(row, "usd")) \in Int
  <2>1. row \in Ledgers /\ row' \in Ledgers
    BY DEF LedgerInv, TypeOK, Ledgers
  <2>2. Open(row) \in SUBSET Live(row) /\ Open(row') \in SUBSET Live(row') /\ Of(row, "usd") \in SUBSET Live(row)
    BY DEF Open, Of
  <2> QED BY <2>1, <2>2, SumsAreNumbers
<1>8. Total(hand) \in Int /\ Total(LegacyResidues(row, managed)) \in Int
  <2>1. Residues(row) \in [Place -> Int]
    BY LedgerTyped, CyclesPart
  <2>2. LegacyResidues(row, managed) \in [Place -> Int]
    BY <2>1 DEF LegacyResidues, Residues
  <2>3. hand \in [Place -> Int] /\ Places \in 0..Places
    BY LedgerTyped, MoneyAssumption
  <2> QED BY <2>2, <2>3, SumGrows DEF Total
<1> HIDE DEF open, openThen
<1> QED BY <1>4, <1>6, <1>7, <1>8 DEF open, openThen

\* Only a reprice changes the rows and not which are live.
LEMMA RepriceIsPricing ==
  ASSUME LedgerInv, MoneyNext, IsReprice
  PROVE  \E p \in Place, k \in Rates : PlanApply(Day[p], k)
<1>1. row \in Ledgers /\ row' # row /\ Live(row') = Live(row)
  BY LedgerTyped DEF IsReprice
<1>2. ASSUME NEW p \in Place, NEW slip \in Slips, AddTransaction(p, slip) PROVE FALSE
  <2>1. Entry(slip, TRUE) # None
    BY SlipsBecomeRows, AbsenceAssumption
  <2>2. row[p] = None /\ row'[p] = Entry(slip, TRUE)
    BY <1>1, <1>2 DEF AddTransaction, Vacant, Reconcile, Ledgers
  <2> QED BY <1>1, <2>1, <2>2 DEF Live
<1>3. ASSUME NEW p \in Place, VoidTransaction(p) PROVE FALSE
  <2>1. row[p] # None /\ row'[p] = None
    BY <1>1, <1>3 DEF VoidTransaction, Reconcile, Ledgers
  <2> QED BY <1>1, <2>1 DEF Live
<1>4. ASSUME NEW m \in Movers, MoveCharge(m) PROVE FALSE
  <2> DEFINE p == moving[m].place
             rest == [row EXCEPT ![p] = None]
  <2>1. PICK parts, at : Moves(m, parts, at)
    BY <1>4, MoveMoves
  <2>2. /\ parts \in Parts(row[p]) /\ at \in [1..2 -> Place] /\ p \in Place /\ row[p] \in Entries
        /\ 2 \in DOMAIN parts => at[1] # at[2]
        /\ \A i \in DOMAIN parts : rest[at[i]] = None
        /\ row' = Placed(rest, parts, at)
    BY <2>1 DEF Moves
  <2>3. row[p].cur = "usd" => row[p].rate = UsdRate /\ row[p].usd = row[p].native
    BY <2>2, AbsenceAssumption DEF LedgerInv, DollarsWorth, WorthIn, Of, Live
  <2>4. /\ \A i \in DOMAIN parts : parts[i] # None
        /\ (DOMAIN parts = {1} /\ parts[1] = row[p]) \/ DOMAIN parts = {1, 2}
    BY <2>2, <2>3, PartsMakeUp, AbsenceAssumption
  <2>5. at[1] \in Place /\ at[2] \in Place /\ \A q \in Place : rest[q] = IF q = p THEN None ELSE row[q]
    BY <1>1, <2>2 DEF Ledgers
  <2>6. \A q \in Place : row'[q] = IF q = at[1] THEN parts[1]
                                   ELSE IF 2 \in DOMAIN parts /\ q = at[2] THEN parts[2] ELSE rest[q]
    BY <2>2 DEF Placed
  <2>7. \A q \in Place : row'[q] # None <=> row[q] # None
    BY <1>1 DEF Live
  <2>8. at[1] = p
    <3>1. rest[at[1]] = None /\ parts[1] # None
      BY <2>2, <2>4
    <3>2. row'[at[1]] = parts[1]
      BY <2>5, <2>6
    <3> QED BY <2>5, <2>7, <3>1, <3>2
  <2>9. 2 \notin DOMAIN parts
    <3> SUFFICES ASSUME 2 \in DOMAIN parts PROVE FALSE
      OBVIOUS
    <3>1. rest[at[2]] = None /\ parts[2] # None /\ at[2] # p
      BY <2>2, <2>4, <2>8
    <3>2. row'[at[2]] = parts[2]
      BY <2>5, <2>6, <2>8, <3>1
    <3> QED BY <2>5, <2>7, <3>1, <3>2
  <2>10. \A q \in Place : row'[q] = row[q]
    BY <2>4, <2>5, <2>6, <2>8, <2>9
  <2>11. row' = [q \in Place |-> row'[q]] /\ row = [q \in Place |-> row[q]]
    BY <1>1, <2>2 DEF Placed, Ledgers
  <2> QED BY <1>1, <2>10, <2>11, Zenon
<1>5. CASE \/ SetAuto \/ ApplyFxHistory \/ CloseCrossCurrencyResidue
           \/ \E p \in Place : CloseLegacyFxResidue(p) \/ VoidFxClose(p)
           \/ \E m \in Movers : MoveRefused(m) \/ \E p \in Place : ReadToMove(m, p)
  BY <1>1, <1>5 DEF SetAuto, ApplyFxHistory, CloseCrossCurrencyResidue, CloseLegacyFxResidue,
                    VoidFxClose, MoveRefused, ReadToMove, Reconcile
<1> QED BY <1>2, <1>3, <1>4, <1>5 DEF MoneyNext

\* A reprice moves what the client owes by the open charges alone, unless a difference
\* was waiting to be written or a new residue happens to equal a dollar row
\* (costing/fx-reprice.ts:249-256).
THEOREM RepricesOpenDebtOnly == MoneySpec => RepriceMovesOnlyOpenDebt
<1> DEFINE Said == (/\ IsReprice
                    /\ diff = Closing(row, managed, auto)
                    /\ \A z \in Zeros(row) :
                          UsdOffset(row', z, Residue(row', z)) => UsdOffset(row, z, Residue(row, z)))
                   => Balance(row', diff', hand') - Balance(row, diff, hand)
                        = UsdSum(row', Open(row')) - UsdSum(row, Open(row))
<1>1. LedgerInv /\ LedgerInv' /\ [MoneyNext]_vars => [Said]_vars
  <2> SUFFICES ASSUME LedgerInv, LedgerInv', MoneyNext, IsReprice,
                      diff = Closing(row, managed, auto),
                      \A z \in Zeros(row) :
                         UsdOffset(row', z, Residue(row', z)) => UsdOffset(row, z, Residue(row, z))
               PROVE  Balance(row', diff', hand') - Balance(row, diff, hand)
                        = UsdSum(row', Open(row')) - UsdSum(row, Open(row))
    OBVIOUS
  <2> QED BY RepriceIsPricing, PricingMovesOpenDebt
<1>2. MoneySpec => [][Said]_vars
  <2> HIDE DEF Said
  <2> QED BY <1>1, LedgerAgrees, PTL DEF MoneySpec
<1> QED BY <1>2 DEF RepriceMovesOnlyOpenDebt

-----------------------------------------------------------------------------
(* A move moves no money.                                                  *)

\* Two sums differ by what their numbers have come to differ.
LEMMA SumsDiffer ==
  ASSUME NEW f \in [Place -> Int], NEW h \in [Place -> Int], NEW d \in [0..Places -> Int],
         d[0] = 0, \A q \in Place : d[q] = d[q - 1] + (h[q] - f[q])
  PROVE  \A q \in 0..Places : SumTo(h)[q] = SumTo(f)[q] + d[q]
<1>1. Places \in Nat \ {0}
  BY MoneyAssumption
<1> DEFINE g == [q \in Place |-> h[q] - f[q]]
<1>2. g \in [Place -> Int] /\ \A q \in Place : h[q] = f[q] + g[q]
  OBVIOUS
<1>3. \A q \in Place : d[q] = d[q - 1] + g[q]
  OBVIOUS
<1> HIDE DEF g
<1>4. SumTo(g) = d
  BY <1>2, <1>3, SumIs
<1> QED BY <1>2, <1>4, SumAdds

\* A move leaves the sums over any rows it does not tear apart, a currency's or a day's,
\* and what they had come to at every other live row.
LEMMA MoveKeepsSums ==
  ASSUME LedgerInv, LedgerInv', NEW m \in Movers, NEW parts, NEW at, Moves(m, parts, at),
         NEW S \in SUBSET Live(row), NEW T \in SUBSET Live(row'),
         \A q \in Place : row'[q] = row[q] => (q \in T <=> q \in S),
         \A i \in DOMAIN parts : at[i] \in T <=> moving[m].place \in S
  PROVE  /\ NativeSum(row', T) = NativeSum(row, S)
         /\ UsdSum(row', T) = UsdSum(row, S)
         /\ \A q \in Live(row) \ {moving[m].place} :
               SumTo(Natives(row', T))[q] = SumTo(Natives(row, S))[q]
<1> DEFINE p == moving[m].place
           r == row[p]
           rest == [row EXCEPT ![p] = None]
           Of1(n) == IF p \in S THEN n ELSE 0
           Of2(n) == IF p \in S /\ 2 \in DOMAIN parts THEN n ELSE 0
<1>1. /\ parts \in Parts(r) /\ at \in [1..2 -> Place] /\ p \in Place /\ r \in Entries
      /\ 2 \in DOMAIN parts => at[1] # at[2]
      /\ \A i \in DOMAIN parts : rest[at[i]] = None /\ Beside(rest, p, at[i])
      /\ row' = Placed(rest, parts, at)
  BY DEF Moves
<1>2. row \in Ledgers /\ row' \in Ledgers
  BY DEF LedgerInv, TypeOK, Ledgers
<1>3. r.cur = "usd" => r.rate = UsdRate /\ r.usd = r.native
  BY <1>1, AbsenceAssumption DEF LedgerInv, DollarsWorth, WorthIn, Of, Live
<1> HIDE DEF r
<1>4. /\ \A i \in DOMAIN parts : parts[i] \in Entries /\ parts[i].kind = r.kind
      /\ \/ DOMAIN parts = {1} /\ parts[1] = r
         \/ /\ DOMAIN parts = {1, 2}
            /\ parts[1].native + parts[2].native = r.native
            /\ parts[1].usd + parts[2].usd = r.usd
  BY <1>1, <1>3, PartsMakeUp
<1>5. /\ at[1] \in Place /\ at[2] \in Place /\ 1 \in DOMAIN parts
      /\ \A q \in Place : rest[q] = IF q = p THEN None ELSE row[q]
      /\ \A q \in Place : row'[q] = IF q = at[1] THEN parts[1]
                                     ELSE IF 2 \in DOMAIN parts /\ q = at[2] THEN parts[2] ELSE rest[q]
  BY <1>1, <1>2, <1>4 DEF Placed, Ledgers
<1> DEFINE two == 2 \in DOMAIN parts
<1>6. /\ NativeOf(r) \in Int /\ SignedUsd(r) \in Int
      /\ NativeOf(parts[1]) \in Int /\ SignedUsd(parts[1]) \in Int
      /\ two => NativeOf(parts[2]) \in Int /\ SignedUsd(parts[2]) \in Int
      /\ ~two => NativeOf(r) = NativeOf(parts[1]) /\ SignedUsd(r) = SignedUsd(parts[1])
      /\ two => /\ NativeOf(r) = NativeOf(parts[1]) + NativeOf(parts[2])
                /\ SignedUsd(r) = SignedUsd(parts[1]) + SignedUsd(parts[2])
  <2>1. /\ r \in Entries /\ parts[1] \in Entries /\ parts[1].kind = r.kind
        /\ two => parts[2] \in Entries /\ parts[2].kind = r.kind
    BY <1>1, <1>4, <1>5
  <2>2. \A s \in Entries : /\ s.native \in Int /\ s.usd \in Int
                           /\ NativeOf(s) \in Int /\ SignedUsd(s) \in Int
                           /\ NativeOf(s) = (IF s.kind = "payment" THEN -s.native ELSE s.native)
                           /\ SignedUsd(s) = (IF s.kind = "payment" THEN -s.usd ELSE s.usd)
    BY RowsAreWorth DEF Entries
  <2>3. CASE ~two
    <3>1. parts[1] = r
      BY <1>4, <2>3
    <3> QED BY <2>1, <2>2, <2>3, <3>1
  <2>4. CASE two
    <3>1. /\ parts[1].native + parts[2].native = r.native
          /\ parts[1].usd + parts[2].usd = r.usd
      BY <1>4, <2>4
    <3>2. /\ NativeOf(r) = NativeOf(parts[1]) + NativeOf(parts[2])
          /\ SignedUsd(r) = SignedUsd(parts[1]) + SignedUsd(parts[2])
      <4>1. CASE r.kind = "payment"
        BY <2>1, <2>2, <2>4, <3>1, <4>1
      <4>2. CASE r.kind # "payment"
        BY <2>1, <2>2, <2>4, <3>1, <4>2
      <4> QED BY <4>1, <4>2
    <3> QED BY <2>1, <2>2, <2>4, <3>2
  <2> QED BY <2>3, <2>4
<1>7. ASSUME NEW q \in Place
      PROVE  /\ q = at[1] => row'[q] = parts[1] /\ (q \in T <=> p \in S)
             /\ two /\ q = at[2] => row'[q] = parts[2] /\ (q \in T <=> p \in S)
             /\ q # at[1] /\ ~(two /\ q = at[2]) /\ q = p => q \notin T
             /\ q # at[1] /\ ~(two /\ q = at[2]) /\ q # p => row'[q] = row[q] /\ (q \in T <=> q \in S)
             /\ q = at[1] \/ (two /\ q = at[2]) => q = p \/ q \notin S
  <2>1. q = at[1] => row'[q] = parts[1] /\ (q \in T <=> p \in S)
    BY <1>5
  <2>2. two /\ q = at[2] => row'[q] = parts[2] /\ (q \in T <=> p \in S)
    BY <1>1, <1>5
  <2>3. q # at[1] /\ ~(two /\ q = at[2]) /\ q = p => q \notin T
    BY <1>5 DEF Live
  <2>4. q # at[1] /\ ~(two /\ q = at[2]) /\ q # p => row'[q] = row[q] /\ (q \in T <=> q \in S)
    BY <1>5
  <2>5. q = at[1] \/ (two /\ q = at[2]) => q = p \/ q \notin S
    BY <1>1, <1>5 DEF Live
  <2> QED BY <2>1, <2>2, <2>3, <2>4, <2>5
<1>8. /\ Natives(row, S) \in [Place -> Int] /\ Natives(row', T) \in [Place -> Int]
      /\ Dollars(row, S) \in [Place -> Int] /\ Dollars(row', T) \in [Place -> Int]
  BY <1>2, SumsAreNumbers
<1> DEFINE v == Of1(NativeOf(r))
           w == Of1(NativeOf(parts[1]))
           x == Of2(NativeOf(parts[2]))
           c == Of1(SignedUsd(r))
           d == Of1(SignedUsd(parts[1]))
           e == Of2(SignedUsd(parts[2]))
<1>9. /\ v \in Int /\ w \in Int /\ x \in Int /\ v = w + x
      /\ c \in Int /\ d \in Int /\ e \in Int /\ c = d + e
      /\ ~two => x = 0 /\ e = 0
  BY <1>6
<1>10. ASSUME NEW q \in Place
       PROVE  /\ Natives(row', T)[q] = Natives(row, S)[q] + (IF q = p THEN -v ELSE 0)
                                        + (IF q = at[1] THEN w ELSE 0) + (IF q = at[2] THEN x ELSE 0)
              /\ Dollars(row', T)[q] = Dollars(row, S)[q] + (IF q = p THEN -c ELSE 0)
                                        + (IF q = at[1] THEN d ELSE 0) + (IF q = at[2] THEN e ELSE 0)
  <2>1. /\ Natives(row, S)[q] = (IF q \in S THEN NativeOf(row[q]) ELSE 0)
        /\ Natives(row', T)[q] = (IF q \in T THEN NativeOf(row'[q]) ELSE 0)
        /\ Dollars(row, S)[q] = (IF q \in S THEN SignedUsd(row[q]) ELSE 0)
        /\ Dollars(row', T)[q] = (IF q \in T THEN SignedUsd(row'[q]) ELSE 0)
    BY DEF Natives, Dollars
  <2>2. /\ Natives(row, S)[q] \in Int /\ Dollars(row, S)[q] \in Int
    BY <1>8
  <2>3. q = p => row[q] = r
    BY DEF r
  <2>4. q = at[1] \/ (two /\ q = at[2]) \/ q = p
          => /\ Natives(row, S)[q] = IF q = p THEN v ELSE 0
             /\ Dollars(row, S)[q] = IF q = p THEN c ELSE 0
    <3>1. CASE q = p
      BY <2>1, <2>3, <3>1
    <3>2. CASE q # p /\ (q = at[1] \/ (two /\ q = at[2]))
      <4>1. q \notin S
        BY <1>7, <3>2
      <4> QED BY <2>1, <3>2, <4>1
    <3> QED BY <3>1, <3>2
  <2>5. CASE q = at[1]
    <3>1. Natives(row', T)[q] = w /\ Dollars(row', T)[q] = d
      BY <1>7, <2>1, <2>5
    <3>2. q = at[2] => x = 0 /\ e = 0
      BY <1>1, <1>9, <2>5
    <3> HIDE DEF v, w, x, c, d, e
    <3> QED BY <1>9, <2>4, <2>5, <3>1, <3>2
  <2>6. CASE q # at[1] /\ two /\ q = at[2]
    <3>1. Natives(row', T)[q] = x /\ Dollars(row', T)[q] = e
      BY <1>7, <2>1, <2>6
    <3> HIDE DEF v, w, x, c, d, e
    <3> QED BY <1>9, <2>4, <2>6, <3>1
  <2>7. CASE q # at[1] /\ ~(two /\ q = at[2]) /\ q = p
    <3>1. Natives(row', T)[q] = 0 /\ Dollars(row', T)[q] = 0
      BY <1>7, <2>1, <2>7
    <3> HIDE DEF v, w, x, c, d, e
    <3> QED BY <1>9, <2>4, <2>7, <3>1
  <2>8. CASE q # at[1] /\ ~(two /\ q = at[2]) /\ q # p
    <3>1. Natives(row', T)[q] = Natives(row, S)[q] /\ Dollars(row', T)[q] = Dollars(row, S)[q]
      BY <1>7, <2>1, <2>8
    <3> HIDE DEF v, w, x, c, d, e
    <3> QED BY <1>9, <2>2, <2>8, <3>1
  <2> QED BY <2>5, <2>6, <2>7, <2>8
<1> DEFINE f == Natives(row, S)
           h == Natives(row', T)
           g == Dollars(row, S)
           k == Dollars(row', T)
           a == at[1]
           b == at[2]
<1> HIDE DEF v, w, x, c, d, e
<1>11. /\ Places \in Nat \ {0} /\ p \in Nat \ {0} /\ a \in Nat \ {0} /\ b \in Nat \ {0}
       /\ p <= Places /\ a <= Places /\ b <= Places
  BY <1>1, <1>5, MoneyAssumption DEF Place
<1> DEFINE Step(q, y, n) == IF q < y THEN 0 ELSE n
<1>12. ASSUME NEW y \in Nat \ {0}, NEW n \in Int, NEW q \in Place
       PROVE  /\ Step(q, y, n) = Step(q - 1, y, n) + (IF q = y THEN n ELSE 0)
              /\ Step(q - 1, y, n) \in Int /\ Step(q, y, n) \in Int /\ Step(0, y, n) = 0
  BY <1>11 DEF Place
<1> DEFINE v0 == -v
           c0 == -c
<1>13. /\ \A q \in Place : h[q] = f[q] + (IF q = p THEN v0 ELSE 0) + (IF q = a THEN w ELSE 0)
                                  + (IF q = b THEN x ELSE 0)
       /\ \A q \in Place : k[q] = g[q] + (IF q = p THEN c0 ELSE 0) + (IF q = a THEN d ELSE 0)
                                  + (IF q = b THEN e ELSE 0)
  BY <1>10
<1>14. f \in [Place -> Int] /\ h \in [Place -> Int] /\ g \in [Place -> Int] /\ k \in [Place -> Int]
  BY <1>8
<1>15. v0 \in Int /\ w \in Int /\ x \in Int /\ c0 \in Int /\ d \in Int /\ e \in Int
  BY <1>9
<1> HIDE DEF f, h, g, k, a, b, p, Step, v0, c0
<1>16. \A q \in 0..Places : SumTo(h)[q] = SumTo(f)[q] + (Step(q, p, v0) + Step(q, a, w) + Step(q, b, x))
  <2> DEFINE dif == [q \in 0..Places |-> Step(q, p, v0) + Step(q, a, w) + Step(q, b, x)]
  <2>1. dif[0] = 0 /\ dif \in [0..Places -> Int]
    <3>1. 0 \in 0..Places
      BY <1>11
    <3>2. /\ \A q \in 0..Places : Step(q, p, v0) \in Int /\ Step(q, a, w) \in Int /\ Step(q, b, x) \in Int
          /\ Step(0, p, v0) = 0 /\ Step(0, a, w) = 0 /\ Step(0, b, x) = 0
      BY <1>11, <1>15 DEF Step
    <3> QED BY <3>1, <3>2
  <2>2. ASSUME NEW q \in Place PROVE dif[q] = dif[q - 1] + (h[q] - f[q])
    <3>1. q \in 0..Places /\ q - 1 \in 0..Places /\ f[q] \in Int
      BY <1>11, <1>14 DEF Place
    <3>2. Step(q, p, v0) = Step(q - 1, p, v0) + (IF q = p THEN v0 ELSE 0) /\ Step(q - 1, p, v0) \in Int
      BY <1>11, <1>12, <1>15, ZenonT(60)
    <3>3. Step(q, a, w) = Step(q - 1, a, w) + (IF q = a THEN w ELSE 0) /\ Step(q - 1, a, w) \in Int
      BY <1>11, <1>12, <1>15, ZenonT(60)
    <3>4. Step(q, b, x) = Step(q - 1, b, x) + (IF q = b THEN x ELSE 0) /\ Step(q - 1, b, x) \in Int
      BY <1>11, <1>12, <1>15, ZenonT(60)
    <3>5. /\ dif[q] = Step(q, p, v0) + Step(q, a, w) + Step(q, b, x)
          /\ dif[q - 1] = Step(q - 1, p, v0) + Step(q - 1, a, w) + Step(q - 1, b, x)
      BY <3>1
    <3>6. h[q] = f[q] + (IF q = p THEN v0 ELSE 0) + (IF q = a THEN w ELSE 0) + (IF q = b THEN x ELSE 0)
      BY <1>13
    <3> HIDE DEF dif
    <3> QED BY <1>15, <3>1, <3>2, <3>3, <3>4, <3>5, <3>6
  <2> HIDE DEF dif
  <2>3. \A q \in 0..Places : SumTo(h)[q] = SumTo(f)[q] + dif[q]
    BY <1>14, <2>1, <2>2, SumsDiffer
  <2> QED BY <2>3 DEF dif
<1>17. \A q \in 0..Places : SumTo(k)[q] = SumTo(g)[q] + (Step(q, p, c0) + Step(q, a, d) + Step(q, b, e))
  <2> DEFINE dif == [q \in 0..Places |-> Step(q, p, c0) + Step(q, a, d) + Step(q, b, e)]
  <2>1. dif[0] = 0 /\ dif \in [0..Places -> Int]
    <3>1. 0 \in 0..Places
      BY <1>11
    <3>2. /\ \A q \in 0..Places : Step(q, p, c0) \in Int /\ Step(q, a, d) \in Int /\ Step(q, b, e) \in Int
          /\ Step(0, p, c0) = 0 /\ Step(0, a, d) = 0 /\ Step(0, b, e) = 0
      BY <1>11, <1>15 DEF Step
    <3> QED BY <3>1, <3>2
  <2>2. ASSUME NEW q \in Place PROVE dif[q] = dif[q - 1] + (k[q] - g[q])
    <3>1. q \in 0..Places /\ q - 1 \in 0..Places /\ g[q] \in Int
      BY <1>11, <1>14 DEF Place
    <3>2. Step(q, p, c0) = Step(q - 1, p, c0) + (IF q = p THEN c0 ELSE 0) /\ Step(q - 1, p, c0) \in Int
      BY <1>11, <1>12, <1>15, ZenonT(60)
    <3>3. Step(q, a, d) = Step(q - 1, a, d) + (IF q = a THEN d ELSE 0) /\ Step(q - 1, a, d) \in Int
      BY <1>11, <1>12, <1>15, ZenonT(60)
    <3>4. Step(q, b, e) = Step(q - 1, b, e) + (IF q = b THEN e ELSE 0) /\ Step(q - 1, b, e) \in Int
      BY <1>11, <1>12, <1>15, ZenonT(60)
    <3>5. /\ dif[q] = Step(q, p, c0) + Step(q, a, d) + Step(q, b, e)
          /\ dif[q - 1] = Step(q - 1, p, c0) + Step(q - 1, a, d) + Step(q - 1, b, e)
      BY <3>1
    <3>6. k[q] = g[q] + (IF q = p THEN c0 ELSE 0) + (IF q = a THEN d ELSE 0) + (IF q = b THEN e ELSE 0)
      BY <1>13
    <3> HIDE DEF dif
    <3> QED BY <1>15, <3>1, <3>2, <3>3, <3>4, <3>5, <3>6
  <2> HIDE DEF dif
  <2>3. \A q \in 0..Places : SumTo(k)[q] = SumTo(g)[q] + dif[q]
    BY <1>14, <2>1, <2>2, SumsDiffer
  <2> QED BY <2>3 DEF dif
<1>18. SumTo(f) \in [0..Places -> Int] /\ SumTo(g) \in [0..Places -> Int] /\ Places \in 0..Places
  BY <1>11, <1>14, SumGrows
<1>19. SumTo(h)[Places] = SumTo(f)[Places] /\ SumTo(k)[Places] = SumTo(g)[Places]
  <2>1. /\ SumTo(h)[Places] = SumTo(f)[Places] + (v0 + w + x)
        /\ SumTo(k)[Places] = SumTo(g)[Places] + (c0 + d + e)
    BY <1>11, <1>16, <1>17, <1>18 DEF Step
  <2>2. SumTo(f)[Places] \in Int /\ SumTo(g)[Places] \in Int
    BY <1>18
  <2> QED BY <1>9, <2>1, <2>2 DEF v0, c0
<1>20. ASSUME NEW q \in Live(row) \ {p}
       PROVE  SumTo(h)[q] = SumTo(f)[q]
  <2>1. q \in Place /\ row[q] # None /\ q # p /\ q \in 0..Places /\ q \in Nat
    BY <1>11 DEF Live, Place
  <2>2. rest[q] # None /\ q \in Live(rest)
    BY <1>5, <2>1 DEF Live, p
  <2>3. ASSUME NEW n \in Nat, rest[n] = None, Beside(rest, p, n)
        PROVE  q < p <=> q < n
    <3>1. q # n
      BY <2>2, <2>3
    <3>2. ~(p < q /\ q < n) /\ ~(n < q /\ q < p)
      BY <2>2, <2>3 DEF Beside
    <3> QED BY <1>11, <2>1, <3>1, <3>2
  <2>4. rest[a] = None /\ Beside(rest, p, a) /\ (two => rest[b] = None /\ Beside(rest, p, b))
    BY <1>1, <1>5 DEF a, b, p
  <2>5. (q < p <=> q < a) /\ (two => (q < p <=> q < b))
    BY <1>11, <2>3, <2>4
  <2>6. SumTo(f)[q] \in Int
    BY <1>18, <2>1
  <2>7. Step(q, p, v0) + Step(q, a, w) + Step(q, b, x) = 0
    BY <1>9, <2>5 DEF Step, v0
  <2> QED BY <1>16, <1>17, <2>1, <2>6, <2>7
<1> QED BY <1>19, <1>20 DEF f, h, g, k, p, NativeSum, UsdSum, Total

\* The parts of a charge stand where it stood: on its day, in its currency.
LEMMA PartsStandBeside ==
  ASSUME LedgerInv, LedgerInv', NEW m \in Movers, NEW parts, NEW at, Moves(m, parts, at)
  PROVE  /\ moving[m].place \in Live(row)
         /\ \A i \in DOMAIN parts :
               /\ at[i] \in Live(row') /\ row'[at[i]].cur = row[moving[m].place].cur
               /\ Day[at[i]] = Day[moving[m].place]
<1> DEFINE p == moving[m].place
           r == row[p]
           rest == [row EXCEPT ![p] = None]
<1>1. /\ parts \in Parts(r) /\ at \in [1..2 -> Place] /\ p \in Place /\ r \in Entries
      /\ 2 \in DOMAIN parts => at[1] # at[2]
      /\ \A i \in DOMAIN parts : rest[at[i]] = None /\ Beside(rest, p, at[i])
      /\ row' = Placed(rest, parts, at)
  BY DEF Moves
<1>2. p \in Live(row)
  BY <1>1, AbsenceAssumption DEF Live
<1>3. r.cur = "usd" => r.rate = UsdRate /\ r.usd = r.native
  BY <1>1, <1>2 DEF LedgerInv, DollarsWorth, WorthIn, Of
<1> HIDE DEF r
<1>4. /\ \A i \in DOMAIN parts : parts[i] \in Entries /\ parts[i].cur = r.cur
      /\ DOMAIN parts = {1} \/ DOMAIN parts = {1, 2}
  BY <1>1, <1>3, PartsMakeUp
<1>5. ASSUME NEW i \in DOMAIN parts
      PROVE  at[i] \in Place /\ row'[at[i]] = parts[i] /\ parts[i] # None
  <2>1. (i = 1 \/ i = 2) /\ at[i] \in Place
    BY <1>1, <1>4
  <2>2. parts[i] # None
    BY <1>4, AbsenceAssumption
  <2>3. row'[at[i]] = IF at[i] = at[1] THEN parts[1]
                      ELSE IF 2 \in DOMAIN parts /\ at[i] = at[2] THEN parts[2] ELSE rest[at[i]]
    BY <1>1, <2>1 DEF Placed
  <2>4. CASE i = 1
    BY <2>1, <2>2, <2>3, <2>4
  <2>5. CASE i = 2
    BY <1>1, <2>1, <2>2, <2>3, <2>5
  <2> QED BY <2>1, <2>4, <2>5
<1>6. \A i \in DOMAIN parts : Day[at[i]] = Day[p]
  BY <1>1 DEF Beside
<1> QED BY <1>2, <1>4, <1>5, <1>6 DEF Live, r

\* A press that is not refused moves no money.
LEMMA ChargeMovesNoMoney ==
  ASSUME LedgerInv, LedgerInv', NEW m \in Movers, MoveCharge(m)
  PROVE  /\ \A p \in Place, cur \in Currency :
               /\ NativeSum(row', OnDay(row', Day[p], cur)) = NativeSum(row, OnDay(row, Day[p], cur))
               /\ UsdSum(row', OnDay(row', Day[p], cur)) = UsdSum(row, OnDay(row, Day[p], cur))
         /\ \A p \in Of(row, "som") \ {moving[m].place} : Run(row')[p] = Run(row)[p]
<1> DEFINE z == moving[m].place
<1>1. PICK parts, at : Moves(m, parts, at)
  BY MoveMoves
<1>2. /\ z \in Live(row)
      /\ \A i \in DOMAIN parts :
            /\ at[i] \in Live(row') /\ row'[at[i]].cur = row[z].cur /\ Day[at[i]] = Day[z]
  BY <1>1, PartsStandBeside
<1>3. ASSUME NEW p \in Place, NEW cur \in Currency
      PROVE  /\ NativeSum(row', OnDay(row', Day[p], cur)) = NativeSum(row, OnDay(row, Day[p], cur))
             /\ UsdSum(row', OnDay(row', Day[p], cur)) = UsdSum(row, OnDay(row, Day[p], cur))
  <2> DEFINE S == OnDay(row, Day[p], cur)
             T == OnDay(row', Day[p], cur)
  <2>1. S \in SUBSET Live(row) /\ T \in SUBSET Live(row')
    BY DEF OnDay, Of
  <2>2. \A q \in Place : row'[q] = row[q] => (q \in T <=> q \in S)
    BY DEF OnDay, Of, Live
  <2>3. \A i \in DOMAIN parts : at[i] \in T <=> z \in S
    BY <1>2 DEF OnDay, Of
  <2> HIDE DEF S, T
  <2>4. NativeSum(row', T) = NativeSum(row, S) /\ UsdSum(row', T) = UsdSum(row, S)
    BY <1>1, <2>1, <2>2, <2>3, MoveKeepsSums
  <2> QED BY <2>4 DEF S, T
<1>4. ASSUME NEW p \in Of(row, "som") \ {z}
      PROVE  Run(row')[p] = Run(row)[p]
  <2> DEFINE S == Of(row, "som")
             T == Of(row', "som")
  <2>1. S \in SUBSET Live(row) /\ T \in SUBSET Live(row')
    BY DEF Of
  <2>2. \A q \in Place : row'[q] = row[q] => (q \in T <=> q \in S)
    BY DEF Of, Live
  <2>3. \A i \in DOMAIN parts : at[i] \in T <=> z \in S
    BY <1>2 DEF Of
  <2>4. p \in Live(row) \ {z}
    BY DEF Of
  <2> HIDE DEF S, T
  <2>5. SumTo(Natives(row', T))[p] = SumTo(Natives(row, S))[p]
    BY <1>1, <2>1, <2>2, <2>3, <2>4, MoveKeepsSums
  <2> QED BY <2>5 DEF S, T, Run
<1> QED BY <1>3, <1>4

\* What ends a press is the move itself, or its refusal, which writes no row.
LEMMA PressEnds ==
  ASSUME LedgerInv, MoneyNext, NEW m \in Movers, moving[m] # Idle, moving'[m] = Idle
  PROVE  MoveCharge(m) \/ row' = row
<1>1. moving \in [Movers -> [place : Place, row : Entries] \cup {Idle}]
  BY DEF LedgerInv, TypeOK
<1>2. ASSUME NEW p \in Place, NEW slip \in Slips, AddTransaction(p, slip) PROVE FALSE
  BY <1>2 DEF AddTransaction
<1>3. ASSUME NEW p \in Place, VoidTransaction(p) \/ CloseLegacyFxResidue(p) \/ VoidFxClose(p) PROVE FALSE
  BY <1>3 DEF VoidTransaction, CloseLegacyFxResidue, VoidFxClose
<1>4. ASSUME NEW n \in Movers, NEW p \in Place, ReadToMove(n, p) PROVE row' = row
  BY <1>4 DEF ReadToMove
<1>5. ASSUME NEW n \in Movers, MoveCharge(n) PROVE MoveCharge(m)
  <2>1. n = m
    BY <1>1, <1>5 DEF MoveCharge
  <2> QED BY <1>5, <2>1
<1>6. ASSUME NEW n \in Movers, MoveRefused(n) PROVE row' = row
  BY <1>6 DEF MoveRefused
<1>7. ASSUME NEW day \in {Day[p] : p \in Place}, NEW k \in Rates, PlanApply(day, k) PROVE FALSE
  BY <1>7 DEF PlanApply
<1>8. CASE SetAuto \/ ApplyFxHistory \/ CloseCrossCurrencyResidue
  BY <1>8 DEF SetAuto, ApplyFxHistory, CloseCrossCurrencyResidue
<1> QED BY <1>2, <1>3, <1>4, <1>5, <1>6, <1>7, <1>8 DEF MoneyNext

\* A charge that is moved, in one part or two, moves no money, whatever became of it
\* between the press that read it and the lock (finance/service.ts:382-386, 440-446).
THEOREM MovesMoveNoMoney == MoneySpec => MoveMovesNoMoney
<1> DEFINE Kept == \A m \in Movers : moving[m] # Idle /\ moving'[m] = Idle =>
                      /\ \A p \in Place, cur \in Currency :
                            LET on == OnDay(row, Day[p], cur) IN
                            /\ NativeSum(row, on)' = NativeSum(row, on)
                            /\ UsdSum(row, on)' = UsdSum(row, on)
                      /\ \A p \in Of(row, "som") \ {moving[m].place} : Run(row')[p] = Run(row)[p]
<1>1. LedgerInv /\ LedgerInv' /\ [MoneyNext]_vars => [Kept]_vars
  <2> SUFFICES ASSUME LedgerInv, LedgerInv', MoneyNext,
                      NEW m \in Movers, moving[m] # Idle, moving'[m] = Idle
               PROVE  /\ \A p \in Place, cur \in Currency :
                            /\ NativeSum(row', OnDay(row', Day[p], cur)) = NativeSum(row, OnDay(row, Day[p], cur))
                            /\ UsdSum(row', OnDay(row', Day[p], cur)) = UsdSum(row, OnDay(row, Day[p], cur))
                      /\ \A p \in Of(row, "som") \ {moving[m].place} : Run(row')[p] = Run(row)[p]
    OBVIOUS
  <2>1. CASE MoveCharge(m)
    BY <2>1, ChargeMovesNoMoney
  <2>2. CASE row' = row
    BY <2>2
  <2> QED BY <2>1, <2>2, PressEnds
<1>2. MoneySpec => [][Kept]_vars
  <2> HIDE DEF Kept
  <2> QED BY <1>1, LedgerAgrees, PTL DEF MoneySpec
<1> QED BY <1>2 DEF MoveMovesNoMoney
=============================================================================
