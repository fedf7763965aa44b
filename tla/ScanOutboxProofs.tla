-------------------------- MODULE ScanOutboxProofs --------------------------
(***************************************************************************)
(* No scan is lost between the phone and the server, whatever the slices,  *)
(* the answers and the overlap of flushes: proved for every number of      *)
(* scans, doors and slices.                                                *)
(***************************************************************************)
EXTENDS ScanOutbox, SequenceTheorems, FiniteSetTheorems, TLAPS

\* The record of one flush.
Flight == [step: {"idle", "asking", "answered", "done"},
           todo: Seq(Slices), takeBack: SUBSET Scans, reply: Replies]

\* A flush that waits for the server or for its answer has a slice in hand.
InHand == \A f \in Flushes : flush[f].step \in {"asking", "answered"} => flush[f].todo # <<>>

\* Whatever an answer acks was decided on.
AcksDecided == \A f \in Flushes : flush[f].reply.acks \subseteq judged

\* A body is only refused for a malformed scan in it.
RefusedForCause ==
  \A f \in Flushes : flush[f].step = "answered" /\ flush[f].reply.code = 400 =>
    Range(Head(flush[f].todo)) \cap Malformed # {}

\* The inductive invariant.
OutboxInv == TypeOK /\ InHand /\ AcksDecided /\ RefusedForCause /\ NothingLost

-----------------------------------------------------------------------------
(* Slices.                                                                  *)

\* Finitely many scans can be made.
LEMMA ScansFinite == IsFiniteSet(Scans)
<1>1. Len(KeyOrder) \in Nat /\ DOMAIN KeyOrder = 1..Len(KeyOrder)
  BY OutboxAssumption
<1>2. IsFiniteSet(1..Len(KeyOrder))
  BY <1>1, FS_Interval
<1>3. KeyOrder \in Surjection(1..Len(KeyOrder), Scans)
  BY <1>1, OutboxAssumption DEF Surjection, Scans, Range
<1> QED BY <1>2, <1>3, FS_Surjection

\* The queue a flush reads is a sequence of scans.
LEMMA QueueIsSeq ==
  ASSUME NEW S \in SUBSET Scans, NEW q \in SetToSeqs(S)
  PROVE  q \in Seq(Scans)
<1>1. Cardinality(S) \in Nat
  BY ScansFinite, FS_Subset, FS_CardinalityType
<1>2. q \in [1..Cardinality(S) -> S]
  BY DEF SetToSeqs
<1>3. q \in [1..Cardinality(S) -> Scans]
  BY <1>2
<1> QED BY <1>1, <1>3

\* Rounding a quotient up overshoots by less than the divisor.
LEMMA CeilingBound ==
  ASSUME NEW L \in Nat, NEW i \in 1..((L + MaxPerSync - 1) \div MaxPerSync)
  PROVE  (i - 1) * MaxPerSync < L
<1> DEFINE n == (L + MaxPerSync - 1) \div MaxPerSync
<1>1. MaxPerSync \in Nat /\ MaxPerSync > 0
  BY OutboxAssumption
<1>2. n \in Nat /\ n * MaxPerSync <= L + MaxPerSync - 1
  BY <1>1
<1>3. i \in Nat /\ i <= n
  BY <1>2
<1> HIDE DEF n
<1>4. i * MaxPerSync <= n * MaxPerSync
  BY <1>1, <1>2, <1>3
<1>5. (i - 1) * MaxPerSync = i * MaxPerSync - MaxPerSync
  BY <1>1, <1>3
<1>6. i * MaxPerSync \in Nat /\ n * MaxPerSync \in Nat
  BY <1>1, <1>2, <1>3
<1> QED BY <1>1, <1>2, <1>4, <1>5, <1>6

\* A queue is cut into slices that are never empty and never too long.
LEMMA CutSlices ==
  ASSUME NEW q \in Seq(Scans)
  PROVE  Cut(q) \in Seq(Slices)
<1> DEFINE n == (Len(q) + MaxPerSync - 1) \div MaxPerSync
<1>1. MaxPerSync \in Nat /\ MaxPerSync > 0 /\ Len(q) \in Nat
  BY OutboxAssumption
<1>2. n \in Nat
  BY <1>1
<1>3. ASSUME NEW i \in 1..n PROVE Cut(q)[i] \in Slices
  <2> DEFINE lo == (i - 1) * MaxPerSync + 1
             hi == IF i * MaxPerSync < Len(q) THEN i * MaxPerSync ELSE Len(q)
  <2>1. (i - 1) * MaxPerSync < Len(q)
    BY <1>1, CeilingBound
  <2>2. (i - 1) * MaxPerSync \in Nat /\ i * MaxPerSync = (i - 1) * MaxPerSync + MaxPerSync
    BY <1>1, <1>2
  <2>3. Cut(q)[i] = SubSeq(q, lo, hi)
    BY DEF Cut
  <2> HIDE DEF n
  <2>4. lo \in 1..Len(q) /\ hi \in lo..Len(q) /\ hi - lo + 1 \in 1..MaxPerSync
    BY <1>1, <2>1, <2>2
  <2> HIDE DEF lo, hi
  <2>5. \A k \in lo..hi : q[k] \in Scans
    BY <1>1, <2>4
  <2>6. SubSeq(q, lo, hi) \in Seq(Scans) /\ Len(SubSeq(q, lo, hi)) = hi - lo + 1
    BY <1>1, <2>4, <2>5, SubSeqProperties
  <2> QED BY <2>3, <2>4, <2>6 DEF Slices
<1>4. Cut(q) = [i \in 1..n |-> Cut(q)[i]]
  BY DEF Cut
<1> HIDE DEF n
<1>5. Cut(q) \in [1..n -> Slices]
  BY <1>3, <1>4
<1> QED BY <1>2, <1>5

\* What is sent after an answer is slices again: a refused body is halved.
LEMMA ToSendSlices ==
  ASSUME NEW slice \in Slices, NEW rest \in Seq(Slices), NEW reply
  PROVE  ToSend(slice, rest, reply) \in Seq(Slices)
<1> DEFINE half == (Len(slice) + 1) \div 2
           halves == <<SubSeq(slice, 1, half), SubSeq(slice, half + 1, Len(slice))>>
<1>1. slice \in Seq(Scans) /\ Len(slice) \in 1..MaxPerSync /\ MaxPerSync \in Nat
  BY OutboxAssumption DEF Slices
<1>2. CASE Len(slice) > 1
  <2>1. half \in 1..(Len(slice) - 1)
    BY <1>1, <1>2
  <2> HIDE DEF half
  <2>2. SubSeq(slice, 1, half) \in Seq(Scans) /\ Len(SubSeq(slice, 1, half)) = half
    BY <1>1, <2>1, SubSeqProperties
  <2>3. /\ SubSeq(slice, half + 1, Len(slice)) \in Seq(Scans)
        /\ Len(SubSeq(slice, half + 1, Len(slice))) = Len(slice) - half
    <3>1. \A k \in (half + 1)..Len(slice) : slice[k] \in Scans
      BY <1>1, <2>1
    <3> QED BY <1>1, <2>1, <3>1, SubSeqProperties
  <2>4. SubSeq(slice, 1, half) \in Slices /\ SubSeq(slice, half + 1, Len(slice)) \in Slices
    BY <1>1, <2>1, <2>2, <2>3 DEF Slices
  <2>5. halves \in Seq(Slices)
    BY <2>4
  <2> HIDE DEF halves
  <2>6. halves \o rest \in Seq(Slices)
    BY <2>5
  <2> QED BY <2>6 DEF ToSend, half, halves
<1>3. CASE ~(Len(slice) > 1)
  BY <1>3 DEF ToSend
<1> QED BY <1>2, <1>3

\* A flush that goes on is a flush.
LEMMA GoOnTyped ==
  ASSUME NEW todo \in Seq(Slices), NEW takeBack \in SUBSET Scans
  PROVE  /\ GoOn(todo, takeBack) \in Flight
         /\ GoOn(todo, takeBack).step # "answered"
         /\ GoOn(todo, takeBack).step = "asking" => GoOn(todo, takeBack).todo # <<>>
         /\ GoOn(todo, takeBack).reply.acks = {}
  BY DEF GoOn, NoReply, Flight, Replies

-----------------------------------------------------------------------------
(* Steps.                                                                   *)

\* One flush record replaced by another: what it owes is what the new record owes.
LEMMA FlushReplaced ==
  ASSUME OutboxInv, NEW f \in Flushes, NEW d \in Flight,
         flush' = [flush EXCEPT ![f] = d],
         d.step \in {"asking", "answered"} => d.todo # <<>>,
         d.reply.acks \subseteq judged',
         d.step = "answered" /\ d.reply.code = 400 => Range(Head(d.todo)) \cap Malformed # {},
         judged \subseteq judged', judged' \subseteq Scans,
         outbox' \subseteq outbox, outbox \ outbox' \subseteq judged \cup Malformed,
         wanted' \in BOOLEAN, UNCHANGED <<scanned, link, right>>
  PROVE  OutboxInv'
<1>1. flush \in [Flushes -> Flight]
  BY DEF OutboxInv, TypeOK, Flight
<1>2. flush' \in [Flushes -> Flight] /\ flush'[f] = d /\ \A g \in Flushes \ {f} : flush'[g] = flush[g]
  BY <1>1
<1>3. TypeOK'
  <2>1. outbox' \subseteq scanned' /\ scanned' \subseteq Scans /\ link' \in Links /\ RightOK(right)'
    BY DEF OutboxInv, TypeOK, RightOK
  <2> QED BY <1>2, <2>1 DEF TypeOK, Flight
<1>4. InHand'
  BY <1>2 DEF OutboxInv, InHand
<1>5. AcksDecided'
  BY <1>2 DEF OutboxInv, AcksDecided
<1>6. RefusedForCause'
  BY <1>2 DEF OutboxInv, RefusedForCause
<1>7. NothingLost'
  BY DEF OutboxInv, NothingLost
<1> QED BY <1>3, <1>4, <1>5, <1>6, <1>7 DEF OutboxInv

\* Nothing of the flushes is touched.
LEMMA FlushesUntouched ==
  ASSUME OutboxInv, UNCHANGED <<flush, judged>>,
         outbox' \subseteq scanned', scanned' \subseteq Scans,
         scanned' \ scanned \subseteq outbox', outbox \subseteq outbox',
         wanted' \in BOOLEAN, link' \in Links, RightOK(right)'
  PROVE  OutboxInv'
<1>1. TypeOK'
  BY DEF OutboxInv, TypeOK
<1>2. InHand' /\ AcksDecided' /\ RefusedForCause'
  BY DEF OutboxInv, InHand, AcksDecided, RefusedForCause
<1>3. NothingLost'
  BY DEF OutboxInv, NothingLost
<1> QED BY <1>1, <1>2, <1>3 DEF OutboxInv

\* A flush at rest owes nothing.
LEMMA IdleTyped ==
  /\ Idle \in Flight /\ Idle.step = "idle" /\ Idle.reply.acks = {}
  BY DEF Idle, NoReply, Flight, Replies

\* A flush starts on whatever is queued.
LEMMA BeginKeeps ==
  ASSUME OutboxInv, NEW f \in Flushes, Begin(f)
  PROVE  OutboxInv'
<1>1. PICK q \in SetToSeqs(outbox) : flush' = [flush EXCEPT ![f] = GoOn(Cut(q), {})]
  BY DEF Begin
<1>2. outbox \in SUBSET Scans /\ wanted \in BOOLEAN /\ judged \subseteq Scans
  BY DEF OutboxInv, TypeOK
<1>3. Cut(q) \in Seq(Slices)
  BY <1>2, QueueIsSeq, CutSlices
<1> DEFINE d == GoOn(Cut(q), {})
<1>4. /\ d \in Flight /\ d.step # "answered"
      /\ d.step = "asking" => d.todo # <<>>
      /\ d.reply.acks = {}
  BY <1>3, GoOnTyped
<1>5. /\ wanted' \in BOOLEAN /\ UNCHANGED <<scanned, outbox, link, right, judged>>
      /\ flush' = [flush EXCEPT ![f] = d]
  BY <1>1, <1>2 DEF Begin, serverVars
<1> HIDE DEF d
<1> QED BY <1>2, <1>4, <1>5, FlushReplaced

\* What an answer settles was decided on, or is the malformed scan that alone
\* made up its body.
LEMMA SettledJustly ==
  ASSUME OutboxInv, NEW f \in Flushes, flush[f].step = "answered"
  PROVE  /\ flush[f].todo \in Seq(Slices) /\ flush[f].todo # <<>>
         /\ Settled(Head(flush[f].todo), flush[f].reply) \subseteq judged \cup Malformed
         /\ Settled(Head(flush[f].todo), flush[f].reply) \subseteq Scans
<1> DEFINE slice == Head(flush[f].todo)
<1>1. flush[f] \in Flight
  BY DEF OutboxInv, TypeOK, Flight
<1>2. flush[f].todo \in Seq(Slices) /\ flush[f].todo # <<>>
  BY <1>1 DEF OutboxInv, InHand, Flight
<1>3. slice \in Slices
  BY <1>2
<1>4. flush[f].reply.acks \subseteq judged /\ judged \subseteq Scans
  BY DEF OutboxInv, AcksDecided, TypeOK
<1>5. flush[f].reply.code = 400 => Range(slice) \cap Malformed # {}
  BY DEF OutboxInv, RefusedForCause
<1> HIDE DEF slice
<1>6. slice \in Seq(Scans) /\ Len(slice) \in Nat
  BY <1>3 DEF Slices
<1>7. Len(slice) = 1 => Range(slice) = {slice[1]} /\ slice[1] \in Scans
  BY <1>6 DEF Range
<1>8. Settled(slice, flush[f].reply) \subseteq judged \cup Malformed
  BY <1>4, <1>5, <1>7 DEF Settled
<1>9. Settled(slice, flush[f].reply) \subseteq Scans
  BY <1>4, <1>7 DEF Settled
<1> QED BY <1>2, <1>8, <1>9 DEF slice

\* An answer comes back: what it settles leaves the outbox.
LEMMA ReceiveKeeps ==
  ASSUME OutboxInv, NEW f \in Flushes, Receive(f)
  PROVE  OutboxInv'
<1> DEFINE slice   == Head(flush[f].todo)
           reply   == flush[f].reply
           settled == Settled(slice, reply)
           todo    == ToSend(slice, Tail(flush[f].todo), reply)
           back    == flush[f].takeBack \cup (reply.refused \cup (settled \ reply.acks))
           d       == GoOn(todo, back)
<1>1. flush[f].step = "answered"
  BY DEF Receive
<1>2. /\ flush[f].todo \in Seq(Slices) /\ flush[f].todo # <<>>
      /\ settled \subseteq judged \cup Malformed /\ settled \subseteq Scans
  BY <1>1, SettledJustly
<1>3. flush[f] \in Flight
  BY DEF OutboxInv, TypeOK, Flight
<1>4. todo \in Seq(Slices)
  <2>1. slice \in Slices /\ Tail(flush[f].todo) \in Seq(Slices)
    BY <1>2
  <2> QED BY <2>1, ToSendSlices
<1>5. back \in SUBSET Scans
  BY <1>2, <1>3 DEF Flight, Replies
<1>6. /\ d \in Flight /\ d.step # "answered"
      /\ d.step = "asking" => d.todo # <<>>
      /\ d.reply.acks = {}
  BY <1>4, <1>5, GoOnTyped
<1>7. /\ flush' = [flush EXCEPT ![f] = d] /\ outbox' = outbox \ settled
      /\ UNCHANGED <<scanned, wanted, link, right, judged>>
  BY DEF Receive, serverVars
<1>8. judged \subseteq Scans /\ wanted \in BOOLEAN
  BY DEF OutboxInv, TypeOK
<1> HIDE DEF d, settled
<1> QED BY <1>2, <1>6, <1>7, <1>8, FlushReplaced

\* A flush ends: the screen has heard it, or it threw.
LEMMA EndKeeps ==
  ASSUME OutboxInv, NEW f \in Flushes, flush' = [flush EXCEPT ![f] = Idle],
         judged \subseteq judged', judged' \subseteq Scans,
         UNCHANGED <<scanned, outbox, wanted, link, right>>
  PROVE  OutboxInv'
<1>1. wanted \in BOOLEAN
  BY DEF OutboxInv, TypeOK
<1> QED BY <1>1, IdleTyped, FlushReplaced

\* What stands at a door of a slice is in the slice.
LEMMA AtDoorInSlice ==
  ASSUME NEW slice \in Slices, NEW standing
  PROVE  AtDoor(slice, standing) \subseteq Scans
<1>1. Range(slice) \subseteq Scans
  BY DEF Slices, Range
<1> QED BY <1>1 DEF AtDoor

\* The server's answer to f.
Replied(f, code, acks, refused) ==
  flush' = [flush EXCEPT ![f] = Answered(@, code, acks, refused)]

\* An answer decides on what it acks, and refuses a body for a malformed scan only.
LEMMA AnswerKeeps ==
  ASSUME OutboxInv, NEW f \in Flushes, flush[f].step = "asking",
         NEW code \in {200, 400, 401, 403}, NEW acks \in SUBSET Scans, NEW refused \in SUBSET Scans,
         Replied(f, code, acks, refused),
         judged' = judged \cup acks,
         code = 400 => Range(Head(flush[f].todo)) \cap Malformed # {},
         UNCHANGED <<scanned, outbox, wanted, link, right>>
  PROVE  OutboxInv'
<1> DEFINE d == Answered(flush[f], code, acks, refused)
<1>1. /\ flush[f] \in Flight /\ flush[f].todo # <<>>
      /\ judged \subseteq Scans /\ wanted \in BOOLEAN
  BY DEF OutboxInv, TypeOK, Flight, InHand
<1>2. /\ d \in Flight
      /\ d.step = "answered" /\ d.todo = flush[f].todo
      /\ d.reply.acks = acks /\ d.reply.code = code
  BY <1>1 DEF Answered, Flight, Replies
<1>3. flush' = [flush EXCEPT ![f] = d]
  BY DEF Replied
<1>4. judged \subseteq judged' /\ judged' \subseteq Scans
  BY <1>1
<1>5. d.step = "answered" /\ d.reply.code = 400 => Range(Head(d.todo)) \cap Malformed # {}
  BY <1>2
<1>6. d.reply.acks \subseteq judged' /\ (d.step \in {"asking", "answered"} => d.todo # <<>>)
  BY <1>1, <1>2
<1>7. wanted' \in BOOLEAN /\ outbox' \subseteq outbox /\ outbox \ outbox' \subseteq judged \cup Malformed
  BY <1>1
<1> HIDE DEF d
<1> QED BY <1>2, <1>3, <1>4, <1>5, <1>6, <1>7, FlushReplaced

\* The server answers a slice.
LEMMA ServeKeeps ==
  ASSUME OutboxInv, NEW f \in Flushes, Serve(f)
  PROVE  OutboxInv'
<1> DEFINE slice == Head(flush[f].todo)
           ours  == AtDoor(slice, "mine")
           gone  == AtDoor(slice, "lost")
<1>1. flush[f].step = "asking" /\ UNCHANGED <<scanned, outbox, wanted, link, right>>
  BY DEF Serve
<1>2. ours \subseteq Scans /\ gone \subseteq Scans
  <2>1. flush[f].todo \in Seq(Slices) /\ flush[f].todo # <<>>
    BY <1>1 DEF OutboxInv, TypeOK, InHand
  <2>2. slice \in Slices
    BY <2>1
  <2> QED BY <2>2, AtDoorInSlice
<1>3. CASE UNCHANGED judged /\ Replied(f, 401, {}, {})
  <2>1. judged' = judged \cup {}
    BY <1>3
  <2> QED BY <1>1, <1>3, <2>1, AnswerKeeps
<1>6. CASE UNCHANGED judged /\ Replied(f, 403, {}, {})
  <2>1. judged' = judged \cup {}
    BY <1>6
  <2> QED BY <1>1, <1>6, <2>1, AnswerKeeps
<1>4. CASE Replied(f, 400, {}, {}) /\ UNCHANGED judged /\ Range(slice) \cap Malformed # {}
  <2>1. judged' = judged \cup {}
    BY <1>4
  <2> QED BY <1>1, <1>4, <2>1, AnswerKeeps
<1>5. CASE /\ judged' = judged \cup ours \cup gone
           /\ \E no \in SUBSET ours : Replied(f, 200, ours \cup gone, no \cup gone)
  <2> PICK no \in SUBSET ours : Replied(f, 200, ours \cup gone, no \cup gone)
    BY <1>5
  <2>1. /\ judged' = judged \cup (ours \cup gone)
        /\ ours \cup gone \in SUBSET Scans /\ no \cup gone \in SUBSET Scans
    BY <1>2, <1>5
  <2> HIDE DEF slice, ours, gone
  <2> QED BY <1>1, <2>1, AnswerKeeps
<1> QED BY <1>3, <1>4, <1>5, <1>6 DEF Serve, Replied

\* The server fails half-way: some scans may have been decided on, none is lost.
LEMMA FailKeeps ==
  ASSUME OutboxInv, NEW f \in Flushes, Fail(f)
  PROVE  OutboxInv'
<1>1. flush[f].todo \in Seq(Slices) /\ flush[f].todo # <<>>
  BY DEF OutboxInv, TypeOK, InHand, Fail
<1>2. AtDoor(Head(flush[f].todo), "mine") \subseteq Scans
  BY <1>1, AtDoorInSlice
<1>3. judged \subseteq judged' /\ judged' \subseteq Scans
  BY <1>2 DEF Fail, OutboxInv, TypeOK
<1> QED BY <1>3, EndKeeps DEF Fail

\* Every step keeps the invariant.
LEMMA OutboxStep ==
  ASSUME OutboxInv, [Next]_vars
  PROVE  OutboxInv'
<1>1. CASE \E s \in Scans : Scan(s)
  <2>1. /\ UNCHANGED <<flush, link, right, judged>> /\ wanted' = TRUE
        /\ \E s \in Scans : scanned' = scanned \cup {s} /\ outbox' = outbox \cup {s}
    BY <1>1 DEF Scan, serverVars
  <2> QED BY <2>1, FlushesUntouched DEF OutboxInv, TypeOK, RightOK
<1>2. CASE \E l \in Links : SetLink(l)
  BY <1>2, FlushesUntouched DEF SetLink, phoneVars, OutboxInv, TypeOK, RightOK
<1>3. CASE \E d \in Doors, standing \in Standing : SetRight(d, standing)
  <2>1. RightOK(right)' /\ UNCHANGED <<phoneVars, link, judged>>
    BY <1>3 DEF SetRight, RightOK
  <2> QED BY <2>1, FlushesUntouched DEF phoneVars, OutboxInv, TypeOK
<1>4. CASE UNCHANGED vars
  BY <1>4, FlushesUntouched DEF vars, phoneVars, serverVars, OutboxInv, TypeOK, RightOK
<1>5. CASE \E f \in Flushes : Finish(f) \/ Drop(f)
  <2>1. judged' = judged /\ judged \subseteq Scans
    BY <1>5 DEF Finish, Drop, serverVars, OutboxInv, TypeOK
  <2> QED BY <1>5, <2>1, EndKeeps DEF Finish, Drop, serverVars
<1> QED BY <1>1, <1>2, <1>3, <1>4, <1>5, BeginKeeps, ReceiveKeeps, ServeKeeps, FailKeeps DEF Next

\* At the start every flush is at rest, whatever the phone holds already.
LEMMA OutboxStart ==
  ASSUME NEW Q \in SUBSET Scans, Start(Q)
  PROVE  OutboxInv
<1>1. /\ scanned = Q /\ outbox = Q /\ wanted = FALSE /\ link = "online" /\ judged = {}
      /\ flush = [f \in Flushes |-> Idle] /\ RightOK(right)
  BY DEF Start
<1>2. TypeOK
  BY <1>1, IdleTyped DEF TypeOK, Flight, Links
<1> QED BY <1>1, <1>2, IdleTyped DEF OutboxInv, InHand, AcksDecided, RefusedForCause, NothingLost

-----------------------------------------------------------------------------
(* Theorems.                                                                *)

\* The outbox, the server's decisions and the slices under way always fit together.
THEOREM OutboxKeepsFaith == Spec => []OutboxInv
<1>1. Init => OutboxInv
  BY OutboxStart DEF Init
<1>2. OutboxInv /\ [Next]_vars => OutboxInv'
  BY OutboxStep
<1> QED BY <1>1, <1>2, PTL DEF Spec

\* Slices are never empty nor longer than the server takes, and everything else is
\* well typed.
THEOREM OutboxTyped == Spec => []TypeOK
<1>1. OutboxInv => TypeOK
  BY DEF OutboxInv
<1> QED BY <1>1, OutboxKeepsFaith, PTL

\* A scan leaves the outbox only once the server has decided on it, or alone in a
\* body the schema refuses: no lost reply, halved body or second flush drops one.
THEOREM NoScanLost == Spec => []NothingLost
<1>1. OutboxInv => NothingLost
  BY DEF OutboxInv
<1> QED BY <1>1, OutboxKeepsFaith, PTL
=============================================================================
