----------------------------- MODULE ScanOutbox -----------------------------
(***************************************************************************)
(* The phone's offline outbox: scans are queued in IndexedDB, marked on    *)
(* the screen at once and flushed to /api/scan/sync in slices.  A scan     *)
(* starts a flush unless a scan's flush is already running; the 15-second  *)
(* tick starts one whatever is running.  The session, the person's rights  *)
(* at each truck, the server and the network come and go.                  *)
(*                                                                         *)
(* What the server does with an admitted scan is Truck's business; here it *)
(* accepts or refuses it.                                                  *)
(***************************************************************************)
EXTENDS Naturals, Sequences, SequencesExt

CONSTANTS
  KeyOrder,    \* the scans that may be made, in the order of their uuids
  Malformed,   \* scans the request schema refuses
  LoadDoors,   \* what rights are about: loading one truck,
  UnloadDoors, \* or unloading one
  DoorOf,      \* the door of each scan
  MaxPerSync   \* MAX_PER_SYNC

Scans   == Range(KeyOrder)
Doors   == LoadDoors \cup UnloadDoors
Flushes == {"scan", "tick"}

ASSUME OutboxAssumption ==
  /\ KeyOrder \in Seq(Scans) /\ IsInjective(KeyOrder)
  /\ Malformed \subseteq Scans
  /\ DoorOf \in [Scans -> Doors]
  /\ MaxPerSync \in Nat \ {0}

VARIABLES
  scanned,   \* scans made so far
  outbox,    \* the scans in IndexedDB
  wanted,    \* a scan asked for a flush (flushSoon)
  flush,     \* the flushes in progress
  link,      \* the phone is online, online but signed_out, or offline
  right,     \* the person's standing at each door
  judged     \* scans the server has decided on

phoneVars  == <<scanned, outbox, wanted, flush>>
serverVars == <<link, right, judged>>
vars       == <<phoneVars, serverVars>>

-----------------------------------------------------------------------------
(* A flush: the slices still to send, what the screen will take its marks   *)
(* back from, and the answer to the slice in hand.                          *)

\* A person may act at a door, may not, or lost it when the truck was rerouted.
Standing == {"mine", "foreign", "lost"}
RightOK(r) == r \in [Doors -> Standing] /\ \A d \in LoadDoors : r[d] # "lost"

Links == {"online", "signed_out", "offline"}

NoReply == [code |-> 0, acks |-> {}, refused |-> {}]
Idle    == [step |-> "idle", todo |-> <<>>, takeBack |-> {}, reply |-> NoReply]

Replies == [code: {0, 200, 400, 401, 403}, acks: SUBSET Scans, refused: SUBSET Scans]
Slices  == {q \in Seq(Scans) : Len(q) \in 1..MaxPerSync}
TypeOK ==
  /\ outbox \subseteq scanned /\ scanned \subseteq Scans
  /\ wanted \in BOOLEAN /\ link \in Links
  /\ RightOK(right)
  /\ judged \subseteq Scans
  /\ flush \in [Flushes -> [step: {"idle", "asking", "answered", "done"},
                           todo: Seq(Slices), takeBack: SUBSET Scans, reply: Replies]]

Start(queued) ==
  /\ scanned = queued /\ outbox = queued /\ wanted = FALSE
  /\ flush = [f \in Flushes |-> Idle]
  /\ link = "online"
  /\ right \in [Doors -> Standing] /\ RightOK(right)
  /\ judged = {}

Init == Start({})

-----------------------------------------------------------------------------
(* The phone.                                                               *)

\* IndexedDB hands the queue out in the order of its keys.
InKeyOrder(q) ==
  \A i, j \in DOMAIN KeyOrder, m, n \in DOMAIN q :
    i < j /\ q[m] = KeyOrder[i] /\ q[n] = KeyOrder[j] => m < n

\* A mistake: the whole queue in one body.
CutNever(q) == IF q = <<>> THEN <<>> ELSE <<q>>

\* Queue q cut into slices of at most MaxPerSync.
Cut(q) == [i \in 1..((Len(q) + MaxPerSync - 1) \div MaxPerSync) |->
             SubSeq(q, (i - 1) * MaxPerSync + 1,
                       IF i * MaxPerSync < Len(q) THEN i * MaxPerSync ELSE Len(q))]

\* A flush goes on with slices todo; with none left it is done.
GoOn(todo, takeBack) ==
  [step |-> IF todo = <<>> THEN "done" ELSE "asking",
   todo |-> todo, takeBack |-> takeBack, reply |-> NoReply]

\* The answer to a flush's slice is on its way back.
Answered(flight, code, acks, refused) ==
  [step |-> "answered", todo |-> flight.todo, takeBack |-> flight.takeBack,
   reply |-> [code |-> code, acks |-> acks, refused |-> refused]]

Scan(s) ==
  /\ s \notin scanned
  /\ scanned' = scanned \cup {s}
  /\ outbox' = outbox \cup {s}
  /\ wanted' = TRUE
  /\ UNCHANGED <<flush, serverVars>>

\* flushSoon runs when no scan's flush does; the tick does not ask.
Begin(f) ==
  /\ flush[f].step = "idle"
  /\ f = "scan" => wanted
  /\ wanted' = (wanted /\ f # "scan")
  /\ \E q \in SetToSeqs(outbox) :
       InKeyOrder(q) /\ flush' = [flush EXCEPT ![f] = GoOn(Cut(q), {})]
  /\ UNCHANGED <<scanned, outbox, serverVars>>

\* A mistake: a refused body is thrown away whole.
SettledWhole(slice, reply) == IF reply.code = 400 THEN Range(slice) ELSE reply.acks

\* A mistake: a slice of other people's doors stops the flush.
ToSendWhileMine(slice, rest, reply) ==
  LET half == (Len(slice) + 1) \div 2
  IN IF reply.code \in {401, 403} THEN <<>>
     ELSE IF reply.code = 400 /\ Len(slice) > 1
       THEN <<SubSeq(slice, 1, half), SubSeq(slice, half + 1, Len(slice))>> \o rest
     ELSE rest

\* The scans an answer settles: the ones it acks, or the one scan that alone
\* makes up a body the schema refuses.
Settled(slice, reply) ==
  IF reply.code = 400 /\ Len(slice) = 1 THEN Range(slice) ELSE reply.acks

\* What is sent next: a body refused for one of its scans is halved, a slice of
\* other people's doors is passed over, and only a lost session stops the flush.
ToSend(slice, rest, reply) ==
  LET half == (Len(slice) + 1) \div 2
  IN IF reply.code = 401 THEN <<>>
     ELSE IF reply.code = 400 /\ Len(slice) > 1
       THEN <<SubSeq(slice, 1, half), SubSeq(slice, half + 1, Len(slice))>> \o rest
     ELSE rest

\* The answer to a slice comes back.
Receive(f) ==
  LET slice   == Head(flush[f].todo)
      reply   == flush[f].reply
      settled == Settled(slice, reply)
      refused == reply.refused \cup (settled \ reply.acks)
  IN /\ flush[f].step = "answered"
     /\ outbox' = outbox \ settled
     /\ flush' = [flush EXCEPT ![f] =
          GoOn(ToSend(slice, Tail(@.todo), reply), @.takeBack \cup refused)]
     /\ UNCHANGED <<scanned, wanted, serverVars>>

\* The screen hears what the flush brought back.
Finish(f) ==
  /\ flush[f].step = "done"
  /\ flush' = [flush EXCEPT ![f] = Idle]
  /\ UNCHANGED <<scanned, outbox, wanted, serverVars>>

\* The network is gone: the flush throws, and what it had gathered goes with it.
Drop(f) ==
  /\ link = "offline"
  /\ flush[f].step = "answered"
  /\ flush' = [flush EXCEPT ![f] = Idle]
  /\ UNCHANGED <<scanned, outbox, wanted, serverVars>>

-----------------------------------------------------------------------------
(* The server.                                                              *)

AtDoor(slice, standing) == {s \in Range(slice) : right[DoorOf[s]] = standing}

\* The server judges the person, then the body, then each scan by its door.
Serve(f) ==
  LET slice == Head(flush[f].todo)
      ours  == AtDoor(slice, "mine")
      gone  == AtDoor(slice, "lost")
      Reply(code, acks, refused) ==
        flush' = [flush EXCEPT ![f] = Answered(@, code, acks, refused)]
  IN /\ flush[f].step = "asking"
     /\ \/ /\ link = "signed_out"
           /\ Reply(401, {}, {})
           /\ UNCHANGED judged
        \/ /\ link = "online" /\ Range(slice) \cap Malformed # {}
           /\ Reply(400, {}, {})
           /\ UNCHANGED judged
        \/ /\ link = "online" /\ Range(slice) \cap Malformed = {}
           /\ ours \cup gone = {}
           /\ Reply(403, {}, {})
           /\ UNCHANGED judged
        \/ /\ link = "online" /\ Range(slice) \cap Malformed = {}
           /\ ours \cup gone # {}
           /\ judged' = judged \cup ours \cup gone
           /\ \E no \in SUBSET ours : Reply(200, ours \cup gone, no \cup gone)
     /\ UNCHANGED <<scanned, outbox, wanted, link, right>>

\* The server fails, or the request never gets there: some of the scans may have
\* been decided on, and the flush throws.
Fail(f) ==
  LET slice == Head(flush[f].todo)
  IN /\ link = "offline"
     /\ flush[f].step = "asking"
     /\ flush' = [flush EXCEPT ![f] = Idle]
     /\ \/ UNCHANGED judged
        \/ /\ Range(slice) \cap Malformed = {}
           /\ \E D \in SUBSET AtDoor(slice, "mine") : judged' = judged \cup D
     /\ UNCHANGED <<scanned, outbox, wanted, link, right>>

\* The network, the server or the session comes or goes.
SetLink(l) ==
  /\ link' = l
  /\ UNCHANGED <<phoneVars, right, judged>>

\* A right is given or taken, a truck is rerouted.
SetRight(d, standing) ==
  /\ right' = [right EXCEPT ![d] = standing]
  /\ RightOK(right')
  /\ UNCHANGED <<phoneVars, link, judged>>

Next ==
  \/ \E s \in Scans : Scan(s)
  \/ \E f \in Flushes : Begin(f) \/ Receive(f) \/ Finish(f) \/ Drop(f) \/ Serve(f) \/ Fail(f)
  \/ \E l \in Links : SetLink(l)
  \/ \E d \in Doors, standing \in Standing : SetRight(d, standing)

\* The tick keeps coming while the screen is visible, and its flush runs on.
Fairness ==
  /\ WF_vars(Begin("tick")) /\ WF_vars(Finish("tick"))
  /\ WF_vars(Serve("tick") \/ Fail("tick")) /\ WF_vars(Receive("tick") \/ Drop("tick"))

Spec == Init /\ [][Next]_vars /\ Fairness

-----------------------------------------------------------------------------
(* Properties.                                                              *)

\* No scan is dropped: it leaves the outbox only once the server has decided on
\* it, and only a scan the schema refuses leaves without that, never a neighbour
\* that shared its slice.
NothingLost == scanned \subseteq outbox \cup judged \cup Malformed

\* No scan stays for ever behind others: once the phone stays online and signed
\* in and the person keeps the right at its door, or loses it through a reroute, a scan leaves the
\* outbox, whatever malformed or withheld scans are queued with it.
EveryScanLeaves ==
  \A s \in Scans :
    <>[](link = "online" /\ right[DoorOf[s]] # "foreign") => (s \in outbox ~> s \notin outbox)
=============================================================================
