------------------------------ MODULE EventDrain ------------------------------
(***************************************************************************)
(* The fan-out of domain events.  A business transaction commits an event  *)
(* with its own rows; drains, kicked by every mutation and by a sweep each *)
(* minute, claim events, write each recipient an in-app and a Telegram     *)
(* notification and run the automation rules.  Drains overlap and die.     *)
(***************************************************************************)
EXTENDS Naturals, Sequences, SequencesExt, FiniteSets

CONSTANTS
  LastEvent,  \* bound: events are numbered 1..LastEvent, as their ids are
  People,     \* who may be told
  Drains,     \* runs of the events.process job
  BatchSize   \* the events a drain claims before it handles them

Events   == 1..LastEvent
Channels == {"in_app", "telegram"}

ASSUME DrainAssumption == LastEvent \in Nat /\ BatchSize \in Nat \ {0}

VARIABLES
  state,    \* the events table: absent, waiting (processed_at null) or processed
  audience, \* whom buildRecipients named for the event when it was asked
  drain,    \* each drain's place in processEventBatch
  told,     \* the notifications table: rows per event, person and channel (to 2)
  ruled,    \* runs of the automation rules per event (to 2)
  lost      \* history: events whose drain died before it was done with them

vars == <<state, audience, drain, told, ruled, lost>>

Idle == [step |-> "idle", todo |-> <<>>, left |-> {}, full |-> FALSE]

TypeOK ==
  /\ state \in [Events -> {"absent", "waiting", "processed"}]
  /\ audience \in [Events -> SUBSET People]
  /\ drain \in [Drains -> [step : {"idle", "claiming", "asking", "telling"}, todo : Seq(Events),
                          left : SUBSET (People \X Channels), full : BOOLEAN]]
  /\ \A w \in Drains : Len(drain[w].todo) <= BatchSize
  /\ told \in [Events \X People \X Channels -> 0..2]
  /\ ruled \in [Events -> 0..2]
  /\ lost \subseteq Events

Init ==
  /\ state = [e \in Events |-> "absent"]
  /\ audience = [e \in Events |-> {}]
  /\ drain = [w \in Drains |-> Idle]
  /\ told = [x \in Events \X People \X Channels |-> 0]
  /\ ruled = [e \in Events |-> 0]
  /\ lost = {}

-----------------------------------------------------------------------------
OnceMore(n) == IF n = 2 THEN 2 ELSE n + 1

\* A business transaction commits its event; ids are taken in order, and the
\* transactions that hold them commit in any.
Emit(e) ==
  /\ state[e] = "absent"
  /\ state' = [state EXCEPT ![e] = "waiting"]
  /\ UNCHANGED <<audience, drain, told, ruled, lost>>

\* A kick or the minute's sweep starts a drain.
Begin(w) ==
  /\ drain[w].step = "idle"
  /\ drain' = [drain EXCEPT ![w].step = "claiming"]
  /\ UNCHANGED <<state, audience, told, ruled, lost>>

\* A mistake: the claim reads the event and does not mark it.
ClaimUnmarked(w) ==
  /\ drain[w].step = "claiming"
  /\ Len(drain[w].todo) < BatchSize
  /\ \E e \in Events :
       /\ state[e] = "waiting"
       /\ e \notin Range(drain[w].todo)
       /\ drain' = [drain EXCEPT ![w].todo = Append(@, e)]
  /\ UNCHANGED <<state, audience, told, ruled, lost>>

\* Another: one event past the batch.
ClaimPastBatch(w) ==
  /\ drain[w].step = "claiming"
  /\ Len(drain[w].todo) <= BatchSize
  /\ \E e \in Events :
       /\ state[e] = "waiting"
       /\ \A f \in Events : state[f] = "waiting" => e <= f
       /\ state' = [state EXCEPT ![e] = "processed"]
       /\ drain' = [drain EXCEPT ![w].todo = Append(@, e)]
  /\ UNCHANGED <<audience, told, ruled, lost>>

\* The oldest waiting event is claimed, and marked processed, in one statement.
ClaimNext(w) ==
  /\ drain[w].step = "claiming"
  /\ Len(drain[w].todo) < BatchSize
  /\ \E e \in Events :
       /\ state[e] = "waiting"
       /\ \A f \in Events : state[f] = "waiting" => e <= f
       /\ state' = [state EXCEPT ![e] = "processed"]
       /\ drain' = [drain EXCEPT ![w].todo = Append(@, e)]
  /\ UNCHANGED <<audience, told, ruled, lost>>

\* A mistake: a batch that is not full waits for more.
StopClaimingFull(w) ==
  /\ drain[w].step = "claiming"
  /\ Len(drain[w].todo) = BatchSize
  /\ drain' = [drain EXCEPT ![w].step = "asking", ![w].full = TRUE]
  /\ UNCHANGED <<state, audience, told, ruled, lost>>

\* Nothing more to claim, or the batch is full: the claimed events are handled.
StopClaiming(w) ==
  LET full == Len(drain[w].todo) = BatchSize
  IN /\ drain[w].step = "claiming"
     /\ full \/ \A e \in Events : state[e] # "waiting"
     /\ drain' = [drain EXCEPT ![w].step = "asking", ![w].full = full]
     /\ UNCHANGED <<state, audience, told, ruled, lost>>

\* A mistake: an event nobody is told of is skipped, and its rules with it.
AskSkipping(w) ==
  /\ drain[w].step = "asking"
  /\ drain[w].todo # <<>>
  /\ \E who \in SUBSET People :
       /\ audience' = [audience EXCEPT ![Head(drain[w].todo)] = who]
       /\ drain' = IF who = {}
                     THEN [drain EXCEPT ![w].todo = Tail(@)]
                     ELSE [drain EXCEPT ![w].step = "telling", ![w].left = who \X Channels]
  /\ UNCHANGED <<state, told, ruled, lost>>

\* The recipients of the next claimed event are looked up.
Ask(w) ==
  /\ drain[w].step = "asking"
  /\ drain[w].todo # <<>>
  /\ \E who \in SUBSET People :
       /\ audience' = [audience EXCEPT ![Head(drain[w].todo)] = who]
       /\ drain' = [drain EXCEPT ![w].step = "telling", ![w].left = who \X Channels]
  /\ UNCHANGED <<state, told, ruled, lost>>

\* The batch is handled; a full one is followed by another.
EndBatch(w) ==
  /\ drain[w].step = "asking"
  /\ drain[w].todo = <<>>
  /\ drain' = [drain EXCEPT ![w] =
                 [Idle EXCEPT !.step = IF drain[w].full THEN "claiming" ELSE "idle"]]
  /\ UNCHANGED <<state, audience, told, ruled, lost>>

\* One person's row is written, the in-app one before the Telegram one.
Tell(w, p, ch) ==
  LET e == Head(drain[w].todo)
  IN /\ drain[w].step = "telling"
     /\ <<p, ch>> \in drain[w].left
     /\ ch = "telegram" => <<p, "in_app">> \notin drain[w].left
     /\ told' = [told EXCEPT ![<<e, p, ch>>] = OnceMore(@)]
     /\ drain' = [drain EXCEPT ![w].left = @ \ {<<p, ch>>}]
     /\ UNCHANGED <<state, audience, ruled, lost>>

\* Everybody is told: the rules run, and what they throw is only logged.
RunRules(w) ==
  /\ drain[w].step = "telling"
  /\ drain[w].left = {}
  /\ ruled' = [ruled EXCEPT ![Head(drain[w].todo)] = OnceMore(@)]
  /\ drain' = [drain EXCEPT ![w].step = "asking", ![w].todo = Tail(@)]
  /\ UNCHANGED <<state, audience, told, lost>>

\* The process dies, or a lookup or an insert throws: the run is over.  A retry
\* of the job is a new run.
Die(w) ==
  /\ drain[w].step # "idle"
  /\ lost' = lost \cup Range(drain[w].todo)
  /\ drain' = [drain EXCEPT ![w] = Idle]
  /\ UNCHANGED <<state, audience, told, ruled>>

Work(w) ==
  \/ Begin(w) \/ ClaimNext(w) \/ StopClaiming(w) \/ Ask(w) \/ EndBatch(w) \/ RunRules(w)
  \/ \E p \in People, ch \in Channels : Tell(w, p, ch)

Next ==
  \/ \E e \in Events : Emit(e)
  \/ \E w \in Drains : Work(w) \/ Die(w)

\* The sweep starts a run every minute, and a run that does not die goes on.
Spec == Init /\ [][Next]_vars /\ \A w \in Drains : WF_vars(Work(w))

-----------------------------------------------------------------------------
\* However drains overlap and die, nobody is told of an event twice and no rule
\* fires twice for it.
NobodyToldTwice ==
  /\ \A x \in Events \X People \X Channels : told[x] <= 1
  /\ \A e \in Events : ruled[e] <= 1

\* An event marked processed is with a drain, or everybody it concerns was told
\* on both channels and its rules ran, or the drain that had it died.
ProcessedMeansHandled ==
  \A e \in Events : state[e] = "processed" =>
    \/ e \in lost
    \/ \E w \in Drains : e \in Range(drain[w].todo)
    \/ ruled[e] = 1 /\ \A p \in audience[e], ch \in Channels : told[<<e, p, ch>>] = 1

\* Once drains stop dying, every event is handled in the end, or was with one that
\* had died.
EveryEventLeaves ==
  <>[][\A w \in Drains : ~Die(w)]_vars =>
  \A e \in Events : state[e] = "waiting" ~> ruled[e] = 1 \/ e \in lost

\* notifications/service.ts:868: a crash mid-event loses that event's
\* notifications, a single missed message: no death loses two events.
OneLostPerCrash == [][Cardinality(lost' \ lost) <= 1]_vars
=============================================================================
