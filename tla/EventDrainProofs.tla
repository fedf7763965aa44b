--------------------------- MODULE EventDrainProofs ---------------------------
(***************************************************************************)
(* However many drains overlap and die, for any events, people and batch:  *)
(* nobody is told twice, and a processed event is in hand, handled or lost *)
(* with the drain that had it.                                             *)
(*                                                                         *)
(* A claim marks the event and takes it in one statement, so a processed   *)
(* event stands in at most one drain's batch, once.  What was written for  *)
(* an event that waits in a batch is nothing yet; what was written for the *)
(* one in hand is what its drain has crossed off its list.                 *)
(***************************************************************************)
EXTENDS EventDrain, TLAPS

\* The events a drain has claimed and not finished.
Claimed(w) == Range(drain[w].todo)

\* The event a drain is telling of.
InHand(w, e) == drain[w].step = "telling" /\ e = Head(drain[w].todo)

Untouched(e) ==
  /\ ruled[e] = 0
  /\ \A p \in People, ch \in Channels : told[<<e, p, ch>>] = 0

\* A claimed event is processed, held once, by one drain.
ClaimedOnce ==
  /\ \A w \in Drains : \A e \in Claimed(w) : state[e] = "processed"
  /\ \A w \in Drains : IsInjective(drain[w].todo)
  /\ \A v, w \in Drains : v # w => Claimed(v) \cap Claimed(w) = {}

\* Nothing is written for an event that no drain has come to.
WaitingUntouched ==
  /\ \A e \in Events : state[e] # "processed" => Untouched(e)
  /\ \A w \in Drains : \A e \in Claimed(w) : ~InHand(w, e) => Untouched(e)

\* A drain at work on an event has it at the head of its batch; one that is idle holds none.
AtWork ==
  \A w \in Drains :
    /\ drain[w].step = "telling" => drain[w].todo # <<>>
    /\ drain[w].step = "idle" => drain[w].todo = <<>>

\* Of the event in hand, the rows written are those no longer on the drain's list.
InHandAccounted ==
  \A w \in Drains : drain[w].step = "telling" =>
    LET e == Head(drain[w].todo)
    IN /\ ruled[e] = 0
       /\ drain[w].left \subseteq audience[e] \X Channels
       /\ \A p \in People, ch \in Channels :
            told[<<e, p, ch>>] =
              IF p \in audience[e] /\ <<p, ch>> \notin drain[w].left THEN 1 ELSE 0

DrainInv ==
  /\ TypeOK
  /\ ClaimedOnce
  /\ WaitingUntouched
  /\ AtWork
  /\ InHandAccounted
  /\ NobodyToldTwice
  /\ ProcessedMeansHandled

-----------------------------------------------------------------------------
(* Batches. *)

\* Taking the head off a batch leaves the rest of it, and the head is not among it.
LEMMA HeadAndTail ==
  ASSUME NEW S, NEW s \in Seq(S), s # <<>>, IsInjective(s)
  PROVE  /\ Head(s) \in S /\ Tail(s) \in Seq(S) /\ Len(Tail(s)) <= Len(s)
         /\ Range(s) = {Head(s)} \cup Range(Tail(s))
         /\ IsInjective(Tail(s)) /\ Head(s) \notin Range(Tail(s))
<1>1. /\ Len(s) \in Nat \ {0} /\ DOMAIN s = 1..Len(s)
      /\ Head(s) = s[1] /\ \A i \in 1..Len(s) : s[i] \in S
  OBVIOUS
<1>2. /\ Tail(s) \in Seq(S) /\ Len(Tail(s)) = Len(s) - 1
      /\ \A i \in 1..(Len(s) - 1) : Tail(s)[i] = s[i + 1]
  OBVIOUS
<1>3. DOMAIN Tail(s) = 1..(Len(s) - 1)
  BY <1>1, <1>2
<1>4. Range(s) = {Head(s)} \cup Range(Tail(s))
  <2>1. ASSUME NEW i \in 1..Len(s) PROVE s[i] \in {Head(s)} \cup Range(Tail(s))
    <3>1. CASE i = 1
      BY <1>1, <3>1
    <3>2. CASE i # 1
      <4>1. i - 1 \in DOMAIN Tail(s)
        BY <1>1, <1>3, <3>2
      <4>2. Tail(s)[i - 1] = s[i]
        BY <1>1, <1>2, <1>3, <4>1
      <4> QED BY <4>1, <4>2 DEF Range
    <3> QED BY <3>1, <3>2
  <2>2. Range(Tail(s)) \subseteq Range(s)
    BY <1>1, <1>2, <1>3 DEF Range
  <2> QED BY <1>1, <2>1, <2>2 DEF Range
<1>5. IsInjective(Tail(s))
  BY <1>1, <1>2, <1>3 DEF IsInjective
<1>6. Head(s) \notin Range(Tail(s))
  BY <1>1, <1>2, <1>3 DEF IsInjective, Range
<1> QED BY <1>1, <1>2, <1>4, <1>5, <1>6

\* A batch grows by the one event claimed, and by no event twice.
LEMMA AppendOne ==
  ASSUME NEW S, NEW s \in Seq(S), NEW e \in S
  PROVE  /\ Append(s, e) \in Seq(S) /\ Len(Append(s, e)) = Len(s) + 1
         /\ Range(Append(s, e)) = Range(s) \cup {e}
         /\ s # <<>> => Head(Append(s, e)) = Head(s)
         /\ IsInjective(s) /\ e \notin Range(s) => IsInjective(Append(s, e))
<1>1. /\ Len(s) \in Nat /\ DOMAIN s = 1..Len(s)
      /\ Append(s, e) \in Seq(S) /\ Len(Append(s, e)) = Len(s) + 1
      /\ \A i \in 1..Len(s) : Append(s, e)[i] = s[i]
      /\ Append(s, e)[Len(s) + 1] = e
  OBVIOUS
<1>2. DOMAIN Append(s, e) = 1..(Len(s) + 1)
  BY <1>1
<1>3. Range(Append(s, e)) = Range(s) \cup {e}
  BY <1>1, <1>2 DEF Range
<1>4. IsInjective(s) /\ e \notin Range(s) => IsInjective(Append(s, e))
  BY <1>1, <1>2 DEF Range, IsInjective
<1>5. s # <<>> => Head(Append(s, e)) = Head(s)
  BY <1>1, Len(s) > 0 <=> s # <<>>
<1> QED BY <1>1, <1>3, <1>4, <1>5

\* An empty batch holds no event.
LEMMA EmptyBatch == Range(<<>>) = {} /\ IsInjective(<<>>) /\ <<>> \in Seq(Events) /\ Len(<<>>) = 0
  BY DEF Range, IsInjective

\* What a drain has claimed are events.
LEMMA ClaimedAreEvents ==
  ASSUME TypeOK, NEW w \in Drains
  PROVE  Claimed(w) \subseteq Events
<1>1. drain[w].todo \in Seq(Events)
  BY DEF TypeOK
<1> QED BY <1>1 DEF Claimed, Range

-----------------------------------------------------------------------------
(* Types. *)

Place == [step : {"idle", "claiming", "asking", "telling"}, todo : Seq(Events),
          left : SUBSET (People \X Channels), full : BOOLEAN]

\* A drain moved to a well-formed place leaves every drain at one.
LEMMA MoveType ==
  ASSUME TypeOK, NEW w \in Drains, NEW d \in Place, Len(d.todo) <= BatchSize,
         drain' = [drain EXCEPT ![w] = d]
  PROVE  drain' \in [Drains -> Place] /\ \A v \in Drains : Len(drain'[v].todo) <= BatchSize
  BY DEF TypeOK, Place

\* A row of notifications or a run of the rules is counted to two.
LEMMA OnceMoreType == \A n \in 0..2 : OnceMore(n) \in 0..2
  BY DEF OnceMore

\* Drains, events and notifications keep their shape, and no batch outgrows its size.
LEMMA TypeStep ==
  ASSUME TypeOK, AtWork, Next
  PROVE  TypeOK'
<1>0. BatchSize \in Nat
  BY DrainAssumption
<1>1. ASSUME NEW e \in Events, Emit(e) PROVE TypeOK'
  BY <1>1 DEF Emit, TypeOK
<1>2. ASSUME NEW w \in Drains PROVE drain[w] \in Place /\ Len(drain[w].todo) <= BatchSize
  BY DEF TypeOK, Place
<1>3. ASSUME NEW w \in Drains, Begin(w) PROVE TypeOK'
  <2>1. [drain[w] EXCEPT !.step = "claiming"] \in Place
    BY <1>2 DEF Place
  <2> QED BY <1>2, <1>3, <2>1, MoveType DEF Begin, TypeOK, Place
<1>4. ASSUME NEW w \in Drains, ClaimNext(w) PROVE TypeOK'
  <2>1. PICK e \in Events :
          /\ state' = [state EXCEPT ![e] = "processed"]
          /\ drain' = [drain EXCEPT ![w].todo = Append(@, e)]
    BY <1>4 DEF ClaimNext
  <2> DEFINE d == [drain[w] EXCEPT !.todo = Append(@, e)]
  <2>2. drain[w].todo \in Seq(Events)
    BY <1>2 DEF Place
  <2>3. d \in Place /\ Len(d.todo) = Len(drain[w].todo) + 1
    BY <1>2, <2>2, AppendOne DEF Place
  <2>4. Len(d.todo) <= BatchSize
    BY <1>0, <1>4, <2>2, <2>3 DEF ClaimNext
  <2>5. drain' = [drain EXCEPT ![w] = d]
    BY <2>1 DEF TypeOK
  <2> HIDE DEF d
  <2>6. drain' \in [Drains -> Place] /\ \A v \in Drains : Len(drain'[v].todo) <= BatchSize
    BY <2>3, <2>4, <2>5, MoveType
  <2> QED BY <1>4, <2>1, <2>6 DEF ClaimNext, TypeOK, Place
<1>5. ASSUME NEW w \in Drains, StopClaiming(w) PROVE TypeOK'
  <2> DEFINE d == [drain[w] EXCEPT !.step = "asking", !.full = (Len(drain[w].todo) = BatchSize)]
  <2>1. d \in Place /\ d.todo = drain[w].todo
    BY <1>2 DEF Place
  <2>2. drain' = [drain EXCEPT ![w] = d]
    BY <1>5 DEF StopClaiming, TypeOK
  <2> QED BY <1>2, <1>5, <2>1, <2>2, MoveType DEF StopClaiming, TypeOK, Place
<1>6. ASSUME NEW w \in Drains, Ask(w) PROVE TypeOK'
  <2>1. PICK who \in SUBSET People :
          /\ audience' = [audience EXCEPT ![Head(drain[w].todo)] = who]
          /\ drain' = [drain EXCEPT ![w].step = "telling", ![w].left = who \X Channels]
    BY <1>6 DEF Ask
  <2> DEFINE d == [drain[w] EXCEPT !.step = "telling", !.left = who \X Channels]
  <2>2. who \X Channels \in SUBSET (People \X Channels)
    OBVIOUS
  <2>3. d \in Place /\ d.todo = drain[w].todo
    BY <1>2, <2>2 DEF Place
  <2>4. drain' = [drain EXCEPT ![w] = d]
    BY <2>1 DEF TypeOK
  <2> HIDE DEF d
  <2>5. drain' \in [Drains -> Place] /\ \A v \in Drains : Len(drain'[v].todo) <= BatchSize
    BY <1>2, <2>3, <2>4, MoveType
  <2>6. audience' \in [Events -> SUBSET People]
    BY <2>1 DEF TypeOK
  <2> QED BY <1>6, <2>5, <2>6 DEF Ask, TypeOK, Place
<1>7. ASSUME NEW w \in Drains, EndBatch(w) PROVE TypeOK'
  <2> DEFINE d == [Idle EXCEPT !.step = IF drain[w].full THEN "claiming" ELSE "idle"]
  <2>1. d \in Place /\ d.todo = <<>>
    BY EmptyBatch DEF Place, Idle
  <2>2. drain' = [drain EXCEPT ![w] = d]
    BY <1>7 DEF EndBatch, TypeOK
  <2>3. Len(d.todo) <= BatchSize
    BY <1>0, <2>1, EmptyBatch
  <2> HIDE DEF d
  <2> QED BY <1>7, <2>1, <2>2, <2>3, MoveType DEF EndBatch, TypeOK, Place
<1>8. ASSUME NEW w \in Drains, RunRules(w) PROVE TypeOK'
  <2> DEFINE d == [drain[w] EXCEPT !.step = "asking", !.todo = Tail(@)]
  <2>1. drain[w].todo # <<>> /\ drain[w].todo \in Seq(Events)
    BY <1>2, <1>8 DEF RunRules, AtWork, Place
  <2>2. /\ Tail(drain[w].todo) \in Seq(Events)
        /\ Len(Tail(drain[w].todo)) = Len(drain[w].todo) - 1
        /\ Len(drain[w].todo) \in Nat
    BY <2>1
  <2>3. d \in Place /\ d.todo = Tail(drain[w].todo)
    BY <1>2, <2>2 DEF Place
  <2>4. drain' = [drain EXCEPT ![w] = d]
    BY <1>8 DEF RunRules, TypeOK
  <2> HIDE DEF d
  <2>5. Len(d.todo) <= BatchSize
    BY <1>0, <1>2, <2>2, <2>3
  <2>6. drain' \in [Drains -> Place] /\ \A v \in Drains : Len(drain'[v].todo) <= BatchSize
    BY <2>3, <2>4, <2>5, MoveType
  <2>7. ruled' \in [Events -> 0..2]
    BY <1>8, OnceMoreType DEF RunRules, TypeOK
  <2> QED BY <1>8, <2>6, <2>7 DEF RunRules, TypeOK, Place
<1>9. ASSUME NEW w \in Drains, Die(w) PROVE TypeOK'
  <2>1. Range(drain[w].todo) \subseteq Events
    BY ClaimedAreEvents DEF Claimed
  <2>2. Idle \in Place /\ Len(Idle.todo) <= BatchSize
    BY <1>0, EmptyBatch DEF Place, Idle
  <2> QED BY <1>9, <2>1, <2>2, MoveType DEF Die, TypeOK, Place
<1>10. ASSUME NEW w \in Drains, NEW p \in People, NEW ch \in Channels, Tell(w, p, ch)
       PROVE TypeOK'
  <2> DEFINE d == [drain[w] EXCEPT !.left = @ \ {<<p, ch>>}]
  <2>1. d \in Place /\ d.todo = drain[w].todo
    BY <1>2 DEF Place
  <2>2. drain' = [drain EXCEPT ![w] = d]
    BY <1>10 DEF Tell, TypeOK
  <2> HIDE DEF d
  <2>3. drain' \in [Drains -> Place] /\ \A v \in Drains : Len(drain'[v].todo) <= BatchSize
    BY <1>2, <2>1, <2>2, MoveType
  <2>4. told' \in [Events \X People \X Channels -> 0..2]
    BY <1>10, OnceMoreType DEF Tell, TypeOK
  <2> QED BY <1>10, <2>3, <2>4 DEF Tell, TypeOK, Place
<1> QED BY <1>1, <1>3, <1>4, <1>5, <1>6, <1>7, <1>8, <1>9, <1>10 DEF Next, Work

-----------------------------------------------------------------------------
(* The invariant. *)

\* To begin with there is no event and no drain at work.
LEMMA InitDrain == Init => DrainInv
<1> SUFFICES ASSUME Init PROVE DrainInv
  OBVIOUS
<1>1. TypeOK
  BY EmptyBatch, DrainAssumption DEF Init, TypeOK, Idle
<1>2. \A w \in Drains : Claimed(w) = {} /\ IsInjective(drain[w].todo)
  BY EmptyBatch DEF Init, Idle, Claimed
<1>3. ClaimedOnce /\ WaitingUntouched
  BY <1>2 DEF Init, ClaimedOnce, WaitingUntouched, Untouched
<1>4. AtWork /\ InHandAccounted /\ NobodyToldTwice /\ ProcessedMeansHandled
  BY DEF Init, Idle, AtWork, InHandAccounted, NobodyToldTwice, ProcessedMeansHandled
<1> QED BY <1>1, <1>3, <1>4 DEF DrainInv

\* The commit of an event touches no drain, and nothing is written for it yet.
LEMMA EmitKeeps ==
  ASSUME DrainInv, TypeOK', NEW e \in Events, Emit(e)
  PROVE  DrainInv'
<1>1. /\ state[e] = "absent" /\ state' = [state EXCEPT ![e] = "waiting"]
      /\ UNCHANGED <<audience, drain, told, ruled, lost>>
      /\ state \in [Events -> {"absent", "waiting", "processed"}]
  BY DEF Emit, DrainInv, TypeOK
<1>2. \A f \in Events : state'[f] = "processed" <=> state[f] = "processed"
  BY <1>1
<1>3. ClaimedOnce'
  <2>1. \A w \in Drains : Claimed(w) \subseteq Events
    BY ClaimedAreEvents DEF DrainInv
  <2> QED BY <1>1, <1>2, <2>1 DEF DrainInv, ClaimedOnce, Claimed
<1>4. WaitingUntouched'
  BY <1>1, <1>2 DEF DrainInv, WaitingUntouched, Untouched, Claimed, InHand
<1>5. AtWork' /\ InHandAccounted' /\ NobodyToldTwice'
  BY <1>1 DEF DrainInv, AtWork, InHandAccounted, NobodyToldTwice
<1>6. ProcessedMeansHandled'
  BY <1>1, <1>2 DEF DrainInv, ProcessedMeansHandled
<1> QED BY <1>3, <1>4, <1>5, <1>6 DEF DrainInv

\* A drain that starts, stops claiming or ends its batch keeps the events it has and
\* writes nothing.
LEMMA QuietKeeps ==
  ASSUME DrainInv, TypeOK', NEW w \in Drains, Begin(w) \/ StopClaiming(w) \/ EndBatch(w)
  PROVE  DrainInv'
<1>1. /\ UNCHANGED <<state, audience, told, ruled, lost>>
      /\ \A v \in Drains : v # w => drain'[v] = drain[v]
      /\ drain[w].step # "telling" /\ drain'[w].step # "telling"
  BY DEF DrainInv, TypeOK, Begin, StopClaiming, EndBatch, Idle
<1>2. /\ drain'[w].todo = drain[w].todo
      /\ drain'[w].step = "idle" => drain'[w].todo = <<>>
  BY DEF DrainInv, TypeOK, AtWork, Begin, StopClaiming, EndBatch, Idle
<1>3. \A v \in Drains : drain'[v].todo = drain[v].todo
  BY <1>1, <1>2
<1>4. ClaimedOnce' /\ ProcessedMeansHandled'
  BY <1>1, <1>3 DEF DrainInv, ClaimedOnce, Claimed, ProcessedMeansHandled
<1>5. WaitingUntouched'
  BY <1>1, <1>3 DEF DrainInv, WaitingUntouched, Untouched, Claimed, InHand
<1>6. AtWork' /\ InHandAccounted' /\ NobodyToldTwice'
  BY <1>1, <1>2 DEF DrainInv, AtWork, InHandAccounted, NobodyToldTwice
<1> QED BY <1>4, <1>5, <1>6 DEF DrainInv

\* A claim takes an event that no drain has, and that nothing is written for.
LEMMA ClaimKeeps ==
  ASSUME DrainInv, TypeOK', NEW w \in Drains, ClaimNext(w)
  PROVE  DrainInv'
<1>1. PICK e \in Events :
        /\ state[e] = "waiting"
        /\ state' = [state EXCEPT ![e] = "processed"]
        /\ drain' = [drain EXCEPT ![w].todo = Append(@, e)]
  BY DEF ClaimNext
<1>2. /\ UNCHANGED <<audience, told, ruled, lost>>
      /\ drain[w].step = "claiming" /\ drain'[w].step = "claiming"
      /\ drain'[w].todo = Append(drain[w].todo, e)
      /\ \A v \in Drains : v # w => drain'[v] = drain[v]
      /\ state'[e] = "processed" /\ \A f \in Events : f # e => state'[f] = state[f]
  BY <1>1 DEF ClaimNext, DrainInv, TypeOK
<1>3. drain[w].todo \in Seq(Events)
  BY DEF DrainInv, TypeOK
<1>4. \A v \in Drains : e \notin Claimed(v) /\ Claimed(v) \subseteq Events
  BY <1>1, ClaimedAreEvents DEF DrainInv, ClaimedOnce
<1>5. /\ Claimed(w)' = Claimed(w) \cup {e}
      /\ IsInjective(drain'[w].todo)
      /\ \A v \in Drains : v # w => Claimed(v)' = Claimed(v)
  BY <1>2, <1>3, <1>4, AppendOne DEF DrainInv, ClaimedOnce, Claimed
<1>6. Untouched(e)'
  BY <1>1, <1>2 DEF DrainInv, WaitingUntouched, Untouched
<1>7. ClaimedOnce'
  <2>1. \A v \in Drains : \A f \in Claimed(v)' : state'[f] = "processed"
    BY <1>2, <1>4, <1>5 DEF DrainInv, ClaimedOnce
  <2>2. \A v \in Drains : IsInjective(drain'[v].todo)
    BY <1>2, <1>5 DEF DrainInv, ClaimedOnce
  <2>3. \A u, v \in Drains : u # v => Claimed(u)' \cap Claimed(v)' = {}
    BY <1>4, <1>5 DEF DrainInv, ClaimedOnce
  <2> QED BY <2>1, <2>2, <2>3 DEF ClaimedOnce
<1>8. WaitingUntouched'
  <2>1. \A f \in Events : state'[f] # "processed" => Untouched(f)'
    BY <1>2 DEF DrainInv, WaitingUntouched, Untouched
  <2>2. ASSUME NEW v \in Drains, NEW f \in Claimed(v)', ~InHand(v, f)' PROVE Untouched(f)'
    <3>1. CASE f = e
      BY <1>6, <3>1
    <3>2. CASE f # e
      <4>1. f \in Claimed(v) /\ ~InHand(v, f)
        BY <1>2, <1>5, <2>2, <3>2 DEF InHand
      <4> QED BY <1>2, <4>1 DEF DrainInv, WaitingUntouched, Untouched
    <3> QED BY <3>1, <3>2
  <2> QED BY <2>1, <2>2 DEF WaitingUntouched
<1>9. AtWork' /\ InHandAccounted' /\ NobodyToldTwice'
  BY <1>2 DEF DrainInv, AtWork, InHandAccounted, NobodyToldTwice
<1>10. ProcessedMeansHandled'
  BY <1>2, <1>5 DEF DrainInv, ProcessedMeansHandled, Claimed
<1> QED BY <1>7, <1>8, <1>9, <1>10 DEF DrainInv

\* The recipients are looked up for the head of the batch, for which nothing is written.
LEMMA AskKeeps ==
  ASSUME DrainInv, TypeOK', NEW w \in Drains, Ask(w)
  PROVE  DrainInv'
<1> DEFINE e == Head(drain[w].todo)
<1>1. PICK who \in SUBSET People :
        /\ audience' = [audience EXCEPT ![e] = who]
        /\ drain' = [drain EXCEPT ![w].step = "telling", ![w].left = who \X Channels]
  BY DEF Ask
<1>2. drain[w].todo \in Seq(Events) /\ drain[w].todo # <<>> /\ IsInjective(drain[w].todo)
  BY DEF DrainInv, TypeOK, Ask, ClaimedOnce
<1>3. e \in Events /\ e \in Claimed(w)
  BY <1>2, HeadAndTail DEF Claimed
<1>4. /\ UNCHANGED <<state, told, ruled, lost>>
      /\ drain[w].step = "asking" /\ drain'[w].step = "telling"
      /\ drain'[w].left = who \X Channels
      /\ \A v \in Drains : v # w => drain'[v] = drain[v]
      /\ \A v \in Drains : drain'[v].todo = drain[v].todo
      /\ audience'[e] = who /\ \A f \in Events : f # e => audience'[f] = audience[f]
  BY <1>1, <1>3 DEF Ask, DrainInv, TypeOK
<1>5. Untouched(e)
  BY <1>3, <1>4 DEF DrainInv, WaitingUntouched, InHand
<1>6. \A v \in Drains : v # w => e \notin Claimed(v)
  BY <1>3 DEF DrainInv, ClaimedOnce
<1>7. ClaimedOnce' /\ NobodyToldTwice'
  BY <1>4 DEF DrainInv, ClaimedOnce, Claimed, NobodyToldTwice
<1>8. WaitingUntouched'
  <2>1. \A f \in Events : state'[f] # "processed" => Untouched(f)'
    BY <1>4 DEF DrainInv, WaitingUntouched, Untouched
  <2>2. ASSUME NEW v \in Drains, NEW f \in Claimed(v)', ~InHand(v, f)' PROVE Untouched(f)'
    BY <1>4, <2>2 DEF DrainInv, WaitingUntouched, Untouched, InHand, Claimed
  <2> QED BY <2>1, <2>2 DEF WaitingUntouched
<1>9. AtWork'
  BY <1>2, <1>4 DEF DrainInv, AtWork
<1>10. InHandAccounted'
  <2> SUFFICES ASSUME NEW v \in Drains, drain'[v].step = "telling"
               PROVE  LET f == Head(drain'[v].todo)
                      IN /\ ruled'[f] = 0
                         /\ drain'[v].left \subseteq audience'[f] \X Channels
                         /\ \A p \in People, ch \in Channels :
                              told'[<<f, p, ch>>] =
                                IF p \in audience'[f] /\ <<p, ch>> \notin drain'[v].left
                                  THEN 1 ELSE 0
    BY DEF InHandAccounted
  <2>1. CASE v = w
    BY <1>4, <1>5, <2>1 DEF Untouched
  <2>2. CASE v # w
    <3>1. drain[v].todo \in Seq(Events) /\ drain[v].todo # <<>> /\ IsInjective(drain[v].todo)
      BY <1>4, <2>2 DEF DrainInv, TypeOK, AtWork, ClaimedOnce
    <3>2. Head(drain[v].todo) \in Events /\ Head(drain[v].todo) \in Claimed(v)
      BY <3>1, HeadAndTail DEF Claimed
    <3>3. audience'[Head(drain[v].todo)] = audience[Head(drain[v].todo)]
      BY <1>4, <1>6, <2>2, <3>2
    <3> QED BY <1>4, <2>2, <3>3 DEF DrainInv, InHandAccounted
  <2> QED BY <2>1, <2>2
<1>11. ProcessedMeansHandled'
  <2> SUFFICES ASSUME NEW f \in Events, state'[f] = "processed"
               PROVE  \/ f \in lost'
                      \/ \E v \in Drains : f \in Range(drain'[v].todo)
                      \/ /\ ruled'[f] = 1
                         /\ \A p \in audience'[f], ch \in Channels : told'[<<f, p, ch>>] = 1
    BY DEF ProcessedMeansHandled
  <2>1. CASE f = e
    BY <1>3, <1>4, <2>1 DEF Claimed
  <2>2. CASE f # e
    BY <1>4, <2>2 DEF DrainInv, ProcessedMeansHandled
  <2> QED BY <2>1, <2>2
<1> QED BY <1>7, <1>8, <1>9, <1>10, <1>11 DEF DrainInv

\* A row written for the event in hand is crossed off the list, and is its first.
LEMMA TellKeeps ==
  ASSUME DrainInv, TypeOK', NEW w \in Drains, NEW p \in People, NEW ch \in Channels,
         Tell(w, p, ch)
  PROVE  DrainInv'
<1> DEFINE e == Head(drain[w].todo)
<1>1. /\ drain[w].step = "telling" /\ <<p, ch>> \in drain[w].left
      /\ told' = [told EXCEPT ![<<e, p, ch>>] = OnceMore(@)]
      /\ UNCHANGED <<state, audience, ruled, lost>>
  BY DEF Tell
<1>2. drain[w].todo \in Seq(Events) /\ drain[w].todo # <<>> /\ IsInjective(drain[w].todo)
  BY <1>1 DEF DrainInv, TypeOK, AtWork, ClaimedOnce
<1>3. e \in Events /\ e \in Claimed(w)
  BY <1>2, HeadAndTail DEF Claimed
<1>4. /\ drain'[w].left = drain[w].left \ {<<p, ch>>}
      /\ drain'[w].step = "telling"
      /\ \A v \in Drains : v # w => drain'[v] = drain[v]
      /\ \A v \in Drains : drain'[v].todo = drain[v].todo /\ drain'[v].step = drain[v].step
  BY <1>1 DEF Tell, DrainInv, TypeOK
<1>5. told[<<e, p, ch>>] = 0 /\ p \in audience[e] /\ drain[w].left \subseteq audience[e] \X Channels
  BY <1>1 DEF DrainInv, InHandAccounted
<1>6. told'[<<e, p, ch>>] = 1
  BY <1>1, <1>3, <1>5 DEF OnceMore, DrainInv, TypeOK
<1>7. \A f \in Events, q \in People, d \in Channels :
        <<f, q, d>> # <<e, p, ch>> => told'[<<f, q, d>>] = told[<<f, q, d>>]
  BY <1>1 DEF DrainInv, TypeOK
<1>8. \A v \in Drains : v # w => e \notin Claimed(v)
  BY <1>3 DEF DrainInv, ClaimedOnce
<1>9. ClaimedOnce' /\ AtWork'
  BY <1>1, <1>4 DEF DrainInv, ClaimedOnce, Claimed, AtWork
<1>10. WaitingUntouched'
  <2>1. ASSUME NEW f \in Events, f # e, Untouched(f) PROVE Untouched(f)'
    BY <1>1, <1>7, <2>1 DEF Untouched
  <2>2. state[e] = "processed"
    BY <1>3 DEF DrainInv, ClaimedOnce
  <2>3. \A f \in Events : state'[f] # "processed" => Untouched(f)'
    BY <1>1, <2>1, <2>2 DEF DrainInv, WaitingUntouched
  <2>4. ASSUME NEW v \in Drains, NEW f \in Claimed(v)', ~InHand(v, f)' PROVE Untouched(f)'
    <3>1. f \in Claimed(v) /\ ~InHand(v, f) /\ f \in Events
      BY <1>4, <2>4, ClaimedAreEvents DEF InHand, Claimed, DrainInv
    <3>2. f # e
      BY <1>1, <1>8, <3>1 DEF InHand
    <3> QED BY <2>1, <3>1, <3>2 DEF DrainInv, WaitingUntouched
  <2> QED BY <2>3, <2>4 DEF WaitingUntouched
<1>11. InHandAccounted'
  <2> SUFFICES ASSUME NEW v \in Drains, drain'[v].step = "telling"
               PROVE  LET f == Head(drain'[v].todo)
                      IN /\ ruled'[f] = 0
                         /\ drain'[v].left \subseteq audience'[f] \X Channels
                         /\ \A q \in People, d \in Channels :
                              told'[<<f, q, d>>] =
                                IF q \in audience'[f] /\ <<q, d>> \notin drain'[v].left
                                  THEN 1 ELSE 0
    BY DEF InHandAccounted
  <2>1. CASE v = w
    <3>1. ruled'[e] = 0 /\ drain'[w].left \subseteq audience'[e] \X Channels
      BY <1>1, <1>4, <1>5 DEF DrainInv, InHandAccounted
    <3>2. ASSUME NEW q \in People, NEW d \in Channels
          PROVE  told'[<<e, q, d>>] =
                   IF q \in audience'[e] /\ <<q, d>> \notin drain'[w].left THEN 1 ELSE 0
      <4>1. CASE q = p /\ d = ch
        BY <1>1, <1>4, <1>5, <1>6, <4>1
      <4>2. CASE ~(q = p /\ d = ch)
        BY <1>1, <1>3, <1>4, <1>7, <4>2 DEF DrainInv, InHandAccounted
      <4> QED BY <4>1, <4>2
    <3> QED BY <1>4, <2>1, <3>1, <3>2
  <2>2. CASE v # w
    <3>1. drain[v].todo \in Seq(Events) /\ drain[v].todo # <<>> /\ IsInjective(drain[v].todo)
      BY <1>4, <2>2 DEF DrainInv, TypeOK, AtWork, ClaimedOnce
    <3>2. Head(drain[v].todo) \in Events /\ Head(drain[v].todo) \in Claimed(v)
      BY <3>1, HeadAndTail DEF Claimed
    <3>3. Head(drain[v].todo) # e
      BY <1>8, <2>2, <3>2
    <3> QED BY <1>1, <1>4, <1>7, <2>2, <3>2, <3>3 DEF DrainInv, InHandAccounted
  <2> QED BY <2>1, <2>2
<1>12. NobodyToldTwice'
  <2>1. ASSUME NEW x \in Events \X People \X Channels PROVE told'[x] <= 1
    BY <1>1, <1>6 DEF DrainInv, TypeOK, NobodyToldTwice
  <2> QED BY <1>1, <2>1 DEF DrainInv, NobodyToldTwice
<1>13. ProcessedMeansHandled'
  <2> SUFFICES ASSUME NEW f \in Events, state'[f] = "processed"
               PROVE  \/ f \in lost'
                      \/ \E v \in Drains : f \in Range(drain'[v].todo)
                      \/ /\ ruled'[f] = 1
                         /\ \A q \in audience'[f], d \in Channels : told'[<<f, q, d>>] = 1
    BY DEF ProcessedMeansHandled
  <2>1. CASE f = e
    BY <1>3, <1>4, <2>1 DEF Claimed
  <2>2. CASE f # e
    <3>1. audience[f] \subseteq People
      BY DEF DrainInv, TypeOK
    <3> QED BY <1>1, <1>4, <1>7, <2>2, <3>1 DEF DrainInv, ProcessedMeansHandled
  <2> QED BY <2>1, <2>2
<1> QED BY <1>9, <1>10, <1>11, <1>12, <1>13 DEF DrainInv

\* Its list crossed off, the event in hand is handled: its rules run, once, and the
\* drain lets it go.
LEMMA RulesKeep ==
  ASSUME DrainInv, TypeOK', NEW w \in Drains, RunRules(w)
  PROVE  DrainInv'
<1> DEFINE e == Head(drain[w].todo)
<1>1. /\ drain[w].step = "telling" /\ drain[w].left = {}
      /\ ruled' = [ruled EXCEPT ![e] = OnceMore(@)]
      /\ UNCHANGED <<state, audience, told, lost>>
  BY DEF RunRules
<1>2. drain[w].todo \in Seq(Events) /\ drain[w].todo # <<>> /\ IsInjective(drain[w].todo)
  BY <1>1 DEF DrainInv, TypeOK, AtWork, ClaimedOnce
<1>3. /\ drain'[w].step = "asking" /\ drain'[w].todo = Tail(drain[w].todo)
      /\ \A v \in Drains : v # w => drain'[v] = drain[v]
  BY DEF RunRules, DrainInv, TypeOK
<1>4. /\ e \in Events /\ e \in Claimed(w) /\ e \notin Claimed(w)'
      /\ Claimed(w) = {e} \cup Claimed(w)'
      /\ IsInjective(drain'[w].todo)
      /\ \A v \in Drains : v # w => Claimed(v)' = Claimed(v)
  BY <1>2, <1>3, HeadAndTail DEF Claimed
<1>5. /\ ruled'[e] = 1
      /\ \A f \in Events : f # e => ruled'[f] = ruled[f]
  BY <1>1, <1>4 DEF OnceMore, DrainInv, TypeOK, InHandAccounted
<1>6. \A p \in audience[e], ch \in Channels : told[<<e, p, ch>>] = 1
  <2>1. audience[e] \subseteq People
    BY <1>4 DEF DrainInv, TypeOK
  <2> QED BY <1>1, <2>1 DEF DrainInv, InHandAccounted
<1>7. \A v \in Drains : v # w => e \notin Claimed(v)
  BY <1>4 DEF DrainInv, ClaimedOnce
<1>8. ClaimedOnce'
  BY <1>1, <1>3, <1>4 DEF DrainInv, ClaimedOnce
<1>9. WaitingUntouched'
  <2>1. ASSUME NEW f \in Events, f # e, Untouched(f) PROVE Untouched(f)'
    BY <1>1, <1>5, <2>1 DEF Untouched
  <2>2. state[e] = "processed"
    BY <1>4 DEF DrainInv, ClaimedOnce
  <2>3. \A f \in Events : state'[f] # "processed" => Untouched(f)'
    BY <1>1, <2>1, <2>2 DEF DrainInv, WaitingUntouched
  <2>4. ASSUME NEW v \in Drains, NEW f \in Claimed(v)', ~InHand(v, f)' PROVE Untouched(f)'
    <3>1. f # e
      BY <1>4, <1>7, <2>4
    <3>2. f \in Claimed(v) /\ ~InHand(v, f) /\ f \in Events
      BY <1>1, <1>3, <1>4, <2>4, <3>1, ClaimedAreEvents DEF InHand, DrainInv
    <3> QED BY <2>1, <3>1, <3>2 DEF DrainInv, WaitingUntouched
  <2> QED BY <2>3, <2>4 DEF WaitingUntouched
<1>10. AtWork'
  BY <1>3 DEF DrainInv, AtWork
<1>11. InHandAccounted'
  <2> SUFFICES ASSUME NEW v \in Drains, v # w, drain[v].step = "telling"
               PROVE  ruled'[Head(drain[v].todo)] = ruled[Head(drain[v].todo)]
    BY <1>1, <1>3 DEF DrainInv, InHandAccounted
  <2>1. drain[v].todo \in Seq(Events) /\ drain[v].todo # <<>> /\ IsInjective(drain[v].todo)
    BY DEF DrainInv, TypeOK, AtWork, ClaimedOnce
  <2>2. Head(drain[v].todo) \in Events /\ Head(drain[v].todo) \in Claimed(v)
    BY <2>1, HeadAndTail DEF Claimed
  <2> QED BY <1>5, <1>7, <2>2
<1>12. NobodyToldTwice'
  BY <1>1, <1>5 DEF DrainInv, NobodyToldTwice
<1>13. ProcessedMeansHandled'
  <2> SUFFICES ASSUME NEW f \in Events, state'[f] = "processed"
               PROVE  \/ f \in lost'
                      \/ \E v \in Drains : f \in Claimed(v)'
                      \/ /\ ruled'[f] = 1
                         /\ \A q \in audience'[f], d \in Channels : told'[<<f, q, d>>] = 1
    BY DEF ProcessedMeansHandled, Claimed
  <2>1. CASE f = e
    BY <1>1, <1>5, <1>6, <2>1
  <2>2. CASE f # e
    <3>1. \/ f \in lost
          \/ \E v \in Drains : f \in Claimed(v)
          \/ ruled[f] = 1 /\ \A q \in audience[f], d \in Channels : told[<<f, q, d>>] = 1
      BY <1>1 DEF DrainInv, ProcessedMeansHandled, Claimed
    <3> QED BY <1>1, <1>4, <1>5, <2>2, <3>1
  <2> QED BY <2>1, <2>2
<1> QED BY <1>8, <1>9, <1>10, <1>11, <1>12, <1>13 DEF DrainInv

\* A drain that dies loses what it had, and nobody else's.
LEMMA DieKeeps ==
  ASSUME DrainInv, TypeOK', NEW w \in Drains, Die(w)
  PROVE  DrainInv'
<1>1. /\ UNCHANGED <<state, audience, told, ruled>>
      /\ lost' = lost \cup Claimed(w)
      /\ drain'[w] = Idle
      /\ \A v \in Drains : v # w => drain'[v] = drain[v]
  BY DEF Die, DrainInv, TypeOK, Claimed
<1>2. /\ Claimed(w)' = {} /\ IsInjective(drain'[w].todo)
      /\ \A v \in Drains : v # w => Claimed(v)' = Claimed(v)
  BY <1>1, EmptyBatch DEF Claimed, Idle
<1>3. ClaimedOnce'
  BY <1>1, <1>2 DEF DrainInv, ClaimedOnce
<1>4. WaitingUntouched'
  BY <1>1, <1>2 DEF DrainInv, WaitingUntouched, Untouched, InHand
<1>5. AtWork' /\ InHandAccounted' /\ NobodyToldTwice'
  BY <1>1 DEF DrainInv, AtWork, InHandAccounted, NobodyToldTwice, Idle
<1>6. ProcessedMeansHandled'
  BY <1>1, <1>2 DEF DrainInv, ProcessedMeansHandled, Claimed
<1> QED BY <1>3, <1>4, <1>5, <1>6 DEF DrainInv

\* The invariant holds throughout, however drains overlap and die.
THEOREM DrainsKeepCount == Spec => []DrainInv
<1>1. Init => DrainInv
  BY InitDrain
<1>2. DrainInv /\ [Next]_vars => DrainInv'
  <2> SUFFICES ASSUME DrainInv, [Next]_vars PROVE DrainInv'
    OBVIOUS
  <2>1. CASE UNCHANGED vars
    <3>1. UNCHANGED <<state, audience, drain, told, ruled, lost>>
      BY <2>1 DEF vars
    <3>2. TypeOK'
      BY <3>1 DEF DrainInv, TypeOK
    <3>3. ClaimedOnce' /\ WaitingUntouched' /\ AtWork'
      BY <3>1 DEF DrainInv, ClaimedOnce, Claimed, WaitingUntouched, Untouched, InHand, AtWork
    <3>4. InHandAccounted' /\ NobodyToldTwice' /\ ProcessedMeansHandled'
      BY <3>1 DEF DrainInv, InHandAccounted, NobodyToldTwice, ProcessedMeansHandled
    <3> QED BY <3>2, <3>3, <3>4 DEF DrainInv
  <2>2. CASE Next
    <3>1. TypeOK'
      BY <2>2, TypeStep DEF DrainInv
    <3>2. ASSUME NEW e \in Events, Emit(e) PROVE DrainInv'
      BY <3>1, <3>2, EmitKeeps
    <3>3. ASSUME NEW w \in Drains, Work(w) PROVE DrainInv'
      BY <3>1, <3>3, QuietKeeps, ClaimKeeps, AskKeeps, TellKeeps, RulesKeep DEF Work
    <3>4. ASSUME NEW w \in Drains, Die(w) PROVE DrainInv'
      BY <3>1, <3>4, DieKeeps
    <3> QED BY <2>2, <3>2, <3>3, <3>4 DEF Next
  <2> QED BY <2>1, <2>2
<1> QED BY <1>1, <1>2, PTL DEF Spec

\* Events, drains and notifications are always well formed; no batch outgrows its size.
THEOREM DrainTyped == Spec => []TypeOK
<1>1. DrainInv => TypeOK
  BY DEF DrainInv
<1> QED BY <1>1, DrainsKeepCount, PTL

\* Nobody is told of an event twice and no rule fires twice for it.
THEOREM ToldOnce == Spec => []NobodyToldTwice
<1>1. DrainInv => NobodyToldTwice
  BY DEF DrainInv
<1> QED BY <1>1, DrainsKeepCount, PTL

\* An event marked processed is in hand, wholly handled, or was with a drain that died.
THEOREM ProcessedHandled == Spec => []ProcessedMeansHandled
<1>1. DrainInv => ProcessedMeansHandled
  BY DEF DrainInv
<1> QED BY <1>1, DrainsKeepCount, PTL
===============================================================================
