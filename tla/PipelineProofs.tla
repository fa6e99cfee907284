---------------------------- MODULE PipelineProofs ----------------------------
(***************************************************************************)
(* Types, effectively-once processing and no event marked without being in *)
(* the stream, for any number of relays, groups, events, crashes, failures,*)
(* replays and redrives; with one relay also that no group skips an event  *)
(* and that a serialized partition enters the stream in order.             *)
(***************************************************************************)
EXTENDS Pipeline, FiniteSetTheorems, SequenceTheorems, TLAPS

\* The types the argument needs: the counters are numbers, and the bookkeeping
\* of the consumers is a function of the group.
Shape ==
    /\ effects \in [Groups -> [Events -> Nat]]
    /\ processed = [g \in Groups |-> processed[g]]
    /\ pc = [g \in Groups |-> pc[g]]
    /\ replays \in Nat /\ redrives \in Nat

OnceInv == Shape /\ ClaimsGuardEffects

\* Nothing has been done at the start.
LEMMA InitOnce == Init => OnceInv
  BY SMT DEF Init, OnceInv, Shape, ClaimsGuardEffects

\* The steps of the relay and of clients touch no consumer.
LEMMA FrameOnce ==
    ASSUME OnceInv, UNCHANGED <<workVars, consumerVars, replays, redrives>>
    PROVE  OnceInv'
  BY DEF OnceInv, Shape, ClaimsGuardEffects, workVars, consumerVars, Event, Current

\* A step that leaves the work alone and goes on with another message, or with
\* none, keeps the invariant as long as it does not enter the handler.
LEMMA LeaveOnce ==
    ASSUME OnceInv, NEW g \in Groups, NEW next,
           next \notin {"handle", "finish"},
           pc' = [pc EXCEPT ![g] = next],
           \A h \in Groups : h # g => batch'[h] = batch[h],
           UNCHANGED <<workVars, replays, redrives>>
    PROVE  OnceInv'
  BY DEF OnceInv, Shape, ClaimsGuardEffects, workVars, Event, Current

\* Only an unclaimed event is handled (claim_event in process_one).
LEMMA ClaimOnce ==
    ASSUME OnceInv, NEW g \in Groups, ClaimEvent(g)
    PROVE  OnceInv'
  BY DEF OnceInv, Shape, ClaimsGuardEffects, ClaimEvent, Goto, workVars, operatorVars, Event, Current

\* The handler keeps its claim until its transaction commits.
LEMMA HandleOnce ==
    ASSUME OnceInv, NEW g \in Groups, Handle(g)
    PROVE  OnceInv'
  BY DEF OnceInv, Shape, ClaimsGuardEffects, Handle, Goto, workVars, operatorVars, Event, Current

\* COMMIT writes the claim with the work, so the event counts once more and is
\* claimed.
LEMMA CommitWorkOnce ==
    ASSUME OnceInv, NEW g \in Groups, CommitWork(g),
           NEW next, next \notin {"handle", "finish"}, Goto(g, next)
    PROVE  OnceInv'
<1> USE DEF CommitWork, Goto, operatorVars
<1>1. Shape'
  <2>1. effects' \in [Groups -> [Events -> Nat]]
    <3> DEFINE E == [effects[g] EXCEPT ![Event(g)] = @ + 1]
    <3>1. effects[g] \in [Events -> Nat] /\ effects' = [effects EXCEPT ![g] = E]
      BY DEF OnceInv, Shape
    <3>2. \A e \in Events : E[e] \in Nat
      BY <3>1
    <3>3. E \in [Events -> Nat]
      BY <3>1, <3>2
    <3> HIDE DEF E
    <3> QED BY <3>1, <3>3 DEF OnceInv, Shape
  <2>2. processed' = [h \in Groups |-> processed'[h]] /\ pc' = [h \in Groups |-> pc'[h]]
    BY DEF OnceInv, Shape
  <2> QED BY <2>1, <2>2 DEF OnceInv, Shape
<1>2. \A h \in Groups : pc'[h] \in {"handle", "finish"} => Event(h)' \notin processed'[h]
  BY DEF OnceInv, Shape, ClaimsGuardEffects, Event, Current
<1>3. ASSUME NEW h \in Groups, NEW e \in Events
      PROVE  effects'[h][e] <= replays' + redrives' + (IF e \in processed'[h] THEN 1 ELSE 0)
  <2>1. CASE h = g /\ e = Event(g)
    <3>1. effects'[h][e] = effects[h][e] + 1 /\ e \in processed'[h]
      BY <2>1 DEF OnceInv, Shape
    <3>2. effects[h][e] <= replays + redrives
      BY <2>1 DEF OnceInv, Shape, ClaimsGuardEffects
    <3> QED BY <3>1, <3>2 DEF OnceInv, Shape
  <2>2. CASE ~(h = g /\ e = Event(g))
    <3>1. effects'[h][e] = effects[h][e] /\ (e \in processed'[h] <=> e \in processed[h])
      BY <2>2 DEF OnceInv, Shape
    <3> QED BY <3>1 DEF OnceInv, Shape, ClaimsGuardEffects
  <2> QED BY <2>1, <2>2
<1> QED BY <1>1, <1>2, <1>3 DEF OnceInv, ClaimsGuardEffects

\* A dead letter leaves claims and work as they are.
LEMMA DeadLetterOnce ==
    ASSUME OnceInv, NEW g \in Groups, DeadLetter(g)
    PROVE  OnceInv'
  BY DEF OnceInv, Shape, ClaimsGuardEffects, DeadLetter, Goto, operatorVars, Event, Current

\* A replay takes claims away, and is counted.
LEMMA ReplayClearOnce ==
    ASSUME OnceInv, ReplayClear
    PROVE  OnceInv'
<1> USE DEF ReplayClear, consumerVars
<1>1. processed' = [h \in Groups |-> processed'[h]]
      /\ \A h \in Groups : processed'[h] \subseteq processed[h]
  BY DEF OnceInv, Shape
<1>0. Shape'
  BY <1>1 DEF OnceInv, Shape
<1>2. \A h \in Groups : pc'[h] \in {"handle", "finish"} => Event(h)' \notin processed'[h]
  BY <1>1 DEF OnceInv, Shape, ClaimsGuardEffects, Event, Current
<1>3. ASSUME NEW h \in Groups, NEW e \in Events
      PROVE  effects'[h][e] <= replays' + redrives' + (IF e \in processed'[h] THEN 1 ELSE 0)
  <2>1. effects[h][e] <= replays + redrives + 1
    BY DEF OnceInv, Shape, ClaimsGuardEffects
  <2> QED BY <2>1 DEF OnceInv, Shape
<1> QED BY <1>0, <1>2, <1>3 DEF OnceInv, ClaimsGuardEffects

\* A redrive takes one claim away, and is counted.
LEMMA RedriveOnce ==
    ASSUME OnceInv, NEW g \in Groups, NEW d \in Events, Redrive(g, d)
    PROVE  OnceInv'
<1> USE DEF Redrive, consumerVars
<1>1. processed' = [h \in Groups |-> processed'[h]]
      /\ \A h \in Groups : processed'[h] \subseteq processed[h]
  BY DEF OnceInv, Shape
<1>0. Shape'
  BY <1>1 DEF OnceInv, Shape
<1>2. \A h \in Groups : pc'[h] \in {"handle", "finish"} => Event(h)' \notin processed'[h]
  BY <1>1 DEF OnceInv, Shape, ClaimsGuardEffects, Event, Current
<1>3. ASSUME NEW h \in Groups, NEW e \in Events
      PROVE  effects'[h][e] <= replays' + redrives' + (IF e \in processed'[h] THEN 1 ELSE 0)
  <2>1. effects[h][e] <= replays + redrives + 1
    BY DEF OnceInv, Shape, ClaimsGuardEffects
  <2> QED BY <2>1 DEF OnceInv, Shape
<1> QED BY <1>0, <1>2, <1>3 DEF OnceInv, ClaimsGuardEffects

\* Every step of the pipeline keeps the invariant.
LEMMA NextOnce == OnceInv /\ [Next]_vars => OnceInv'
<1> SUFFICES ASSUME OnceInv, [Next]_vars PROVE OnceInv'
  OBVIOUS
<1>1. ASSUME NEW e \in Events, AppendOutbox(e) PROVE OnceInv'
  BY <1>1, FrameOnce DEF AppendOutbox, operatorVars
<1>2. ASSUME NEW r \in Relays, RelayStep(r) PROVE OnceInv'
  BY <1>2, FrameOnce DEF RelayStep, ClaimUnpublished, DrawOffset, Publish, MarkPublished, RelayEnd, operatorVars
<1>3. ASSUME NEW g \in Groups, ConsumerStep(g) PROVE OnceInv'
  <2>1. CASE Poll(g)
    <3>1. \A h \in Groups : h # g => batch'[h] = batch[h]
      BY <2>1 DEF Poll
    <3> QED BY <2>1, <3>1, LeaveOnce DEF Poll, operatorVars
  <2>2. CASE ClaimEvent(g)
    BY <2>2, ClaimOnce
  <2>3. CASE Handle(g)
    BY <2>3, HandleOnce
  <2>4. CASE Finish(g)
    BY <2>4, CommitWorkOnce DEF Finish
  <2>5. CASE FailPoison(g)
    BY <2>5, LeaveOnce DEF FailPoison, Goto, operatorVars
  <2>6. CASE DeadLetter(g)
    BY <2>6, DeadLetterOnce
  <2>7. CASE CommitOffset(g)
    <3>1. \A h \in Groups : h # g => batch'[h] = batch[h]
      BY <2>7 DEF CommitOffset
    <3>2. CASE Tail(batch[g]) = <<>>
      BY <2>7, <3>1, <3>2, LeaveOnce DEF CommitOffset, operatorVars
    <3>3. CASE Tail(batch[g]) # <<>>
      BY <2>7, <3>1, <3>3, LeaveOnce DEF CommitOffset, operatorVars
    <3> QED BY <3>2, <3>3
  <2> QED BY <1>3, <2>1, <2>2, <2>3, <2>4, <2>5, <2>6, <2>7 DEF ConsumerStep
<1>4. CASE FaultStep
  <2>1. ASSUME NEW r \in Relays, PublishFails(r) \/ RelayCrash(r) PROVE OnceInv'
    BY <2>1, FrameOnce DEF PublishFails, RelayCrash, RelayEnd, operatorVars
  <2>2. ASSUME NEW g \in Groups, FailAttempt(g) PROVE OnceInv'
    <3>1. CASE attempt[g] < MaxAttempts
      BY <2>2, <3>1, LeaveOnce DEF FailAttempt, AttemptFailed, Goto, operatorVars
    <3>2. CASE ~(attempt[g] < MaxAttempts)
      BY <2>2, <3>2, LeaveOnce DEF FailAttempt, AttemptFailed, Goto, operatorVars
    <3> QED BY <3>1, <3>2
  <2>4. ASSUME NEW g \in Groups, CommitUnsure(g) PROVE OnceInv'
    <3>1. CASE attempt[g] < MaxAttempts
      BY <2>4, <3>1, CommitWorkOnce DEF CommitUnsure, AttemptFailed
    <3>2. CASE ~(attempt[g] < MaxAttempts)
      BY <2>4, <3>2, CommitWorkOnce DEF CommitUnsure, AttemptFailed
    <3> QED BY <3>1, <3>2
  <2>5. CASE ReplayCrash
    BY <2>5, FrameOnce DEF ReplayCrash
  <2>3. ASSUME NEW g \in Groups, ConsumerCrash(g) PROVE OnceInv'
    <3>1. \A h \in Groups : h # g => batch'[h] = batch[h]
      BY <2>3 DEF ConsumerCrash
    <3> QED BY <2>3, <3>1, LeaveOnce DEF ConsumerCrash, operatorVars
  <2> QED BY <1>4, <2>1, <2>2, <2>3, <2>4, <2>5 DEF FaultStep
<1>5. CASE OperatorStep
  <2>1. ASSUME NEW g \in Groups, NEW from \in ReplayFrom, ReplayHead(g, from) PROVE OnceInv'
    BY <2>1, FrameOnce DEF ReplayHead
  <2>2. CASE ReplayClear
    BY <2>2, ReplayClearOnce
  <2>3. CASE ReplaySeek
    BY <2>3 DEF ReplaySeek, OnceInv, Shape, ClaimsGuardEffects, workVars, Event, Current
  <2>4. ASSUME NEW g \in Groups, NEW e \in Events, Redrive(g, e) PROVE OnceInv'
    BY <2>4, RedriveOnce
  <2> QED BY <1>5, <2>1, <2>2, <2>3, <2>4 DEF OperatorStep
<1>6. CASE UNCHANGED vars
  BY <1>6, FrameOnce DEF vars, operatorVars
<1> QED BY <1>1, <1>2, <1>3, <1>4, <1>5, <1>6 DEF Next

\* The invariant gives the bound: a claim counts for at most one.
LEMMA OnceEnough == OnceInv => ClaimsGuardEffects /\ EffectivelyOnce
<1> SUFFICES ASSUME OnceInv, NEW g \in Groups, NEW e \in Events
             PROVE  effects[g][e] <= 1 + replays + redrives
  BY DEF OnceInv, EffectivelyOnce
<1>1. effects[g][e] <= replays + redrives + 1
  BY DEF OnceInv, Shape, ClaimsGuardEffects
<1> QED BY <1>1 DEF OnceInv, Shape

\* A group works only on unclaimed events, and commits an event's work at most
\* once more often than an operator took its claim away (process_one,
\* claim_event, create_replay, redrive).
THEOREM ClaimsGuard == Spec => []ClaimsGuardEffects
<1>1. OnceInv => ClaimsGuardEffects
  BY OnceEnough
<1> QED BY InitOnce, NextOnce, <1>1, PTL DEF Spec

\* At-least-once delivery becomes effectively-once processing: no crash,
\* failure or duplicate makes a group commit the work of an event twice; only
\* replays and redrives do (runner.py).
THEOREM ProcessedEffectivelyOnce == Spec => []EffectivelyOnce
<1>1. OnceInv => EffectivelyOnce
  BY OnceEnough
<1> QED BY InitOnce, NextOnce, <1>1, PTL DEF Spec
-----------------------------------------------------------------------------
(* ORDER BY ... LIMIT.                                                      *)

\* The number of ids up to an id.
Rank(S, x) == Cardinality({y \in S : y <= x})

\* Ranks number the ids of a finite set, in their order.
LEMMA RankOrders ==
    ASSUME NEW S \in SUBSET Int, IsFiniteSet(S)
    PROVE  /\ Cardinality(S) \in Nat
           /\ \A x \in S : Rank(S, x) \in 1 .. Cardinality(S)
           /\ \A x, z \in S : x < z => Rank(S, x) < Rank(S, z)
           /\ \A i \in 1 .. Cardinality(S) : \E x \in S : Rank(S, x) = i
<1>. DEFINE n == Cardinality(S)
            upTo(x) == {y \in S : y <= x}
<1>1. n \in Nat  BY FS_CardinalityType
<1>2. ASSUME NEW x \in S
      PROVE  IsFiniteSet(upTo(x)) /\ Rank(S, x) \in 1 .. n
  <2>1. upTo(x) \in SUBSET S /\ x \in upTo(x)  OBVIOUS
  <2>2. IsFiniteSet(upTo(x)) /\ Cardinality(upTo(x)) <= n  BY <2>1, FS_Subset
  <2>3. Cardinality(upTo(x)) \in Nat  BY <2>2, FS_CardinalityType
  <2>4. Cardinality(upTo(x)) # 0  BY <2>1, <2>2, FS_EmptySet
  <2>. QED  BY <1>1, <2>2, <2>3, <2>4 DEF Rank
<1>3. ASSUME NEW x \in S, NEW z \in S, x < z
      PROVE  Rank(S, x) < Rank(S, z)
  <2>1. upTo(x) \in SUBSET upTo(z)
    <3>1. ASSUME NEW y \in S, y <= x PROVE y <= z
      <4>1. x \in Int /\ y \in Int /\ z \in Int  OBVIOUS
      <4>. QED  BY <1>3, <3>1, <4>1
    <3>. QED  BY <3>1
  <2>2. z \in upTo(z) /\ z \notin upTo(x)  BY <1>3
  <2>3. /\ Cardinality(upTo(x)) <= Cardinality(upTo(z))
        /\ Cardinality(upTo(z)) = Cardinality(upTo(x)) => upTo(z) = upTo(x)
    BY <1>2, <2>1, FS_Subset
  <2>4. Rank(S, x) \in 1 .. n /\ Rank(S, z) \in 1 .. n  BY <1>2
  <2>5. Rank(S, x) <= Rank(S, z) /\ Rank(S, x) # Rank(S, z)  BY <2>2, <2>3 DEF Rank
  <2>. HIDE DEF n
  <2>. QED  BY <1>1, <2>4, <2>5
<1>4. ASSUME NEW i \in 1 .. n PROVE \E x \in S : Rank(S, x) = i
  <2>. DEFINE f == [x \in S |-> Rank(S, x)]
  <2>1. f \in [S -> 1 .. n]  BY <1>2
  <2>2. ASSUME NEW x \in S, NEW z \in S, f[x] = f[z] PROVE x = z
    <3>1. Rank(S, x) = Rank(S, z)  BY <2>2
    <3>2. x \in Int /\ z \in Int  OBVIOUS
    <3>3. Rank(S, x) \in 1 .. n  BY <1>2
    <3>. HIDE DEF n
    <3>4. ~(Rank(S, x) < Rank(S, z)) /\ ~(Rank(S, z) < Rank(S, x))  BY <1>1, <3>1, <3>3
    <3>5. ~(x < z) /\ ~(z < x)  BY <1>3, <3>4
    <3>. QED  BY <3>2, <3>5
  <2>3. f \in Injection(S, 1 .. n)  BY <2>1, <2>2 DEF Injection, IsInjective
  <2>4. IsFiniteSet(1 .. n) /\ Cardinality(1 .. n) = n  BY <1>1, FS_Interval
  <2>5. f \in Surjection(S, 1 .. n)  BY <2>3, <2>4, FS_Injection
  <2>. QED  BY <2>5 DEF Surjection
<1>. QED  BY <1>1, <1>2, <1>3, <1>4 DEF n

\* The rows a query with ORDER BY and LIMIT returns: they ascend, and no row
\* before one of them is left out.
LEMMA LimitInOrder ==
    ASSUME NEW S \in SUBSET Int, IsFiniteSet(S), S # {}
    PROVE  /\ Limit(S) \in Seq(S) /\ Limit(S) # <<>>
           /\ \A i, j \in DOMAIN Limit(S) : i < j => Limit(S)[i] < Limit(S)[j]
           /\ \A i \in DOMAIN Limit(S), x \in S :
                 x <= Limit(S)[i] => \E j \in 1 .. i : Limit(S)[j] = x
<1>. DEFINE n == Cardinality(S)
            k == IF n < BatchSize THEN n ELSE BatchSize
            s == Limit(S)
<1>1. n \in Nat /\ n # 0  BY FS_CardinalityType, FS_EmptySet
<1>2. k \in 1 .. n  BY <1>1, SizeAssumption
<1>3. s = [i \in 1 .. k |-> CHOOSE x \in S : Rank(S, x) = i]  BY DEF Limit, Rank
<1>. HIDE DEF k, s, n
<1>4. ASSUME NEW i \in 1 .. k PROVE s[i] \in S /\ Rank(S, s[i]) = i
  <2>1. i \in 1 .. n  BY <1>1, <1>2
  <2>2. \E x \in S : Rank(S, x) = i  BY <2>1, RankOrders DEF n
  <2>. QED  BY <1>3, <2>2
<1>5. s \in [1 .. k -> S] /\ k \in Nat  BY <1>1, <1>2, <1>3, <1>4
<1>6. s \in Seq(S) /\ Len(s) = k /\ DOMAIN s = 1 .. k  BY <1>5
<1>7. s # <<>>  BY <1>2, <1>6
<1>8. \A x, z \in S : x < z => Rank(S, x) < Rank(S, z)  BY RankOrders
<1>9. \A x \in S : Rank(S, x) \in 1 .. n  BY RankOrders DEF n
<1>10. ASSUME NEW i \in 1 .. k, NEW j \in 1 .. k, i < j PROVE s[i] < s[j]
  <2>1. s[i] \in S /\ s[j] \in S /\ Rank(S, s[i]) = i /\ Rank(S, s[j]) = j  BY <1>4
  <2>2. s[i] \in Int /\ s[j] \in Int  BY <2>1
  <2>3. CASE s[j] < s[i]
    <3>1. j < i  BY <1>8, <2>1, <2>3
    <3>. QED  BY <1>10, <3>1
  <2>4. CASE s[i] = s[j]  BY <1>10, <2>1, <2>4
  <2>. QED  BY <2>2, <2>3, <2>4
<1>11. ASSUME NEW i \in 1 .. k, NEW x \in S, x <= s[i] PROVE \E j \in 1 .. i : s[j] = x
  <2>. DEFINE j == Rank(S, x)
  <2>1. s[i] \in S /\ Rank(S, s[i]) = i  BY <1>4
  <2>2. x \in Int /\ s[i] \in Int  BY <2>1
  <2>3. j \in 1 .. n  BY <1>9
  <2>. HIDE DEF j
  <2>4. j <= i
    <3>1. CASE x < s[i]
      <4>1. j < i  BY <1>8, <2>1, <3>1 DEF j
      <4>. QED  BY <1>1, <2>3, <4>1
    <3>2. CASE x = s[i]  BY <2>1, <3>2 DEF j
    <3>. QED  BY <1>11, <2>2, <3>1, <3>2
  <2>5. j \in 1 .. k /\ j \in 1 .. i  BY <1>5, <2>3, <2>4
  <2>6. s[j] \in S /\ Rank(S, s[j]) = j  BY <1>4, <2>5
  <2>7. s[j] = x
    <3>1. s[j] \in Int  BY <2>6
    <3>2. CASE s[j] < x
      <4>1. j < j  BY <1>8, <2>6, <3>2 DEF j
      <4>. QED  BY <2>3, <4>1
    <3>3. CASE x < s[j]
      <4>1. j < j  BY <1>8, <2>6, <3>3 DEF j
      <4>. QED  BY <2>3, <4>1
    <3>. QED  BY <2>2, <3>1, <3>2, <3>3
  <2>. QED  BY <2>5, <2>7
<1>. QED  BY <1>6, <1>7, <1>10, <1>11 DEF s
-----------------------------------------------------------------------------
(* Types, and what is in the stream.                                        *)

InStream(topic, e) == \E m \in stream : m.topic = topic /\ m.event = e

\* A relay holds rows of the outbox, and none between its transactions.
RelaySide ==
    /\ outbox \subseteq Events /\ published \subseteq outbox
    /\ relayPc \in [Relays -> {"idle", "run"}]
    /\ claimed \in [Relays -> Seq(outbox)] /\ sent \in [Relays -> SUBSET outbox]
    /\ drawn \in [Relays -> Nat] /\ lastOffset \in Nat
    /\ \A m \in stream : /\ m.event \in Events /\ m.offset \in 1 .. lastOffset
                         /\ m.topic = Ledger => m.event \in outbox
    /\ \A r \in Relays : /\ relayPc[r] = "idle" => claimed[r] = <<>> /\ sent[r] = {}
                         /\ drawn[r] # 0 => claimed[r] # <<>>

\* What is marked, or will be, is in the stream.
Relayed == /\ \A e \in published : InStream(Ledger, e)
           /\ \A r \in Relays : \A e \in sent[r] : InStream(Ledger, e)

\* An offset is drawn once.
Offsets == /\ \A m, n \in stream : m.offset = n.offset => m = n
           /\ \A r \in Relays : drawn[r] # 0 =>
                 drawn[r] <= lastOffset /\ \A m \in stream : m.offset # drawn[r]
           /\ \A q, r \in Relays : drawn[q] = drawn[r] /\ drawn[r] # 0 => q = r

ConsumerPcs == {"idle", "claim", "handle", "finish", "dead", "offset"}

ConsumerSide ==
    /\ offsets \in [Groups -> Int] /\ attempt \in [Groups -> 1 .. MaxAttempts]
    /\ batch \in [Groups -> Seq(stream)] /\ pc \in [Groups -> ConsumerPcs]
    /\ processed \in [Groups -> SUBSET Events]
    /\ effects \in [Groups -> [Events -> Nat]] /\ dead \in [Groups -> [Events -> Nat]]
    /\ replays \in Nat /\ redrives \in Nat
    /\ \A g \in Groups : pc[g] # "idle" => batch[g] # <<>>
    /\ replay.pc # "idle" => replay.group \in Groups /\ replay.from \in ReplayFrom
    /\ replay.pc = "seek" => replays > 0

\* What a handler derived is in its topic before its transaction commits.
Derived ==
    \A g \in Groups : OutTopic[g] # NoTopic =>
       /\ \A e \in processed[g] \cap Derives : InStream(OutTopic[g], e)
       /\ pc[g] = "finish" /\ Event(g) \in Derives => InStream(OutTopic[g], Event(g))

FlowInv == RelaySide /\ Relayed /\ Offsets /\ ConsumerSide /\ Derived

\* Nothing is in flight at the start.
LEMMA InitFlow == Init => FlowInv
<1>. SUFFICES ASSUME Init PROVE FlowInv  OBVIOUS
<1>1. RelaySide  BY EmptySeq DEF Init, RelaySide
<1>2. Relayed /\ Offsets  BY DEF Init, Relayed, Offsets
<1>3. ConsumerSide
  <2>1. 1 \in 1 .. MaxAttempts  BY SizeAssumption
  <2>. QED  BY <2>1, EmptySeq DEF Init, ConsumerSide, ConsumerPcs, NoReplay
<1>4. Derived  BY DEF Init, Derived
<1>. QED  BY <1>1, <1>2, <1>3, <1>4 DEF FlowInv

\* The message at the head of a batch is a message of the stream.
LEMMA HeadOfBatch ==
    ASSUME FlowInv, NEW g \in Groups, pc[g] # "idle"
    PROVE  Current(g) \in stream /\ Event(g) \in Events /\ Current(g) = batch[g][1]
           /\ Current(g).offset \in 1 .. lastOffset /\ 1 \in DOMAIN batch[g]
<1>1. batch[g] \in Seq(stream) /\ batch[g] # <<>>  BY DEF FlowInv, ConsumerSide
<1>2. Head(batch[g]) \in stream /\ Head(batch[g]) = batch[g][1] /\ 1 \in DOMAIN batch[g]  BY <1>1
<1>. QED  BY <1>2 DEF FlowInv, RelaySide, Event, Current

\* Consumers keep what they have while messages are added.
LEMMA ConsumersFramed ==
    ASSUME FlowInv, stream \subseteq stream', UNCHANGED <<workVars, consumerVars, operatorVars>>
    PROVE  ConsumerSide' /\ Derived'
<1>0. UNCHANGED <<processed, effects, dead, offsets, batch, pc, attempt, replay, replays, redrives>>
  BY DEF workVars, consumerVars, operatorVars
<1>1. batch' \in [Groups -> Seq(stream')]
  <2>1. batch \in [Groups -> Seq(stream)]  BY DEF FlowInv, ConsumerSide
  <2>2. Seq(stream) \subseteq Seq(stream')  BY SeqMonotonic
  <2>. QED  BY <1>0, <2>1, <2>2
<1>2. ConsumerSide'  BY <1>0, <1>1 DEF FlowInv, ConsumerSide
<1>3. \A t, e : InStream(t, e) => InStream(t, e)'  BY DEF InStream
<1>4. \A g : Event(g)' = Event(g)  BY <1>0 DEF Event, Current
<1>5. Derived'  BY <1>0, <1>3, <1>4 DEF FlowInv, Derived
<1>. QED  BY <1>2, <1>5

\* The relays keep what they have while consumers work.
LEMMA RelaysFramed ==
    ASSUME FlowInv, UNCHANGED <<outbox, relayVars, streamVars>>
    PROVE  RelaySide' /\ Relayed' /\ Offsets' /\ \A t, e : InStream(t, e)' <=> InStream(t, e)
<1>0. UNCHANGED <<outbox, published, relayPc, claimed, sent, drawn, lastOffset, stream>>
  BY DEF relayVars, streamVars
<1>1. \A t, e : InStream(t, e)' <=> InStream(t, e)  BY <1>0 DEF InStream
<1>2. RelaySide'  BY <1>0 DEF FlowInv, RelaySide
<1>3. Relayed'  BY <1>0, <1>1 DEF FlowInv, Relayed
<1>4. Offsets'  BY <1>0 DEF FlowInv, Offsets
<1>. QED  BY <1>1, <1>2, <1>3, <1>4

\* An outbox row becomes visible.
LEMMA AppendFlow ==
    ASSUME FlowInv, NEW e \in Events, AppendOutbox(e)
    PROVE  FlowInv'
<1>0. /\ UNCHANGED <<published, relayPc, claimed, sent, drawn, lastOffset, stream>>
      /\ UNCHANGED <<workVars, consumerVars, operatorVars>> /\ outbox' = outbox \cup {e}
  BY DEF AppendOutbox, relayVars, streamVars
<1>1. ConsumerSide' /\ Derived'  BY <1>0, ConsumersFramed
<1>2. RelaySide'
  <2>1. Seq(outbox) \subseteq Seq(outbox')  BY <1>0, SeqMonotonic
  <2>2. claimed' \in [Relays -> Seq(outbox')] /\ sent' \in [Relays -> SUBSET outbox']
    BY <1>0, <2>1 DEF FlowInv, RelaySide
  <2>. QED  BY <1>0, <2>2 DEF FlowInv, RelaySide
<1>3. Relayed' /\ Offsets'  BY <1>0 DEF FlowInv, Relayed, Offsets, InStream
<1>. QED  BY <1>1, <1>2, <1>3 DEF FlowInv

\* The rows a relay may claim.
Free(r) == outbox \ (published \cup UNION {HeldBy(q) : q \in Relays \ {r}})

\* claim_unpublished takes rows of the outbox, in the order of their ids.
LEMMA ClaimedRows ==
    ASSUME FlowInv, NEW r \in Relays, ClaimUnpublished(r)
    PROVE  /\ Free(r) \in SUBSET Int /\ IsFiniteSet(Free(r)) /\ Free(r) # {}
           /\ Limit(Free(r)) \in Seq(outbox) /\ Limit(Free(r)) # <<>>
           /\ claimed'[r] = Limit(Free(r))
           /\ \A q \in Relays : q # r => claimed'[q] = claimed[q]
           /\ claimed' \in [Relays -> Seq(outbox)]
<1>1. Free(r) \subseteq outbox /\ outbox \subseteq Events  BY DEF Free, FlowInv, RelaySide
<1>2. IsFiniteSet(Events) /\ Events \subseteq Int
  BY EventsAssumption, FS_Interval DEF Events
<1>3. Free(r) \in SUBSET Events  BY <1>1
<1>4. IsFiniteSet(Free(r)) /\ Free(r) \in SUBSET Int  BY <1>2, <1>3, FS_Subset
<1>5. Free(r) # {} /\ claimed' = [claimed EXCEPT ![r] = Limit(Free(r))]
  BY DEF ClaimUnpublished, Free
<1>6. Limit(Free(r)) \in Seq(Free(r)) /\ Limit(Free(r)) # <<>>  BY <1>4, <1>5, LimitInOrder
<1>7. Limit(Free(r)) \in Seq(outbox)  BY <1>1, <1>6, SeqMonotonic
<1>8. claimed \in [Relays -> Seq(outbox)]  BY DEF FlowInv, RelaySide
<1>. QED  BY <1>4, <1>5, <1>6, <1>7, <1>8

\* The rows claimed are no message yet.
LEMMA ClaimFlow ==
    ASSUME FlowInv, NEW r \in Relays, ClaimUnpublished(r)
    PROVE  FlowInv'
<1>0. /\ UNCHANGED <<outbox, published, sent, drawn, lastOffset, stream>>
      /\ UNCHANGED <<workVars, consumerVars, operatorVars>>
      /\ relayPc' = [relayPc EXCEPT ![r] = "run"] /\ relayPc[r] = "idle"
  BY DEF ClaimUnpublished, streamVars
<1>1. ConsumerSide' /\ Derived'  BY <1>0, ConsumersFramed
<1>2. /\ claimed'[r] # <<>> /\ \A q \in Relays : q # r => claimed'[q] = claimed[q]
      /\ claimed' \in [Relays -> Seq(outbox)]
  BY ClaimedRows
<1>3. RelaySide'
  <2>1. /\ relayPc' \in [Relays -> {"idle", "run"}] /\ relayPc'[r] = "run"
        /\ \A q \in Relays : q # r => relayPc'[q] = relayPc[q]
    BY <1>0 DEF FlowInv, RelaySide
  <2>2. \A q \in Relays : /\ relayPc'[q] = "idle" => claimed'[q] = <<>> /\ sent'[q] = {}
                          /\ drawn'[q] # 0 => claimed'[q] # <<>>
    BY <1>0, <1>2, <2>1 DEF FlowInv, RelaySide
  <2>. QED  BY <1>0, <1>2, <2>1, <2>2 DEF FlowInv, RelaySide
<1>4. Relayed' /\ Offsets'  BY <1>0 DEF FlowInv, Relayed, Offsets, InStream
<1>. QED  BY <1>1, <1>3, <1>4 DEF FlowInv

\* An offset is drawn above all others.
LEMMA DrawFlow ==
    ASSUME FlowInv, NEW r \in Relays, DrawOffset(r)
    PROVE  FlowInv'
<1>0. /\ UNCHANGED <<outbox, published, relayPc, claimed, sent, stream>>
      /\ UNCHANGED <<workVars, consumerVars, operatorVars>>
      /\ claimed[r] # <<>> /\ lastOffset' = lastOffset + 1 /\ lastOffset \in Nat
      /\ drawn' = [drawn EXCEPT ![r] = lastOffset + 1] /\ drawn \in [Relays -> Nat]
  BY DEF DrawOffset, FlowInv, RelaySide
<1>1. ConsumerSide' /\ Derived'  BY <1>0, ConsumersFramed
<1>2. /\ drawn' \in [Relays -> Nat] /\ drawn'[r] = lastOffset + 1
      /\ \A q \in Relays : q # r => drawn'[q] = drawn[q]
  BY <1>0
<1>3. \A m \in stream : /\ m.event \in Events /\ m.offset \in 1 .. lastOffset
                        /\ m.topic = Ledger => m.event \in outbox
  BY DEF FlowInv, RelaySide
<1>4. \A q \in Relays : drawn[q] # 0 =>
         drawn[q] <= lastOffset /\ \A m \in stream : m.offset # drawn[q]
  BY DEF FlowInv, Offsets
<1>5. RelaySide'
  <2>1. \A m \in stream : m.offset \in 1 .. lastOffset + 1  BY <1>0, <1>3
  <2>. QED  BY <1>0, <1>2, <1>3, <2>1 DEF FlowInv, RelaySide
<1>6. Relayed'  BY <1>0 DEF FlowInv, Relayed, InStream
<1>7. Offsets'
  <2>1. ASSUME NEW q \in Relays, drawn'[q] # 0
        PROVE  drawn'[q] <= lastOffset' /\ \A m \in stream : m.offset # drawn'[q]
    <3>1. CASE q = r  BY <1>0, <1>2, <1>3, <3>1
    <3>2. CASE q # r  BY <1>0, <1>2, <1>4, <2>1, <3>2
    <3>. QED  BY <3>1, <3>2
  <2>2. ASSUME NEW p \in Relays, NEW q \in Relays, drawn'[p] = drawn'[q], drawn'[q] # 0
        PROVE  p = q
    <3>1. CASE p # r /\ q # r  BY <1>2, <2>2, <3>1 DEF FlowInv, Offsets
    <3>2. CASE p = r /\ q # r  BY <1>0, <1>2, <1>4, <2>2, <3>2
    <3>3. CASE p # r /\ q = r  BY <1>0, <1>2, <1>4, <2>2, <3>3
    <3>. QED  BY <3>1, <3>2, <3>3
  <2>. QED  BY <1>0, <2>1, <2>2 DEF FlowInv, Offsets
<1>. QED  BY <1>1, <1>5, <1>6, <1>7 DEF FlowInv

\* A ledger message that keeps the offsets apart is added: what was in the
\* stream stays there.
LEMMA MessageAdded ==
    ASSUME FlowInv, NEW r \in Relays, drawn[r] # 0, stream' = stream \cup {Message(r)},
           UNCHANGED <<outbox, lastOffset>>
    PROVE  /\ Message(r).event \in outbox /\ Message(r).event = Head(claimed[r])
           /\ Message(r).topic = Ledger /\ Message(r).offset = drawn[r]
           /\ drawn[r] \in 1 .. lastOffset
           /\ \A m \in stream' : /\ m.event \in Events /\ m.offset \in 1 .. lastOffset
                                 /\ m.topic = Ledger => m.event \in outbox
           /\ \A m, n \in stream' : m.offset = n.offset => m = n
           /\ \A t, e : InStream(t, e) => InStream(t, e)'
           /\ \A e : e = Head(claimed[r]) => InStream(Ledger, e)'
<1>1. claimed[r] \in Seq(outbox) /\ claimed[r] # <<>>  BY DEF FlowInv, RelaySide
<1>2. Head(claimed[r]) \in outbox /\ outbox \subseteq Events  BY <1>1 DEF FlowInv, RelaySide
<1>3. drawn[r] \in 1 .. lastOffset /\ \A m \in stream : m.offset # drawn[r]
  BY DEF FlowInv, RelaySide, Offsets
<1>4. /\ Message(r).event = Head(claimed[r]) /\ Message(r).topic = Ledger
      /\ Message(r).offset = drawn[r]
  BY DEF Message
<1>5. \A m \in stream' : m \in stream \/ m = Message(r)  OBVIOUS
<1>6. \A m \in stream' : /\ m.event \in Events /\ m.offset \in 1 .. lastOffset
                         /\ m.topic = Ledger => m.event \in outbox
  BY <1>2, <1>3, <1>4, <1>5 DEF FlowInv, RelaySide
<1>7. \A m, n \in stream' : m.offset = n.offset => m = n
  BY <1>3, <1>4, <1>5 DEF FlowInv, Offsets
<1>8. \A t, e : InStream(t, e) => InStream(t, e)'  BY DEF InStream
<1>9. \A e : e = Head(claimed[r]) => InStream(Ledger, e)'  BY <1>4 DEF InStream
<1>. QED  BY <1>2, <1>3, <1>4, <1>6, <1>7, <1>8, <1>9

\* What is left of a relay's offset when it is done with its message.
LEMMA OffsetsReleased ==
    ASSUME FlowInv, NEW r \in Relays, drawn' = [drawn EXCEPT ![r] = 0], UNCHANGED lastOffset,
           \A m, n \in stream' : m.offset = n.offset => m = n,
           \A m \in stream' : m \in stream \/ (drawn[r] # 0 /\ m.offset = drawn[r])
    PROVE  /\ Offsets' /\ drawn' \in [Relays -> Nat] /\ drawn'[r] = 0
           /\ \A q \in Relays : q # r => drawn'[q] = drawn[q]
<1>1. /\ drawn' \in [Relays -> Nat] /\ drawn'[r] = 0
      /\ \A q \in Relays : q # r => drawn'[q] = drawn[q]
  BY DEF FlowInv, RelaySide
<1>2. ASSUME NEW q \in Relays, drawn'[q] # 0
      PROVE  drawn'[q] <= lastOffset' /\ \A m \in stream' : m.offset # drawn'[q]
  <2>1. q # r /\ drawn'[q] = drawn[q]  BY <1>1, <1>2
  <2>2. drawn[q] <= lastOffset /\ \A m \in stream : m.offset # drawn[q]
    BY <1>2, <2>1 DEF FlowInv, Offsets
  <2>3. drawn[r] # 0 => drawn[r] # drawn[q]  BY <2>1 DEF FlowInv, Offsets
  <2>. QED  BY <2>1, <2>2, <2>3
<1>3. \A p, q \in Relays : drawn'[p] = drawn'[q] /\ drawn'[q] # 0 => p = q
  BY <1>1 DEF FlowInv, Offsets
<1>. QED  BY <1>1, <1>2, <1>3 DEF Offsets

\* A relay publishes the row at the head of its batch.
LEMMA PublishFlow ==
    ASSUME FlowInv, NEW r \in Relays, Publish(r)
    PROVE  FlowInv'
<1>0. /\ UNCHANGED <<outbox, published, relayPc, lastOffset>>
      /\ UNCHANGED <<workVars, consumerVars, operatorVars>>
      /\ drawn[r] # 0 /\ drawn' = [drawn EXCEPT ![r] = 0]
      /\ stream' = stream \cup {Message(r)}
      /\ sent' = [sent EXCEPT ![r] = @ \cup {Head(claimed[r])}]
      /\ claimed' = [claimed EXCEPT ![r] = Tail(@)]
  BY DEF Publish
<1>1. ConsumerSide' /\ Derived'  BY <1>0, ConsumersFramed
<1>2. /\ Message(r).event \in outbox /\ Message(r).event = Head(claimed[r])
      /\ Message(r).offset = drawn[r]
      /\ \A m \in stream' : /\ m.event \in Events /\ m.offset \in 1 .. lastOffset
                            /\ m.topic = Ledger => m.event \in outbox
      /\ \A m, n \in stream' : m.offset = n.offset => m = n
      /\ \A t, e : InStream(t, e) => InStream(t, e)'
      /\ \A e : e = Head(claimed[r]) => InStream(Ledger, e)'
  BY <1>0, MessageAdded
<1>3. /\ Offsets' /\ drawn' \in [Relays -> Nat] /\ drawn'[r] = 0
      /\ \A q \in Relays : q # r => drawn'[q] = drawn[q]
  BY <1>0, <1>2, OffsetsReleased
<1>4. /\ claimed \in [Relays -> Seq(outbox)] /\ sent \in [Relays -> SUBSET outbox]
      /\ claimed[r] # <<>> /\ relayPc[r] # "idle"
  BY <1>0 DEF FlowInv, RelaySide
<1>5. /\ claimed' \in [Relays -> Seq(outbox)]
      /\ \A q \in Relays : q # r => claimed'[q] = claimed[q]
  <2>1. Tail(claimed[r]) \in Seq(outbox)  BY <1>4
  <2>. QED  BY <1>0, <1>4, <2>1
<1>6. /\ sent' \in [Relays -> SUBSET outbox]
      /\ \A q \in Relays : q # r => sent'[q] = sent[q]
      /\ sent'[r] = sent[r] \cup {Head(claimed[r])}
  BY <1>0, <1>2, <1>4
<1>7. RelaySide'
  <2>1. \A q \in Relays : /\ relayPc'[q] = "idle" => claimed'[q] = <<>> /\ sent'[q] = {}
                          /\ drawn'[q] # 0 => claimed'[q] # <<>>
    BY <1>0, <1>3, <1>4, <1>5, <1>6 DEF FlowInv, RelaySide
  <2>. QED  BY <1>0, <1>2, <1>3, <1>5, <1>6, <2>1 DEF FlowInv, RelaySide
<1>8. Relayed'
  <2>1. \A e \in published' : InStream(Ledger, e)'  BY <1>0, <1>2 DEF FlowInv, Relayed
  <2>2. \A q \in Relays : \A e \in sent'[q] : InStream(Ledger, e)'
    BY <1>2, <1>6 DEF FlowInv, Relayed
  <2>. QED  BY <2>1, <2>2 DEF Relayed
<1>. QED  BY <1>1, <1>3, <1>7, <1>8 DEF FlowInv

\* A publish that fails, its message committed or not, gives the batch back.
LEMMA PublishFailsFlow ==
    ASSUME FlowInv, NEW r \in Relays, PublishFails(r)
    PROVE  FlowInv'
<1>0. /\ UNCHANGED <<outbox, published, relayPc, sent, lastOffset>>
      /\ UNCHANGED <<workVars, consumerVars, operatorVars>>
      /\ drawn[r] # 0 /\ drawn' = [drawn EXCEPT ![r] = 0]
      /\ stream' = stream \/ stream' = stream \cup {Message(r)}
      /\ claimed' = [claimed EXCEPT ![r] = <<>>]
  BY DEF PublishFails
<1>1. ConsumerSide' /\ Derived'
  <2>1. stream \subseteq stream'  BY <1>0
  <2>. QED  BY <1>0, <2>1, ConsumersFramed
<1>2. /\ \A m \in stream' : m \in stream \/ m.offset = drawn[r]
      /\ \A m \in stream' : /\ m.event \in Events /\ m.offset \in 1 .. lastOffset
                            /\ m.topic = Ledger => m.event \in outbox
      /\ \A m, n \in stream' : m.offset = n.offset => m = n
      /\ \A t, e : InStream(t, e) => InStream(t, e)'
  <2>1. CASE stream' = stream  BY <2>1 DEF FlowInv, RelaySide, Offsets, InStream
  <2>2. CASE stream' = stream \cup {Message(r)}  BY <1>0, <2>2, MessageAdded
  <2>. QED  BY <1>0, <2>1, <2>2
<1>3. /\ Offsets' /\ drawn' \in [Relays -> Nat] /\ drawn'[r] = 0
      /\ \A q \in Relays : q # r => drawn'[q] = drawn[q]
  BY <1>0, <1>2, OffsetsReleased
<1>4. /\ claimed' \in [Relays -> Seq(outbox)] /\ claimed'[r] = <<>>
      /\ \A q \in Relays : q # r => claimed'[q] = claimed[q]
  BY <1>0, EmptySeq DEF FlowInv, RelaySide
<1>5. RelaySide'
  <2>1. \A q \in Relays : /\ relayPc'[q] = "idle" => claimed'[q] = <<>> /\ sent'[q] = {}
                          /\ drawn'[q] # 0 => claimed'[q] # <<>>
    BY <1>0, <1>3, <1>4 DEF FlowInv, RelaySide
  <2>. QED  BY <1>0, <1>2, <1>3, <1>4, <2>1 DEF FlowInv, RelaySide
<1>6. Relayed'  BY <1>0, <1>2 DEF FlowInv, Relayed
<1>. QED  BY <1>1, <1>3, <1>5, <1>6 DEF FlowInv

\* A relay's transaction ends, with what it sent marked or not.
LEMMA RelayEndFlow ==
    ASSUME FlowInv, NEW r \in Relays, NEW marked, marked \subseteq sent[r], RelayEnd(r, marked)
    PROVE  FlowInv'
<1>0. /\ UNCHANGED <<outbox, lastOffset, stream>>
      /\ UNCHANGED <<workVars, consumerVars, operatorVars>>
      /\ published' = published \cup marked
      /\ relayPc' = [relayPc EXCEPT ![r] = "idle"]
      /\ claimed' = [claimed EXCEPT ![r] = <<>>]
      /\ sent' = [sent EXCEPT ![r] = {}]
      /\ drawn' = [drawn EXCEPT ![r] = 0]
  BY DEF RelayEnd, streamVars
<1>1. ConsumerSide' /\ Derived'  BY <1>0, ConsumersFramed
<1>2. /\ Offsets' /\ drawn' \in [Relays -> Nat] /\ drawn'[r] = 0
      /\ \A q \in Relays : q # r => drawn'[q] = drawn[q]
  <2>1. \A m, n \in stream' : m.offset = n.offset => m = n  BY <1>0 DEF FlowInv, Offsets
  <2>2. \A m \in stream' : m \in stream  BY <1>0
  <2>3. drawn' = [drawn EXCEPT ![r] = 0] /\ UNCHANGED lastOffset  BY <1>0
  <2>. QED  BY <2>1, <2>2, <2>3, OffsetsReleased
<1>3. /\ claimed' \in [Relays -> Seq(outbox)] /\ claimed'[r] = <<>>
      /\ \A q \in Relays : q # r => claimed'[q] = claimed[q]
  BY <1>0, EmptySeq DEF FlowInv, RelaySide
<1>4. /\ sent' \in [Relays -> SUBSET outbox] /\ sent'[r] = {}
      /\ \A q \in Relays : q # r => sent'[q] = sent[q]
      /\ relayPc' \in [Relays -> {"idle", "run"}]
      /\ \A q \in Relays : q # r => relayPc'[q] = relayPc[q]
      /\ sent[r] \subseteq outbox
  BY <1>0 DEF FlowInv, RelaySide
<1>5. RelaySide'
  <2>1. \A q \in Relays : /\ relayPc'[q] = "idle" => claimed'[q] = <<>> /\ sent'[q] = {}
                          /\ drawn'[q] # 0 => claimed'[q] # <<>>
    BY <1>2, <1>3, <1>4 DEF FlowInv, RelaySide
  <2>. QED  BY <1>0, <1>2, <1>3, <1>4, <2>1 DEF FlowInv, RelaySide
<1>6. Relayed'
  <2>1. \A t, e : InStream(t, e) => InStream(t, e)'  BY <1>0 DEF InStream
  <2>. QED  BY <1>0, <1>4, <2>1 DEF FlowInv, Relayed
<1>. QED  BY <1>1, <1>2, <1>5, <1>6 DEF FlowInv

\* A consumer moves on at the head of its batch; what it newly claims is the
\* event whose handler it has run.
LEMMA ConsumerFlow ==
    ASSUME FlowInv, NEW g \in Groups, NEW next \in ConsumerPcs \ {"finish"}, pc[g] # "idle",
           Goto(g, next), UNCHANGED streamVars,
           attempt' \in [Groups -> 1 .. MaxAttempts],
           processed' \in [Groups -> SUBSET Events],
           effects' \in [Groups -> [Events -> Nat]], dead' \in [Groups -> [Events -> Nat]],
           \A h \in Groups : \A e \in processed'[h] :
              e \in processed[h] \/ (h = g /\ e = Event(g) /\ pc[g] = "finish")
    PROVE  FlowInv'
<1>0. /\ UNCHANGED <<outbox, relayVars, offsets, batch, replay, replays, redrives>>
      /\ pc' = [pc EXCEPT ![g] = next]
  BY DEF Goto, operatorVars
<1>1. RelaySide' /\ Relayed' /\ Offsets' /\ \A t, e : InStream(t, e)' <=> InStream(t, e)
  BY <1>0, RelaysFramed
<1>2. UNCHANGED stream  BY DEF streamVars
<1>3. /\ pc' \in [Groups -> ConsumerPcs] /\ pc'[g] = next
      /\ \A h \in Groups : h # g => pc'[h] = pc[h]
  BY <1>0 DEF FlowInv, ConsumerSide
<1>4. ConsumerSide'
  <2>1. \A h \in Groups : pc'[h] # "idle" => batch'[h] # <<>>
    BY <1>0, <1>3 DEF FlowInv, ConsumerSide
  <2>. QED  BY <1>0, <1>2, <1>3, <2>1 DEF FlowInv, ConsumerSide
<1>5. ASSUME NEW h \in Groups, OutTopic[h] # NoTopic
      PROVE  /\ \A e \in processed'[h] \cap Derives : InStream(OutTopic[h], e)'
             /\ pc'[h] = "finish" /\ Event(h)' \in Derives => InStream(OutTopic[h], Event(h))'
  <2>1. /\ \A e \in processed[h] \cap Derives : InStream(OutTopic[h], e)
        /\ pc[h] = "finish" /\ Event(h) \in Derives => InStream(OutTopic[h], Event(h))
    BY <1>5 DEF FlowInv, Derived
  <2>2. Event(h)' = Event(h)  BY <1>0 DEF Event, Current
  <2>3. pc'[h] = "finish" => pc[h] = "finish"  BY <1>3
  <2>4. ASSUME NEW e \in processed'[h] \cap Derives PROVE InStream(OutTopic[h], e)
    BY <2>1
  <2>. QED  BY <1>1, <2>1, <2>2, <2>3, <2>4
<1>. QED  BY <1>1, <1>4, <1>5 DEF FlowInv, Derived

\* A consumer takes another batch, drops the head of its batch or all of it.
LEMMA BatchFlow ==
    ASSUME FlowInv, NEW g \in Groups, NEW b \in Seq(stream), NEW next \in {"idle", "claim"},
           next # "idle" => b # <<>>,
           UNCHANGED <<outbox, relayVars, streamVars, workVars, operatorVars>>,
           offsets' \in [Groups -> Int], batch' = [batch EXCEPT ![g] = b],
           pc' = [pc EXCEPT ![g] = next], attempt' = [attempt EXCEPT ![g] = 1]
    PROVE  FlowInv'
<1>0. UNCHANGED <<stream, processed, effects, dead, replay, replays, redrives>>
  BY DEF streamVars, workVars, operatorVars
<1>1. RelaySide' /\ Relayed' /\ Offsets' /\ \A t, e : InStream(t, e)' <=> InStream(t, e)
  BY RelaysFramed
<1>2. /\ pc' \in [Groups -> ConsumerPcs] /\ pc'[g] = next
      /\ \A h \in Groups : h # g => pc'[h] = pc[h] /\ batch'[h] = batch[h]
      /\ batch' \in [Groups -> Seq(stream)] /\ batch'[g] = b
  BY DEF FlowInv, ConsumerSide, ConsumerPcs
<1>3. attempt' \in [Groups -> 1 .. MaxAttempts]  BY SizeAssumption DEF FlowInv, ConsumerSide
<1>4. ConsumerSide'
  <2>1. \A h \in Groups : pc'[h] # "idle" => batch'[h] # <<>>
    BY <1>2 DEF FlowInv, ConsumerSide
  <2>. QED  BY <1>0, <1>2, <1>3, <2>1 DEF FlowInv, ConsumerSide
<1>5. ASSUME NEW h \in Groups, OutTopic[h] # NoTopic
      PROVE  /\ \A e \in processed'[h] \cap Derives : InStream(OutTopic[h], e)'
             /\ pc'[h] = "finish" /\ Event(h)' \in Derives => InStream(OutTopic[h], Event(h))'
  <2>1. /\ \A e \in processed[h] \cap Derives : InStream(OutTopic[h], e)
        /\ pc[h] = "finish" /\ Event(h) \in Derives => InStream(OutTopic[h], Event(h))
    BY <1>5 DEF FlowInv, Derived
  <2>2. CASE h = g  BY <1>0, <1>1, <1>2, <2>1, <2>2
  <2>3. CASE h # g
    <3>1. Event(h)' = Event(h)  BY <1>2, <2>3 DEF Event, Current
    <3>. QED  BY <1>0, <1>1, <1>2, <2>1, <2>3, <3>1
  <2>. QED  BY <2>2, <2>3
<1>. QED  BY <1>1, <1>4, <1>5 DEF FlowInv, Derived

\* An operator takes claims away and moves offsets; batches and handlers are
\* not disturbed.
LEMMA OperatorFlow ==
    ASSUME FlowInv, UNCHANGED <<outbox, relayVars, streamVars, effects, batch, pc, attempt>>,
           offsets' \in [Groups -> Int], dead' \in [Groups -> [Events -> Nat]],
           processed' \in [Groups -> SUBSET Events],
           \A h \in Groups : processed'[h] \subseteq processed[h],
           replays' \in Nat, redrives' \in Nat,
           replay'.pc # "idle" => replay'.group \in Groups /\ replay'.from \in ReplayFrom,
           replay'.pc = "seek" => replays' > 0
    PROVE  FlowInv'
<1>0. UNCHANGED <<stream, effects, batch, pc, attempt>>  BY DEF streamVars
<1>1. RelaySide' /\ Relayed' /\ Offsets' /\ \A t, e : InStream(t, e)' <=> InStream(t, e)
  BY RelaysFramed
<1>2. ConsumerSide'  BY <1>0 DEF FlowInv, ConsumerSide
<1>3. ASSUME NEW h \in Groups, OutTopic[h] # NoTopic
      PROVE  /\ \A e \in processed'[h] \cap Derives : InStream(OutTopic[h], e)'
             /\ pc'[h] = "finish" /\ Event(h)' \in Derives => InStream(OutTopic[h], Event(h))'
  <2>1. /\ \A e \in processed[h] \cap Derives : InStream(OutTopic[h], e)
        /\ pc[h] = "finish" /\ Event(h) \in Derives => InStream(OutTopic[h], Event(h))
    BY <1>3 DEF FlowInv, Derived
  <2>2. Event(h)' = Event(h)  BY <1>0 DEF Event, Current
  <2>. QED  BY <1>0, <1>1, <2>1, <2>2
<1>. QED  BY <1>1, <1>2, <1>3 DEF FlowInv, Derived

\* poll returns messages behind the group's offset, in the order of the stream
\* and without a gap.
LEMMA PolledInOrder ==
    ASSUME FlowInv, NEW g \in Groups, Beyond(g) # {}
    PROVE  /\ Polled(g) \in Seq(Beyond(g)) /\ Polled(g) # <<>>
           /\ \A i, j \in DOMAIN Polled(g) : i < j => Polled(g)[i].offset < Polled(g)[j].offset
           /\ \A i \in DOMAIN Polled(g), m \in Beyond(g) :
                 m.offset <= Polled(g)[i].offset => \E j \in 1 .. i : Polled(g)[j] = m
<1>. DEFINE S == {m.offset : m \in Beyond(g)}
            s == Limit(S)
            p == Polled(g)
<1>1. Beyond(g) \subseteq stream  BY DEF Beyond
<1>2. \A m \in Beyond(g) : m.offset \in 1 .. lastOffset  BY <1>1 DEF FlowInv, RelaySide
<1>3. \A m, n \in Beyond(g) : m.offset = n.offset => m = n  BY <1>1 DEF FlowInv, Offsets
<1>4. lastOffset \in Nat  BY DEF FlowInv, RelaySide
<1>5. IsFiniteSet(1 .. lastOffset) /\ 1 .. lastOffset \subseteq Int  BY <1>4, FS_Interval
<1>6. S \in SUBSET (1 .. lastOffset) /\ S # {}  BY <1>2
<1>7. IsFiniteSet(S) /\ S \in SUBSET Int  BY <1>5, <1>6, FS_Subset
<1>8. p = [i \in DOMAIN s |-> CHOOSE m \in Beyond(g) : m.offset = s[i]]  BY DEF Polled
<1>9. /\ s \in Seq(S) /\ s # <<>>
      /\ \A i, j \in DOMAIN s : i < j => s[i] < s[j]
      /\ \A i \in DOMAIN s, x \in S : x <= s[i] => \E j \in 1 .. i : s[j] = x
  BY <1>6, <1>7, LimitInOrder
<1>. HIDE DEF s, p
<1>10. Len(s) \in Nat /\ DOMAIN s = 1 .. Len(s) /\ Len(s) # 0
  <2>1. Len(s) \in Nat /\ DOMAIN s = 1 .. Len(s)  BY <1>9, LenProperties
  <2>2. Len(s) # 0  BY <1>9, EmptySeq
  <2>. QED  BY <2>1, <2>2
<1>11. ASSUME NEW i \in DOMAIN s PROVE p[i] \in Beyond(g) /\ p[i].offset = s[i]
  <2>1. s[i] \in S  BY <1>9, ElementOfSeq, <1>10
  <2>2. \E m \in Beyond(g) : m.offset = s[i]  BY <2>1
  <2>. QED  BY <1>8, <2>2
<1>12. p \in [1 .. Len(s) -> Beyond(g)]  BY <1>8, <1>10, <1>11
<1>13. p \in Seq(Beyond(g)) /\ DOMAIN p = DOMAIN s  BY <1>10, <1>12
<1>14. p # <<>>  BY <1>10, <1>12
<1>15. \A i, j \in DOMAIN p : i < j => p[i].offset < p[j].offset  BY <1>9, <1>11, <1>13
<1>16. ASSUME NEW i \in DOMAIN p, NEW m \in Beyond(g), m.offset <= p[i].offset
       PROVE  \E j \in 1 .. i : p[j] = m
  <2>1. m.offset \in S /\ m.offset <= s[i] /\ i \in DOMAIN s  BY <1>11, <1>13, <1>16
  <2>2. PICK j \in 1 .. i : s[j] = m.offset  BY <1>9, <2>1
  <2>3. j \in DOMAIN s  BY <1>10, <2>1, <2>2
  <2>. QED  BY <1>3, <1>11, <2>2, <2>3
<1>. QED  BY <1>13, <1>14, <1>15, <1>16 DEF p

\* A group polls.
LEMMA PollFlow ==
    ASSUME FlowInv, NEW g \in Groups, Poll(g)
    PROVE  FlowInv'
<1>1. Polled(g) \in Seq(Beyond(g)) /\ Polled(g) # <<>>  BY PolledInOrder DEF Poll
<1>2. Beyond(g) \subseteq stream  BY DEF Beyond
<1>3. Polled(g) \in Seq(stream)  BY <1>1, <1>2, SeqMonotonic
<1>4. offsets' \in [Groups -> Int]  BY DEF Poll, FlowInv, ConsumerSide
<1>. QED  BY <1>1, <1>3, <1>4, BatchFlow DEF Poll

\* A handler with an output topic publishes as its last statement.
LEMMA HandleFlow ==
    ASSUME FlowInv, NEW g \in Groups, Handle(g)
    PROVE  FlowInv'
<1>. DEFINE new == [offset |-> lastOffset + 1, topic |-> OutTopic[g], event |-> Event(g)]
            derives == OutTopic[g] # NoTopic /\ Event(g) \in Derives
<1>0. /\ UNCHANGED <<outbox, relayVars, offsets, batch, replay, replays, redrives>>
      /\ UNCHANGED <<workVars, attempt>> /\ UNCHANGED <<processed, effects, dead>>
      /\ UNCHANGED <<published, relayPc, claimed, sent, drawn>>
      /\ pc' = [pc EXCEPT ![g] = "finish"] /\ pc[g] = "handle"
  BY DEF Handle, Goto, operatorVars, workVars, relayVars
<1>1. Event(g) \in Events /\ lastOffset \in Nat  BY <1>0, HeadOfBatch DEF FlowInv, RelaySide
<1>2. /\ derives => lastOffset' = lastOffset + 1 /\ stream' = stream \cup {new}
      /\ ~derives => UNCHANGED <<lastOffset, stream>>
  BY DEF Handle, streamVars
<1>3. /\ new.offset = lastOffset + 1 /\ new.topic = OutTopic[g] /\ new.event = Event(g)
      /\ new.topic # Ledger
  BY TopicAssumption
<1>. HIDE DEF new
<1>4. /\ lastOffset' \in Nat /\ lastOffset <= lastOffset' /\ stream \subseteq stream'
      /\ \A m \in stream' : m \in stream \/ (m = new /\ lastOffset' = lastOffset + 1)
  BY <1>1, <1>2
<1>5. \A m \in stream : /\ m.event \in Events /\ m.offset \in 1 .. lastOffset
                        /\ m.topic = Ledger => m.event \in outbox
  BY DEF FlowInv, RelaySide
<1>6. \A t, e : InStream(t, e) => InStream(t, e)'  BY <1>4 DEF InStream
<1>7. RelaySide'
  <2>1. ASSUME NEW m \in stream'
        PROVE  /\ m.event \in Events /\ m.offset \in 1 .. lastOffset'
               /\ m.topic = Ledger => m.event \in outbox
    <3>1. CASE m \in stream  BY <1>1, <1>4, <1>5, <3>1
    <3>2. CASE m = new /\ lastOffset' = lastOffset + 1  BY <1>1, <1>3, <3>2
    <3>. QED  BY <1>4, <3>1, <3>2
  <2>. QED  BY <1>0, <1>4, <2>1 DEF FlowInv, RelaySide
<1>8. Relayed'  BY <1>0, <1>6 DEF FlowInv, Relayed
<1>9. Offsets'
  <2>1. ASSUME NEW m \in stream', NEW n \in stream', m.offset = n.offset PROVE m = n
    <3>1. CASE m \in stream /\ n \in stream  BY <2>1, <3>1 DEF FlowInv, Offsets
    <3>2. CASE m \in stream /\ n \notin stream  BY <1>1, <1>3, <1>4, <1>5, <2>1, <3>2
    <3>3. CASE m \notin stream /\ n \in stream  BY <1>1, <1>3, <1>4, <1>5, <2>1, <3>3
    <3>4. CASE m \notin stream /\ n \notin stream  BY <1>4, <3>4
    <3>. QED  BY <3>1, <3>2, <3>3, <3>4
  <2>2. ASSUME NEW r \in Relays, drawn[r] # 0
        PROVE  drawn[r] <= lastOffset' /\ \A m \in stream' : m.offset # drawn[r]
    <3>1. drawn[r] \in Nat /\ drawn[r] <= lastOffset /\ \A m \in stream : m.offset # drawn[r]
      BY <2>2 DEF FlowInv, Offsets, RelaySide
    <3>2. drawn[r] <= lastOffset'  BY <1>1, <1>4, <3>1
    <3>3. new.offset # drawn[r]  BY <1>1, <1>3, <3>1
    <3>. QED  BY <1>4, <3>1, <3>2, <3>3
  <2>. QED  BY <1>0, <2>1, <2>2 DEF FlowInv, Offsets
<1>10. /\ pc' \in [Groups -> ConsumerPcs] /\ pc'[g] = "finish"
       /\ \A h \in Groups : h # g => pc'[h] = pc[h]
  BY <1>0 DEF FlowInv, ConsumerSide, ConsumerPcs
<1>11. ConsumerSide'
  <2>1. Seq(stream) \subseteq Seq(stream')  BY <1>4, SeqMonotonic
  <2>2. batch' \in [Groups -> Seq(stream')]  BY <1>0, <2>1 DEF FlowInv, ConsumerSide
  <2>3. \A h \in Groups : pc'[h] # "idle" => batch'[h] # <<>>
    BY <1>0, <1>10 DEF FlowInv, ConsumerSide
  <2>. QED  BY <1>0, <1>10, <2>2, <2>3 DEF FlowInv, ConsumerSide
<1>12. ASSUME NEW h \in Groups, OutTopic[h] # NoTopic
       PROVE  /\ \A e \in processed'[h] \cap Derives : InStream(OutTopic[h], e)'
              /\ pc'[h] = "finish" /\ Event(h)' \in Derives => InStream(OutTopic[h], Event(h))'
  <2>1. /\ \A e \in processed[h] \cap Derives : InStream(OutTopic[h], e)
        /\ pc[h] = "finish" /\ Event(h) \in Derives => InStream(OutTopic[h], Event(h))
    BY <1>12 DEF FlowInv, Derived
  <2>2. Event(h)' = Event(h)  BY <1>0 DEF Event, Current
  <2>3. CASE h # g  BY <1>0, <1>6, <1>10, <2>1, <2>2, <2>3
  <2>4. CASE h = g
    <3>1. Event(g) \in Derives => new \in stream'  BY <1>2, <1>12, <2>4
    <3>2. \A e : e = Event(g) /\ e \in Derives => InStream(OutTopic[g], e)'  BY <1>3, <3>1 DEF InStream
    <3>. QED  BY <1>0, <1>6, <2>1, <2>2, <2>4, <3>2
  <2>. QED  BY <2>3, <2>4
<1>. QED  BY <1>7, <1>8, <1>9, <1>11, <1>12 DEF FlowInv, Derived

\* The counters of the attempts stay in their range.
LEMMA AttemptTyped ==
    ASSUME FlowInv, NEW g \in Groups, AttemptFailed(g)
    PROVE  attempt' \in [Groups -> 1 .. MaxAttempts]
<1>1. attempt \in [Groups -> 1 .. MaxAttempts]  BY DEF FlowInv, ConsumerSide
<1>2. attempt' = [attempt EXCEPT ![g] = IF @ < MaxAttempts THEN @ + 1 ELSE @]  BY DEF AttemptFailed
<1>3. (IF attempt[g] < MaxAttempts THEN attempt[g] + 1 ELSE attempt[g]) \in 1 .. MaxAttempts
  BY <1>1, SizeAssumption
<1>. QED  BY <1>1, <1>2, <1>3

\* Work commits with its claim.
LEMMA WorkTyped ==
    ASSUME FlowInv, NEW g \in Groups, CommitWork(g)
    PROVE  /\ processed' \in [Groups -> SUBSET Events]
           /\ effects' \in [Groups -> [Events -> Nat]] /\ dead' \in [Groups -> [Events -> Nat]]
           /\ \A h \in Groups : \A e \in processed'[h] :
                 e \in processed[h] \/ (h = g /\ e = Event(g) /\ pc[g] = "finish")
           /\ \A h \in Groups : processed[h] \subseteq processed'[h]
           /\ Event(g) \in processed'[g]
<1>1. pc[g] = "finish"  BY DEF CommitWork
<1>2. Event(g) \in Events  BY <1>1, HeadOfBatch
<1>3. /\ processed \in [Groups -> SUBSET Events] /\ effects \in [Groups -> [Events -> Nat]]
      /\ dead \in [Groups -> [Events -> Nat]]
  BY DEF FlowInv, ConsumerSide
<1>4. /\ processed' = [processed EXCEPT ![g] = @ \cup {Event(g)}]
      /\ effects' = [effects EXCEPT ![g][Event(g)] = @ + 1] /\ dead' = dead
  BY DEF CommitWork
<1>5. effects' \in [Groups -> [Events -> Nat]]
  <2>. DEFINE E == [effects[g] EXCEPT ![Event(g)] = @ + 1]
  <2>1. E \in [Events -> Nat]  BY <1>2, <1>3
  <2>2. effects' = [effects EXCEPT ![g] = E]  BY <1>4
  <2>. HIDE DEF E
  <2>. QED  BY <1>3, <2>1, <2>2
<1>6. /\ processed' \in [Groups -> SUBSET Events] /\ processed'[g] = processed[g] \cup {Event(g)}
      /\ \A h \in Groups : h # g => processed'[h] = processed[h]
  BY <1>2, <1>3, <1>4
<1>. QED  BY <1>1, <1>3, <1>4, <1>5, <1>6

\* A message out of attempts becomes a dead letter.
LEMMA DeadTyped ==
    ASSUME FlowInv, NEW g \in Groups, DeadLetter(g)
    PROVE  /\ dead' \in [Groups -> [Events -> Nat]] /\ dead'[g][Event(g)] > 0
           /\ \A h \in Groups, e \in Events : dead[h][e] > 0 => dead'[h][e] > 0
<1>1. pc[g] = "dead"  BY DEF DeadLetter
<1>2. Event(g) \in Events  BY <1>1, HeadOfBatch
<1>3. dead \in [Groups -> [Events -> Nat]]  BY DEF FlowInv, ConsumerSide
<1>. DEFINE D == [dead[g] EXCEPT ![Event(g)] = @ + 1]
<1>4. dead' = [dead EXCEPT ![g] = D]  BY DEF DeadLetter
<1>5. D \in [Events -> Nat] /\ D[Event(g)] > 0 /\ \A e \in Events : dead[g][e] > 0 => D[e] > 0
  BY <1>2, <1>3
<1>. HIDE DEF D
<1>6. /\ dead' \in [Groups -> [Events -> Nat]] /\ dead'[g] = D
      /\ \A h \in Groups : h # g => dead'[h] = dead[h]
  BY <1>3, <1>4, <1>5
<1>. QED  BY <1>5, <1>6

\* stream.commit drops the head of the batch.
LEMMA CommitOffsetFlow ==
    ASSUME FlowInv, NEW g \in Groups, CommitOffset(g)
    PROVE  FlowInv'
<1>1. pc[g] = "offset" /\ batch[g] \in Seq(stream) /\ batch[g] # <<>>
  BY DEF CommitOffset, FlowInv, ConsumerSide
<1>2. Tail(batch[g]) \in Seq(stream)  BY <1>1
<1>3. offsets' \in [Groups -> Int]
  <2>1. Current(g).offset \in Int  BY <1>1, HeadOfBatch
  <2>2. offsets \in [Groups -> Int]  BY DEF FlowInv, ConsumerSide
  <2>3. offsets' = [offsets EXCEPT ![g] = IF Current(g).offset > @ THEN Current(g).offset ELSE @]
    BY DEF CommitOffset
  <2>. QED  BY <2>1, <2>2, <2>3
<1>. DEFINE next == IF Tail(batch[g]) = <<>> THEN "idle" ELSE "claim"
<1>4. next \in {"idle", "claim"} /\ (next # "idle" => Tail(batch[g]) # <<>>)  OBVIOUS
<1>5. /\ batch' = [batch EXCEPT ![g] = Tail(batch[g])] /\ pc' = [pc EXCEPT ![g] = next]
      /\ attempt' = [attempt EXCEPT ![g] = 1]
      /\ UNCHANGED <<outbox, relayVars, streamVars, workVars, operatorVars>>
  BY DEF CommitOffset
<1>. HIDE DEF next
<1>. QED  BY <1>2, <1>3, <1>4, <1>5, BatchFlow

\* Every step of a group.
LEMMA ConsumerStepFlow ==
    ASSUME FlowInv, NEW g \in Groups, ConsumerStep(g)
    PROVE  FlowInv'
<1>0. /\ attempt \in [Groups -> 1 .. MaxAttempts] /\ processed \in [Groups -> SUBSET Events]
      /\ effects \in [Groups -> [Events -> Nat]] /\ dead \in [Groups -> [Events -> Nat]]
  BY DEF FlowInv, ConsumerSide
<1>1. CASE Poll(g)  BY <1>1, PollFlow
<1>2. CASE ClaimEvent(g)
  <2>. DEFINE next == IF Event(g) \in processed[g] THEN "offset" ELSE "handle"
  <2>1. next \in ConsumerPcs \ {"finish"}  BY DEF ConsumerPcs
  <2>2. /\ pc[g] # "idle" /\ Goto(g, next) /\ UNCHANGED streamVars
        /\ UNCHANGED <<processed, effects, dead, attempt>>
    BY <1>2 DEF ClaimEvent, workVars
  <2>. HIDE DEF next
  <2>. QED  BY <1>0, <2>1, <2>2, ConsumerFlow
<1>3. CASE Handle(g)  BY <1>3, HandleFlow
<1>4. CASE Finish(g)
  <2>1. /\ pc[g] # "idle" /\ Goto(g, "offset") /\ UNCHANGED streamVars
        /\ UNCHANGED attempt /\ CommitWork(g)
    BY <1>4 DEF Finish, CommitWork
  <2>2. "offset" \in ConsumerPcs \ {"finish"}  BY DEF ConsumerPcs
  <2>. QED  BY <1>0, <2>1, <2>2, WorkTyped, ConsumerFlow
<1>5. CASE FailPoison(g)
  <2>1. /\ pc[g] # "idle" /\ Goto(g, "dead") /\ UNCHANGED streamVars
        /\ UNCHANGED <<processed, effects, dead, attempt>>
    BY <1>5 DEF FailPoison, workVars
  <2>2. "dead" \in ConsumerPcs \ {"finish"}  BY DEF ConsumerPcs
  <2>. QED  BY <1>0, <2>1, <2>2, ConsumerFlow
<1>6. CASE DeadLetter(g)
  <2>1. /\ pc[g] # "idle" /\ Goto(g, "offset") /\ UNCHANGED streamVars
        /\ UNCHANGED <<processed, effects, attempt>>
    BY <1>6 DEF DeadLetter
  <2>2. "offset" \in ConsumerPcs \ {"finish"}  BY DEF ConsumerPcs
  <2>3. dead' \in [Groups -> [Events -> Nat]]  BY <1>6, DeadTyped
  <2>. QED  BY <1>0, <2>1, <2>2, <2>3, ConsumerFlow
<1>7. CASE CommitOffset(g)  BY <1>7, CommitOffsetFlow
<1>. QED  BY <1>1, <1>2, <1>3, <1>4, <1>5, <1>6, <1>7 DEF ConsumerStep

\* An attempt fails, with its work committed or not.
LEMMA AttemptFlow ==
    ASSUME FlowInv, NEW g \in Groups, FailAttempt(g) \/ CommitUnsure(g)
    PROVE  FlowInv'
<1>0. /\ processed \in [Groups -> SUBSET Events]
      /\ effects \in [Groups -> [Events -> Nat]] /\ dead \in [Groups -> [Events -> Nat]]
  BY DEF FlowInv, ConsumerSide
<1>. DEFINE next == IF attempt[g] < MaxAttempts THEN "claim" ELSE "dead"
<1>1. next \in ConsumerPcs \ {"finish"}  BY DEF ConsumerPcs
<1>2. /\ pc[g] # "idle" /\ Goto(g, next) /\ UNCHANGED streamVars
      /\ attempt' \in [Groups -> 1 .. MaxAttempts]
  BY AttemptTyped DEF FailAttempt, CommitUnsure, AttemptFailed, CommitWork
<1>. HIDE DEF next
<1>3. CASE FailAttempt(g)
  <2>1. UNCHANGED <<processed, effects, dead>>  BY <1>3 DEF FailAttempt, workVars
  <2>. QED  BY <1>0, <1>1, <1>2, <2>1, ConsumerFlow
<1>4. CASE CommitUnsure(g)
  <2>1. CommitWork(g)  BY <1>4 DEF CommitUnsure
  <2>. QED  BY <1>1, <1>2, <2>1, WorkTyped, ConsumerFlow
<1>. QED  BY <1>3, <1>4

\* What crashes and failures of the environment leave behind.
LEMMA FaultFlow ==
    ASSUME FlowInv, FaultStep
    PROVE  FlowInv'
<1>1. ASSUME NEW r \in Relays, PublishFails(r) \/ RelayCrash(r) PROVE FlowInv'
  <2>1. CASE PublishFails(r)  BY <2>1, PublishFailsFlow
  <2>2. CASE RelayCrash(r)
    <3>1. RelayEnd(r, {}) /\ {} \subseteq sent[r]  BY <2>2 DEF RelayCrash
    <3>. QED  BY <3>1, RelayEndFlow
  <2>. QED  BY <1>1, <2>1, <2>2
<1>2. ASSUME NEW g \in Groups, FailAttempt(g) \/ CommitUnsure(g) PROVE FlowInv'
  BY <1>2, AttemptFlow
<1>3. ASSUME NEW g \in Groups, ConsumerCrash(g) PROVE FlowInv'
  <2>1. <<>> \in Seq(stream)  BY EmptySeq
  <2>2. offsets' \in [Groups -> Int]  BY <1>3 DEF ConsumerCrash, FlowInv, ConsumerSide
  <2>3. /\ batch' = [batch EXCEPT ![g] = <<>>] /\ pc' = [pc EXCEPT ![g] = "idle"]
        /\ attempt' = [attempt EXCEPT ![g] = 1]
        /\ UNCHANGED <<outbox, relayVars, streamVars, workVars, operatorVars>>
    BY <1>3 DEF ConsumerCrash
  <2>. QED  BY <2>1, <2>2, <2>3, BatchFlow
<1>4. CASE ReplayCrash
  <2>1. /\ UNCHANGED <<outbox, relayVars, streamVars, effects, batch, pc, attempt>>
        /\ UNCHANGED <<processed, dead, offsets, replays, redrives>> /\ replay' = NoReplay
    BY <1>4 DEF ReplayCrash, workVars, consumerVars
  <2>2. replay'.pc = "idle"  BY <2>1 DEF NoReplay
  <2>3. /\ processed \in [Groups -> SUBSET Events] /\ dead \in [Groups -> [Events -> Nat]]
        /\ offsets \in [Groups -> Int] /\ replays \in Nat /\ redrives \in Nat
    BY DEF FlowInv, ConsumerSide
  <2>. QED  BY <2>1, <2>2, <2>3, OperatorFlow
<1>. QED  BY <1>1, <1>2, <1>3, <1>4 DEF FaultStep

\* A replay or a redrive, at whatever moment.
LEMMA OperatorStepFlow ==
    ASSUME FlowInv, OperatorStep
    PROVE  FlowInv'
<1>0. /\ processed \in [Groups -> SUBSET Events] /\ dead \in [Groups -> [Events -> Nat]]
      /\ offsets \in [Groups -> Int] /\ replays \in Nat /\ redrives \in Nat
      /\ replay.pc # "idle" => replay.group \in Groups /\ replay.from \in ReplayFrom
      /\ replay.pc = "seek" => replays > 0
  BY DEF FlowInv, ConsumerSide
<1>1. ASSUME NEW g \in Groups, NEW from \in ReplayFrom, ReplayHead(g, from) PROVE FlowInv'
  <2>1. /\ UNCHANGED <<outbox, relayVars, streamVars, effects, batch, pc, attempt>>
        /\ UNCHANGED <<processed, dead, offsets, replays, redrives>>
        /\ replay'.pc = "clear" /\ replay'.group = g /\ replay'.from = from
    BY <1>1 DEF ReplayHead, workVars, consumerVars
  <2>. QED  BY <1>0, <2>1, OperatorFlow
<1>2. CASE ReplayClear
  <2>1. /\ UNCHANGED <<outbox, relayVars, streamVars, effects, batch, pc, attempt>>
        /\ UNCHANGED <<dead, offsets, redrives>>
        /\ replays' = replays + 1 /\ replay.pc = "clear" /\ replay' = [replay EXCEPT !.pc = "seek"]
    BY <1>2 DEF ReplayClear, consumerVars
  <2>2. PICK range : processed' = [processed EXCEPT ![replay.group] = @ \ range]
    BY <1>2 DEF ReplayClear
  <2>3. /\ processed' \in [Groups -> SUBSET Events]
        /\ \A h \in Groups : processed'[h] \subseteq processed[h]
    BY <1>0, <2>1, <2>2
  <2>4. replay'.group = replay.group /\ replay'.from = replay.from  BY <2>1
  <2>5. replays' \in Nat /\ replays' > 0  BY <1>0, <2>1
  <2>. QED  BY <1>0, <2>1, <2>3, <2>4, <2>5, OperatorFlow
<1>3. CASE ReplaySeek
  <2>1. /\ UNCHANGED <<outbox, relayVars, streamVars, effects, batch, pc, attempt>>
        /\ UNCHANGED <<processed, dead, replays, redrives>>
        /\ offsets' = [offsets EXCEPT ![replay.group] = replay.from]
        /\ replay.pc = "seek" /\ replay' = NoReplay
    BY <1>3 DEF ReplaySeek, workVars
  <2>2. offsets' \in [Groups -> Int]  BY <1>0, <2>1, ReplayFromAssumption
  <2>3. replay'.pc = "idle"  BY <2>1 DEF NoReplay
  <2>. QED  BY <1>0, <2>1, <2>2, <2>3, OperatorFlow
<1>4. ASSUME NEW g \in Groups, NEW e \in Events, Redrive(g, e) PROVE FlowInv'
  <2>1. /\ UNCHANGED <<outbox, relayVars, streamVars, effects, batch, pc, attempt>>
        /\ UNCHANGED <<offsets, replay, replays>> /\ redrives' = redrives + 1
        /\ dead[g][e] > 0 /\ dead' = [dead EXCEPT ![g][e] = @ - 1]
        /\ processed' = [processed EXCEPT ![g] = @ \ {e}]
    BY <1>4 DEF Redrive, consumerVars
  <2>2. /\ processed' \in [Groups -> SUBSET Events]
        /\ \A h \in Groups : processed'[h] \subseteq processed[h]
    BY <1>0, <2>1
  <2>3. dead' \in [Groups -> [Events -> Nat]]
    <3>. DEFINE D == [dead[g] EXCEPT ![e] = @ - 1]
    <3>1. D \in [Events -> Nat]  BY <1>0, <2>1
    <3>2. dead' = [dead EXCEPT ![g] = D]  BY <2>1
    <3>. HIDE DEF D
    <3>. QED  BY <1>0, <3>1, <3>2
  <2>4. redrives' \in Nat  BY <1>0, <2>1
  <2>. QED  BY <1>0, <2>1, <2>2, <2>3, <2>4, OperatorFlow
<1>. QED  BY <1>1, <1>2, <1>3, <1>4 DEF OperatorStep

\* Every step of the pipeline, with any number of relays.
LEMMA NextFlow == FlowInv /\ [Next]_vars => FlowInv'
<1>. SUFFICES ASSUME FlowInv, [Next]_vars PROVE FlowInv'  OBVIOUS
<1>1. ASSUME NEW e \in Events, AppendOutbox(e) PROVE FlowInv'  BY <1>1, AppendFlow
<1>2. ASSUME NEW r \in Relays, RelayStep(r) PROVE FlowInv'
  <2>1. CASE MarkPublished(r)
    <3>1. RelayEnd(r, sent[r]) /\ sent[r] \subseteq sent[r]  BY <2>1 DEF MarkPublished
    <3>. QED  BY <3>1, RelayEndFlow
  <2>. QED  BY <1>2, <2>1, ClaimFlow, DrawFlow, PublishFlow DEF RelayStep
<1>3. ASSUME NEW g \in Groups, ConsumerStep(g) PROVE FlowInv'  BY <1>3, ConsumerStepFlow
<1>4. CASE FaultStep  BY <1>4, FaultFlow
<1>5. CASE OperatorStep  BY <1>5, OperatorStepFlow
<1>6. CASE UNCHANGED vars
  <2>1. /\ UNCHANGED <<outbox, relayVars, streamVars, workVars, consumerVars, operatorVars>>
        /\ stream \subseteq stream'
    BY <1>6 DEF vars, streamVars
  <2>. QED  BY <2>1, RelaysFramed, ConsumersFramed DEF FlowInv
<1>. QED  BY <1>1, <1>2, <1>3, <1>4, <1>5, <1>6 DEF Next

\* Every variable of the relays, the stream and the consumers keeps its type,
\* batches hold messages of the stream, and a row is marked only if committed.
THEOREM PipelineTypes == Spec => []TypeOK
<1>1. ASSUME FlowInv PROVE TypeOK
  <2>1. claimed \in [Relays -> Seq(Events)] /\ sent \in [Relays -> SUBSET Events]
    <3>1. Seq(outbox) \subseteq Seq(Events)  BY <1>1, SeqMonotonic DEF FlowInv, RelaySide
    <3>. QED  BY <1>1, <3>1 DEF FlowInv, RelaySide
  <2>2. \A g \in Groups : ToSet(batch[g]) \subseteq stream
    <3>1. \A g \in Groups : batch[g] \in Seq(stream)  BY <1>1 DEF FlowInv, ConsumerSide
    <3>. QED  BY <3>1 DEF ToSet
  <2>. QED  BY <1>1, <2>1, <2>2 DEF FlowInv, RelaySide, ConsumerSide, ConsumerPcs, TypeOK
<1>2. FlowInv => TypeOK  BY <1>1
<1>. QED  BY InitFlow, NextFlow, <1>2, PTL DEF Spec

\* With any number of relays, and whatever an operator does: a row marked
\* published is in the stream (relay_once publishes, then marks), and the
\* derived event of committed work is in its topic (normalizer.py publishes
\* before its transaction commits), though neither is one transaction.
THEOREM MarkedIsPublished ==
    Spec => [](/\ \A e \in published : InStream(Ledger, e)
               /\ \A g \in Groups : OutTopic[g] # NoTopic =>
                     \A e \in processed[g] \cap Derives : InStream(OutTopic[g], e))
<1>1. FlowInv => /\ \A e \in published : InStream(Ledger, e)
                 /\ \A g \in Groups : OutTopic[g] # NoTopic =>
                       \A e \in processed[g] \cap Derives : InStream(OutTopic[g], e)
  BY DEF FlowInv, Relayed, Derived
<1>. QED  BY InitFlow, NextFlow, <1>1, PTL DEF Spec

-----------------------------------------------------------------------------
(* With one relay: a group reads every message of its topic, in order.      *)

SoleRelay == \A q, r \in Relays : q = r

\* No operator has taken claims away or moved an offset.
Untouched == replays = 0 /\ redrives = 0

Settled(g, e) == e \in processed[g] \/ dead[g][e] > 0

\* A group's batch is what follows its offset in its topic, without a gap, and
\* everything up to its offset is settled.
Reading(g) ==
    /\ offsets[g] \in 0 .. lastOffset
    /\ \A i \in DOMAIN batch[g] : /\ batch[g][i].topic = InTopic[g]
                                  /\ offsets[g] < batch[g][i].offset
    /\ \A i, j \in DOMAIN batch[g] : i < j => batch[g][i].offset < batch[g][j].offset
    /\ \A i \in DOMAIN batch[g], m \in stream :
          /\ m.topic = InTopic[g]
          /\ offsets[g] < m.offset /\ m.offset <= batch[g][i].offset
          => \E j \in 1 .. i : batch[g][j] = m
    /\ pc[g] = "offset" => Settled(g, Event(g))
    /\ \A m \in stream : m.topic = InTopic[g] /\ m.offset <= offsets[g] => Settled(g, m.event)

\* The message a relay has yet to commit is above all that is visible, and no
\* reader is past it.
LedgerInOrder ==
    \A r \in Relays : drawn[r] # 0 =>
       /\ \A m \in stream : m.topic = Ledger => m.offset < drawn[r]
       /\ Untouched => \A g \in Groups : InTopic[g] = Ledger => offsets[g] < drawn[r]

ReadInOrder == Untouched => \A g \in Groups : Reading(g)

\* Nothing is read at the start.
LEMMA InitReads == Init => ReadInOrder
<1>. SUFFICES ASSUME Init PROVE ReadInOrder  OBVIOUS
<1>1. ASSUME NEW g \in Groups PROVE Reading(g)
  <2>1. batch[g] = <<>> /\ offsets[g] = 0 /\ lastOffset = 0 /\ stream = {} /\ pc[g] = "idle"
    BY DEF Init
  <2>2. DOMAIN batch[g] = {} /\ offsets[g] \in 0 .. lastOffset  BY <2>1
  <2>. QED  BY <2>1, <2>2 DEF Reading
<1>. QED  BY <1>1 DEF ReadInOrder

\* A group goes on reading while messages are added above what it has polled.
LEMMA KeepsReading ==
    ASSUME FlowInv, NEW g \in Groups, Reading(g), stream \subseteq stream',
           lastOffset' \in Nat, lastOffset <= lastOffset',
           batch'[g] = batch[g], offsets'[g] = offsets[g],
           \A e \in Events : Settled(g, e) => Settled(g, e)',
           pc'[g] = "offset" => pc[g] = "offset" \/ \A e \in Events : e = Event(g) => Settled(g, e)',
           pc[g] # "idle" \/ pc'[g] # "offset",
           \A m \in stream' \ stream : m.topic = InTopic[g] =>
              /\ m.offset \in Int /\ offsets[g] < m.offset
              /\ \A i \in DOMAIN batch[g] : batch[g][i].offset < m.offset
    PROVE  Reading(g)'
<1>1. offsets'[g] \in 0 .. lastOffset'
  <2>1. offsets[g] \in 0 .. lastOffset /\ lastOffset \in Nat  BY DEF Reading, FlowInv, RelaySide
  <2>. QED  BY <2>1
<1>2. batch[g] \in Seq(stream) /\ \A m \in stream : m.event \in Events /\ m.offset \in Nat
  BY DEF FlowInv, ConsumerSide, RelaySide
<1>3. \A i \in DOMAIN batch[g] : batch[g][i] \in stream  BY <1>2
<1>4. ASSUME NEW i \in DOMAIN batch'[g], NEW m \in stream',
             m.topic = InTopic[g], offsets'[g] < m.offset, m.offset <= batch'[g][i].offset
      PROVE  \E j \in 1 .. i : batch'[g][j] = m
  <2>1. CASE m \in stream  BY <1>4, <2>1 DEF Reading
  <2>2. CASE m \notin stream
    <3>1. batch[g][i].offset < m.offset /\ m.offset \in Int  BY <1>4, <2>2
    <3>2. batch[g][i].offset \in Nat  BY <1>2, <1>3
    <3>. QED  BY <1>4, <3>1, <3>2
  <2>. QED  BY <2>1, <2>2
<1>5. pc'[g] = "offset" => Settled(g, Event(g))'
  <2>. SUFFICES ASSUME pc'[g] = "offset" PROVE Settled(g, Event(g))'  OBVIOUS
  <2>1. Event(g)' = Event(g)  BY DEF Event, Current
  <2>2. Event(g) \in Events  BY HeadOfBatch
  <2>3. \A e \in Events : e = Event(g) => Settled(g, e)'  BY DEF Reading
  <2>. QED  BY <2>1, <2>2, <2>3 DEF Settled
<1>6. ASSUME NEW m \in stream', m.topic = InTopic[g], m.offset <= offsets'[g]
      PROVE  Settled(g, m.event)'
  <2>1. m \in stream
    <3>1. offsets[g] \in Int  BY DEF FlowInv, ConsumerSide
    <3>. QED  BY <1>6, <3>1
  <2>2. Settled(g, m.event) /\ m.event \in Events  BY <1>2, <1>6, <2>1 DEF Reading
  <2>. QED  BY <2>2
<1>7. \A i \in DOMAIN batch'[g] : /\ batch'[g][i].topic = InTopic[g]
                                  /\ offsets'[g] < batch'[g][i].offset
  BY DEF Reading
<1>8. \A i, j \in DOMAIN batch'[g] : i < j => batch'[g][i].offset < batch'[g][j].offset
  BY DEF Reading
<1>. QED  BY <1>1, <1>4, <1>5, <1>6, <1>7, <1>8 DEF Reading

\* The offset advances by one message, and that message is settled.
LEMMA CommitReading ==
    ASSUME FlowInv, NEW g \in Groups, Reading(g), CommitOffset(g)
    PROVE  Reading(g)' /\ offsets'[g] = Current(g).offset /\ Current(g).topic = InTopic[g]
<1>0. /\ pc[g] = "offset" /\ UNCHANGED <<stream, lastOffset, processed, dead>>
      /\ batch'[g] = Tail(batch[g]) /\ pc'[g] # "offset"
      /\ offsets'[g] = IF Current(g).offset > offsets[g] THEN Current(g).offset ELSE offsets[g]
  BY DEF CommitOffset, FlowInv, ConsumerSide, streamVars, workVars
<1>1. /\ batch[g] \in Seq(stream) /\ batch[g] # <<>> /\ offsets[g] \in Int /\ lastOffset \in Nat
      /\ \A m \in stream : m.event \in Events /\ m.offset \in 1 .. lastOffset
  BY <1>0 DEF FlowInv, ConsumerSide, RelaySide
<1>2. /\ Current(g) \in stream /\ Current(g) = batch[g][1] /\ 1 \in DOMAIN batch[g]
      /\ Current(g).offset \in 1 .. lastOffset
  BY <1>0, HeadOfBatch
<1>3. /\ Current(g).topic = InTopic[g] /\ offsets[g] < Current(g).offset
      /\ Settled(g, Event(g))
  BY <1>0, <1>2 DEF Reading
<1>4. offsets'[g] = Current(g).offset  BY <1>0, <1>1, <1>2, <1>3
<1>5. /\ DOMAIN batch[g] = 1 .. Len(batch[g]) /\ Len(batch[g]) \in Nat
      /\ DOMAIN batch'[g] = 1 .. Len(batch[g]) - 1
      /\ \A i \in 1 .. Len(batch[g]) - 1 : batch'[g][i] = batch[g][i + 1]
  BY <1>0, <1>1
<1>6. \A i \in DOMAIN batch'[g] : /\ i + 1 \in DOMAIN batch[g] /\ 1 < i + 1
                                  /\ batch'[g][i] = batch[g][i + 1]
  BY <1>5
<1>7. \A i \in DOMAIN batch'[g] : /\ batch'[g][i].topic = InTopic[g]
                                  /\ offsets'[g] < batch'[g][i].offset
  BY <1>2, <1>4, <1>6 DEF Reading
<1>8. ASSUME NEW i \in DOMAIN batch'[g], NEW j \in DOMAIN batch'[g], i < j
      PROVE  batch'[g][i].offset < batch'[g][j].offset
  <2>1. i + 1 < j + 1  BY <1>5, <1>8
  <2>. QED  BY <1>6, <2>1 DEF Reading
<1>9. ASSUME NEW i \in DOMAIN batch'[g], NEW m \in stream,
             m.topic = InTopic[g], offsets'[g] < m.offset, m.offset <= batch'[g][i].offset
      PROVE  \E j \in 1 .. i : batch'[g][j] = m
  <2>1. offsets[g] < m.offset  BY <1>1, <1>2, <1>3, <1>4, <1>9
  <2>2. m.offset <= batch[g][i + 1].offset /\ i + 1 \in DOMAIN batch[g]  BY <1>6, <1>9
  <2>3. PICK j \in 1 .. i + 1 : batch[g][j] = m  BY <1>9, <2>1, <2>2 DEF Reading
  <2>4. j # 1  BY <1>1, <1>2, <1>4, <1>9, <2>3
  <2>5. j - 1 \in 1 .. i /\ j - 1 \in 1 .. Len(batch[g]) - 1 /\ (j - 1) + 1 = j
    BY <1>5, <2>2, <2>3, <2>4
  <2>. QED  BY <1>5, <2>3, <2>5
<1>10. \A e : Settled(g, e)' <=> Settled(g, e)  BY <1>0 DEF Settled
<1>11. ASSUME NEW m \in stream, m.topic = InTopic[g], m.offset <= offsets'[g]
       PROVE  Settled(g, m.event)
  <2>1. CASE m.offset <= offsets[g]  BY <1>11, <2>1 DEF Reading
  <2>2. CASE ~(m.offset <= offsets[g])
    <3>1. offsets[g] < m.offset /\ m.offset <= batch[g][1].offset
      BY <1>1, <1>2, <1>4, <1>11, <2>2
    <3>2. \E j \in 1 .. 1 : batch[g][j] = m  BY <1>2, <1>11, <3>1 DEF Reading
    <3>3. m = Current(g)  BY <1>2, <3>2
    <3>. QED  BY <1>3, <3>3 DEF Event
  <2>. QED  BY <2>1, <2>2
<1>12. offsets'[g] \in 0 .. lastOffset  BY <1>1, <1>2, <1>4
<1>. QED  BY <1>0, <1>3, <1>4, <1>7, <1>8, <1>9, <1>10, <1>11, <1>12 DEF Reading

\* A batch is polled, or forgotten, at the group's offset.
LEMMA PollReading ==
    ASSUME FlowInv, NEW g \in Groups, Reading(g), Poll(g) \/ ConsumerCrash(g)
    PROVE  Reading(g)'
<1>0. /\ UNCHANGED <<stream, lastOffset, processed, dead, offsets>> /\ pc'[g] # "offset"
      /\ batch'[g] = <<>> \/ (batch'[g] = Polled(g) /\ Beyond(g) # {})
  BY DEF Poll, ConsumerCrash, FlowInv, ConsumerSide, streamVars, workVars
<1>1. \A e : Settled(g, e)' <=> Settled(g, e)  BY <1>0 DEF Settled
<1>2. /\ offsets'[g] \in 0 .. lastOffset'
      /\ \A m \in stream' : m.topic = InTopic[g] /\ m.offset <= offsets'[g] => Settled(g, m.event)'
  BY <1>0, <1>1 DEF Reading
<1>3. CASE batch'[g] = <<>>
  <2>1. DOMAIN batch'[g] = {}  BY <1>3
  <2>. QED  BY <1>0, <1>2, <2>1 DEF Reading
<1>4. CASE batch'[g] = Polled(g) /\ Beyond(g) # {}
  <2>1. /\ batch'[g] \in Seq(Beyond(g))
        /\ \A i, j \in DOMAIN batch'[g] : i < j => batch'[g][i].offset < batch'[g][j].offset
        /\ \A i \in DOMAIN batch'[g], m \in Beyond(g) :
              m.offset <= batch'[g][i].offset => \E j \in 1 .. i : batch'[g][j] = m
    BY <1>4, PolledInOrder
  <2>2. \A i \in DOMAIN batch'[g] : batch'[g][i] \in Beyond(g)  BY <2>1
  <2>3. \A m \in stream : /\ m.offset \in Int
                          /\ m \in Beyond(g) <=> m.topic = InTopic[g] /\ offsets[g] < m.offset
    BY DEF Beyond, FlowInv, RelaySide, ConsumerSide
  <2>4. Beyond(g) \subseteq stream  BY DEF Beyond
  <2>. QED  BY <1>0, <1>2, <2>1, <2>2, <2>3, <2>4 DEF Reading
<1>. QED  BY <1>0, <1>3, <1>4

\* Steps of consumers and operators add no message of the ledger topic.
LEMMA ReadersInOrder ==
    ASSUME FlowInv, LedgerInOrder, ReadInOrder, UNCHANGED <<drawn, lastOffset, stream>>,
           Untouched' => Untouched,
           \A g \in Groups : Untouched' /\ Reading(g) =>
              /\ Reading(g)'
              /\ \/ offsets'[g] = offsets[g]
                 \/ \E m \in stream : m.topic = InTopic[g] /\ m.offset = offsets'[g]
    PROVE  LedgerInOrder' /\ ReadInOrder'
<1>1. ReadInOrder'  BY DEF ReadInOrder
<1>2. ASSUME NEW r \in Relays, drawn'[r] # 0
      PROVE  /\ \A m \in stream' : m.topic = Ledger => m.offset < drawn'[r]
             /\ Untouched' => \A g \in Groups : InTopic[g] = Ledger => offsets'[g] < drawn'[r]
  <2>1. \A m \in stream : m.topic = Ledger => m.offset < drawn[r]  BY <1>2 DEF LedgerInOrder
  <2>2. ASSUME Untouched', NEW g \in Groups, InTopic[g] = Ledger PROVE offsets'[g] < drawn[r]
    <3>1. Untouched /\ Reading(g)  BY <2>2 DEF ReadInOrder
    <3>2. offsets[g] < drawn[r]  BY <1>2, <2>2, <3>1 DEF LedgerInOrder
    <3>. QED  BY <2>1, <2>2, <3>1, <3>2
  <2>. QED  BY <2>1, <2>2
<1>. QED  BY <1>1, <1>2 DEF LedgerInOrder

\* Whatever a consumer does, what is settled stays so; other groups are left
\* alone.
LEMMA ConsumerSettles ==
    ASSUME FlowInv, NEW g \in Groups,
           ConsumerStep(g) \/ FailAttempt(g) \/ CommitUnsure(g) \/ ConsumerCrash(g)
    PROVE  /\ \A h \in Groups, e \in Events : Settled(h, e) => Settled(h, e)'
           /\ UNCHANGED <<outbox, published, claimed, sent, drawn, replays, redrives>>
           /\ \A h \in Groups : h # g => /\ batch'[h] = batch[h] /\ offsets'[h] = offsets[h]
                                         /\ pc'[h] = pc[h]
<1>0. /\ pc \in [Groups -> ConsumerPcs] /\ batch \in [Groups -> Seq(stream)]
      /\ offsets \in [Groups -> Int]
  BY DEF FlowInv, ConsumerSide
<1>1. UNCHANGED <<outbox, published, claimed, sent, drawn, replays, redrives>>
  BY DEF ConsumerStep, Poll, ClaimEvent, Handle, Finish, FailPoison, DeadLetter, CommitOffset,
         FailAttempt, CommitUnsure, AttemptFailed, ConsumerCrash, Goto, relayVars, operatorVars
<1>2. CASE Poll(g) \/ CommitOffset(g) \/ ConsumerCrash(g)
  <2>1. UNCHANGED <<processed, dead>>
    BY <1>2 DEF Poll, CommitOffset, ConsumerCrash, workVars
  <2>2. \A h \in Groups : h # g => /\ batch'[h] = batch[h] /\ offsets'[h] = offsets[h]
                                   /\ pc'[h] = pc[h]
    BY <1>0, <1>2 DEF Poll, CommitOffset, ConsumerCrash
  <2>. QED  BY <1>1, <2>1, <2>2 DEF Settled
<1>3. CASE ClaimEvent(g) \/ Handle(g) \/ Finish(g) \/ FailPoison(g) \/ DeadLetter(g)
           \/ FailAttempt(g) \/ CommitUnsure(g)
  <2>1. PICK next : Goto(g, next)
    BY <1>3 DEF ClaimEvent, Handle, Finish, FailPoison, DeadLetter, FailAttempt, CommitUnsure,
                AttemptFailed
  <2>2. \A h \in Groups : h # g => /\ batch'[h] = batch[h] /\ offsets'[h] = offsets[h]
                                   /\ pc'[h] = pc[h]
    BY <1>0, <2>1 DEF Goto
  <2>3. CASE ClaimEvent(g) \/ Handle(g) \/ FailPoison(g) \/ FailAttempt(g)
    <3>1. UNCHANGED <<processed, dead>>
      BY <2>3 DEF ClaimEvent, Handle, FailPoison, FailAttempt, workVars
    <3>. QED  BY <1>1, <2>2, <3>1 DEF Settled
  <2>4. CASE Finish(g) \/ CommitUnsure(g)
    <3>1. CommitWork(g)  BY <2>4 DEF Finish, CommitUnsure
    <3>2. UNCHANGED dead  BY <3>1 DEF CommitWork
    <3>3. \A h \in Groups : processed[h] \subseteq processed'[h]  BY <3>1, WorkTyped
    <3>. QED  BY <1>1, <2>2, <3>2, <3>3 DEF Settled
  <2>5. CASE DeadLetter(g)
    <3>1. UNCHANGED processed  BY <2>5 DEF DeadLetter
    <3>2. \A h \in Groups, e \in Events : dead[h][e] > 0 => dead'[h][e] > 0  BY <2>5, DeadTyped
    <3>. QED  BY <1>1, <2>2, <3>1, <3>2 DEF Settled
  <2>. QED  BY <1>3, <2>3, <2>4, <2>5
<1>. QED  BY <1>2, <1>3 DEF ConsumerStep

\* A group reaches the commit of its offset only with its message settled.
LEMMA SettledAtOffset ==
    ASSUME FlowInv, NEW g \in Groups,
           ClaimEvent(g) \/ Handle(g) \/ Finish(g) \/ FailPoison(g) \/ DeadLetter(g)
              \/ FailAttempt(g) \/ CommitUnsure(g)
    PROVE  /\ pc'[g] = "offset" => \A e \in Events : e = Event(g) => Settled(g, e)'
           /\ pc[g] # "idle" /\ batch'[g] = batch[g] /\ offsets'[g] = offsets[g]
<1>0. pc \in [Groups -> ConsumerPcs]  BY DEF FlowInv, ConsumerSide
<1>1. CASE ClaimEvent(g)
  BY <1>0, <1>1 DEF ClaimEvent, Goto, workVars, Settled
<1>2. CASE Handle(g) \/ FailPoison(g)
  BY <1>0, <1>2 DEF Handle, FailPoison, Goto
<1>3. CASE FailAttempt(g) \/ CommitUnsure(g)
  BY <1>0, <1>3 DEF FailAttempt, CommitUnsure, CommitWork, AttemptFailed, Goto
<1>4. CASE Finish(g)
  <2>1. Event(g) \in processed'[g]  BY <1>4, WorkTyped DEF Finish
  <2>. QED  BY <1>4, <2>1 DEF Finish, CommitWork, Goto, Settled
<1>5. CASE DeadLetter(g)
  <2>1. dead'[g][Event(g)] > 0  BY <1>5, DeadTyped
  <2>. QED  BY <1>5, <2>1 DEF DeadLetter, Goto, Settled
<1>. QED  BY <1>1, <1>2, <1>3, <1>4, <1>5

\* A consumer's step keeps every group's place in its topic.
LEMMA ConsumerInOrder ==
    ASSUME FlowInv, LedgerInOrder, ReadInOrder, NEW g \in Groups,
           ConsumerStep(g) \/ FailAttempt(g) \/ CommitUnsure(g) \/ ConsumerCrash(g)
    PROVE  LedgerInOrder' /\ ReadInOrder'
<1>0. /\ \A h \in Groups, e \in Events : Settled(h, e) => Settled(h, e)'
      /\ UNCHANGED <<drawn, replays, redrives>>
      /\ \A h \in Groups : h # g => /\ batch'[h] = batch[h] /\ offsets'[h] = offsets[h]
                                    /\ pc'[h] = pc[h]
  BY ConsumerSettles
<1>1. /\ Untouched' <=> Untouched
      /\ lastOffset \in Nat /\ \A m \in stream : m.offset \in 1 .. lastOffset
      /\ \A h \in Groups : batch[h] \in Seq(stream)
      /\ \A h \in Groups : pc[h] # "idle" \/ pc[h] # "offset"
  BY <1>0 DEF Untouched, FlowInv, RelaySide, ConsumerSide
<1>2. CASE Handle(g)
  <2>1. /\ lastOffset' \in Nat /\ lastOffset <= lastOffset' /\ stream \subseteq stream'
        /\ \A m \in stream' \ stream : m.offset = lastOffset + 1 /\ m.topic = OutTopic[g]
    BY <1>1, <1>2 DEF Handle, streamVars
  <2>2. ASSUME NEW h \in Groups, Reading(h) PROVE Reading(h)' /\ offsets'[h] = offsets[h]
    <3>1. /\ batch'[h] = batch[h] /\ offsets'[h] = offsets[h]
          /\ pc'[h] = "offset" => pc[h] = "offset" \/ \A e \in Events : e = Event(h) => Settled(h, e)'
          /\ pc[h] # "idle" \/ pc'[h] # "offset"
      <4>1. CASE h = g  BY <1>2, <4>1, SettledAtOffset
      <4>2. CASE h # g  BY <1>0, <1>1, <4>2
      <4>. QED  BY <4>1, <4>2
    <3>2. \A i \in DOMAIN batch[h] : batch[h][i].offset \in 1 .. lastOffset
      <4>1. \A i \in DOMAIN batch[h] : batch[h][i] \in stream  BY <1>1
      <4>. QED  BY <1>1, <4>1
    <3>3. offsets[h] \in 0 .. lastOffset  BY <2>2 DEF Reading
    <3>4. \A m \in stream' \ stream : /\ m.offset \in Int /\ offsets[h] < m.offset
                                      /\ \A i \in DOMAIN batch[h] : batch[h][i].offset < m.offset
      BY <1>1, <2>1, <3>2, <3>3
    <3>. QED  BY <1>0, <2>1, <2>2, <3>1, <3>4, KeepsReading
  <2>3. ReadInOrder'  BY <1>1, <2>2 DEF ReadInOrder
  <2>4. ASSUME NEW r \in Relays, drawn'[r] # 0
        PROVE  /\ \A m \in stream' : m.topic = Ledger => m.offset < drawn'[r]
               /\ Untouched' => \A h \in Groups : InTopic[h] = Ledger => offsets'[h] < drawn'[r]
    <3>1. /\ \A m \in stream : m.topic = Ledger => m.offset < drawn[r]
          /\ Untouched => \A h \in Groups : InTopic[h] = Ledger => offsets[h] < drawn[r]
      BY <1>0, <2>4 DEF LedgerInOrder
    <3>2. \A m \in stream' : m.topic = Ledger => m \in stream  BY <2>1, TopicAssumption
    <3>. QED  BY <1>0, <1>1, <2>2, <3>1, <3>2 DEF ReadInOrder
  <2>. QED  BY <2>3, <2>4 DEF LedgerInOrder
<1>3. CASE ~Handle(g)
  <2>1. UNCHANGED <<lastOffset, stream>>
    BY <1>3 DEF ConsumerStep, Poll, ClaimEvent, Finish, FailPoison, DeadLetter, CommitOffset,
                FailAttempt, CommitUnsure, CommitWork, ConsumerCrash, streamVars
  <2>2. ASSUME NEW h \in Groups, Reading(h)
        PROVE  /\ Reading(h)'
               /\ \/ offsets'[h] = offsets[h]
                  \/ \E m \in stream : m.topic = InTopic[h] /\ m.offset = offsets'[h]
    <3>1. CASE h = g /\ CommitOffset(g)
      <4>1. Current(g) \in stream  BY <3>1, HeadOfBatch DEF CommitOffset
      <4>. QED  BY <2>2, <3>1, <4>1, CommitReading
    <3>2. CASE h = g /\ (Poll(g) \/ ConsumerCrash(g))
      <4>1. UNCHANGED offsets  BY <3>2 DEF Poll, ConsumerCrash
      <4>. QED  BY <2>2, <3>2, <4>1, PollReading
    <3>3. CASE h = g /\ ~CommitOffset(g) /\ ~Poll(g) /\ ~ConsumerCrash(g)
      <4>1. ClaimEvent(g) \/ Handle(g) \/ Finish(g) \/ FailPoison(g) \/ DeadLetter(g)
              \/ FailAttempt(g) \/ CommitUnsure(g)
        BY <3>3 DEF ConsumerStep
      <4>2. /\ pc'[h] = "offset" => \A e \in Events : e = Event(h) => Settled(h, e)'
            /\ pc[h] # "idle" /\ batch'[h] = batch[h] /\ offsets'[h] = offsets[h]
        BY <3>3, <4>1, SettledAtOffset
      <4>3. stream \subseteq stream' /\ lastOffset' \in Nat /\ lastOffset <= lastOffset'
            /\ stream' \ stream = {}
        BY <1>1, <2>1
      <4>. QED  BY <1>0, <2>2, <4>2, <4>3, KeepsReading
    <3>4. CASE h # g
      <4>1. stream \subseteq stream' /\ lastOffset' \in Nat /\ lastOffset <= lastOffset'
            /\ stream' \ stream = {}
        BY <1>1, <2>1
      <4>2. batch'[h] = batch[h] /\ offsets'[h] = offsets[h] /\ pc'[h] = pc[h]  BY <1>0, <3>4
      <4>. QED  BY <1>0, <1>1, <2>2, <4>1, <4>2, KeepsReading
    <3>. QED  BY <3>1, <3>2, <3>3, <3>4
  <2>. QED  BY <1>0, <1>1, <2>1, <2>2, ReadersInOrder
<1>. QED  BY <1>2, <1>3

\* A relay's steps disturb no reader: the only message they add is above all
\* that the groups of the ledger topic have seen.
LEMMA RelayInOrder ==
    ASSUME SoleRelay, FlowInv, LedgerInOrder, ReadInOrder, NEW r \in Relays,
           UNCHANGED <<workVars, consumerVars, operatorVars>>,
           lastOffset' \in Nat, lastOffset <= lastOffset', stream \subseteq stream',
           \A m \in stream' \ stream :
              drawn[r] # 0 /\ m.topic = Ledger /\ m.offset = drawn[r] /\ drawn'[r] = 0,
           drawn'[r] \in {0, drawn[r], lastOffset + 1}
    PROVE  LedgerInOrder' /\ ReadInOrder'
<1>0. UNCHANGED <<processed, dead, offsets, batch, pc, replays, redrives>>
  BY DEF workVars, consumerVars, operatorVars
<1>1. /\ Untouched' <=> Untouched
      /\ \A g, e : Settled(g, e) => Settled(g, e)'
  BY <1>0 DEF Untouched, Settled
<1>2. /\ lastOffset \in Nat /\ drawn[r] \in Nat
      /\ \A m \in stream : m.offset \in 1 .. lastOffset
      /\ \A g \in Groups : batch[g] \in Seq(stream) /\ offsets[g] \in Int
  BY DEF FlowInv, RelaySide, ConsumerSide
<1>3. drawn[r] # 0 => /\ \A m \in stream : m.topic = Ledger => m.offset < drawn[r]
                      /\ Untouched => \A g \in Groups : InTopic[g] = Ledger => offsets[g] < drawn[r]
  BY DEF LedgerInOrder
<1>4. ASSUME Untouched, NEW g \in Groups PROVE Reading(g)'
  <2>1. Reading(g)  BY <1>4 DEF ReadInOrder
  <2>2. ASSUME NEW m \in stream' \ stream, m.topic = InTopic[g]
        PROVE  /\ m.offset \in Int /\ offsets[g] < m.offset
               /\ \A i \in DOMAIN batch[g] : batch[g][i].offset < m.offset
    <3>1. m.offset = drawn[r] /\ drawn[r] # 0 /\ InTopic[g] = Ledger  BY <2>2
    <3>2. \A i \in DOMAIN batch[g] : batch[g][i] \in stream /\ batch[g][i].topic = Ledger
      BY <1>2, <2>1, <3>1 DEF Reading
    <3>. QED  BY <1>2, <1>3, <1>4, <3>1, <3>2
  <2>. QED  BY <1>0, <1>1, <2>1, <2>2, KeepsReading
<1>5. ReadInOrder'  BY <1>1, <1>4 DEF ReadInOrder
<1>6. ASSUME NEW q \in Relays, drawn'[q] # 0
      PROVE  /\ \A m \in stream' : m.topic = Ledger => m.offset < drawn'[q]
             /\ Untouched' => \A g \in Groups : InTopic[g] = Ledger => offsets'[g] < drawn'[q]
  <2>1. q = r  BY DEF SoleRelay
  <2>2. stream' = stream  BY <1>6, <2>1
  <2>3. CASE drawn'[r] = drawn[r]  BY <1>0, <1>1, <1>3, <1>6, <2>1, <2>2, <2>3
  <2>4. CASE drawn'[r] = lastOffset + 1
    <3>1. \A m \in stream : m.offset < lastOffset + 1  BY <1>2
    <3>2. ASSUME Untouched, NEW g \in Groups PROVE offsets[g] < lastOffset + 1
      <4>1. offsets[g] \in 0 .. lastOffset  BY <3>2 DEF ReadInOrder, Reading
      <4>. QED  BY <1>2, <4>1
    <3>. QED  BY <1>0, <1>1, <2>1, <2>2, <2>4, <3>1, <3>2
  <2>. QED  BY <1>6, <2>1, <2>3, <2>4
<1>. QED  BY <1>5, <1>6 DEF LedgerInOrder

\* What the steps of a relay do to its offset and to the stream.
LEMMA RelayMoves ==
    ASSUME FlowInv, NEW r \in Relays, RelayStep(r) \/ PublishFails(r) \/ RelayCrash(r)
    PROVE  /\ UNCHANGED <<workVars, consumerVars, operatorVars>>
           /\ lastOffset' \in Nat /\ lastOffset <= lastOffset' /\ stream \subseteq stream'
           /\ \A m \in stream' \ stream :
                 /\ drawn[r] # 0 /\ m.topic = Ledger /\ m.offset = drawn[r] /\ drawn'[r] = 0
                 /\ m.event = Head(claimed[r])
           /\ drawn'[r] \in {0, drawn[r], lastOffset + 1}
<1>0. lastOffset \in Nat /\ drawn \in [Relays -> Nat]  BY DEF FlowInv, RelaySide
<1>1. Message(r).topic = Ledger /\ Message(r).offset = drawn[r] /\ Message(r).event = Head(claimed[r])
  BY DEF Message
<1>2. CASE ClaimUnpublished(r)  BY <1>0, <1>2 DEF ClaimUnpublished, streamVars
<1>3. CASE DrawOffset(r)  BY <1>0, <1>3 DEF DrawOffset
<1>4. CASE Publish(r)  BY <1>0, <1>1, <1>4 DEF Publish
<1>5. CASE PublishFails(r)  BY <1>0, <1>1, <1>5 DEF PublishFails
<1>6. CASE MarkPublished(r) \/ RelayCrash(r)
  BY <1>0, <1>6 DEF MarkPublished, RelayCrash, RelayEnd, streamVars
<1>. QED  BY <1>2, <1>3, <1>4, <1>5, <1>6 DEF RelayStep

\* A step of an operator takes claims away or moves an offset, and is counted,
\* or does neither.
LEMMA OperatorInOrder ==
    ASSUME FlowInv, LedgerInOrder, ReadInOrder, OperatorStep \/ ReplayCrash
    PROVE  LedgerInOrder' /\ ReadInOrder'
<1>1. UNCHANGED <<drawn, lastOffset, stream, batch, pc>>
  BY DEF OperatorStep, ReplayCrash, ReplayHead, ReplayClear, ReplaySeek, Redrive, relayVars,
         streamVars, consumerVars
<1>2. replays \in Nat /\ redrives \in Nat /\ (replay.pc = "seek" => replays > 0)
  BY DEF FlowInv, ConsumerSide
<1>3. Untouched' => Untouched /\ UNCHANGED <<processed, dead, offsets>>
  <2>1. CASE ReplayCrash  BY <2>1 DEF ReplayCrash, Untouched, workVars, consumerVars
  <2>2. ASSUME NEW g \in Groups, NEW from \in ReplayFrom, ReplayHead(g, from)
        PROVE  Untouched' => Untouched /\ UNCHANGED <<processed, dead, offsets>>
    BY <2>2 DEF ReplayHead, Untouched, workVars, consumerVars
  <2>3. CASE ReplayClear  BY <1>2, <2>3 DEF ReplayClear, Untouched
  <2>4. CASE ReplaySeek  BY <1>2, <2>4 DEF ReplaySeek, Untouched
  <2>5. ASSUME NEW g \in Groups, NEW e \in Events, Redrive(g, e)
        PROVE  Untouched' => Untouched /\ UNCHANGED <<processed, dead, offsets>>
    BY <1>2, <2>5 DEF Redrive, Untouched
  <2>. QED  BY <2>1, <2>2, <2>3, <2>4, <2>5 DEF OperatorStep
<1>4. ASSUME Untouched', NEW g \in Groups, Reading(g)
      PROVE  Reading(g)' /\ offsets'[g] = offsets[g]
  <2>1. UNCHANGED <<processed, dead, offsets>>  BY <1>3, <1>4
  <2>2. Event(g)' = Event(g)  BY <1>1 DEF Event, Current
  <2>. QED  BY <1>1, <1>4, <2>1, <2>2 DEF Reading, Settled
<1>. QED  BY <1>1, <1>3, <1>4, ReadersInOrder

\* Every step of the pipeline keeps the order, with one relay.
LEMMA NextInOrder ==
    ASSUME SoleRelay, FlowInv, LedgerInOrder, ReadInOrder, [Next]_vars
    PROVE  LedgerInOrder' /\ ReadInOrder'
<1>. DEFINE Goal == LedgerInOrder' /\ ReadInOrder'
<1>0. ASSUME UNCHANGED <<relayVars, streamVars, workVars, consumerVars, operatorVars>> PROVE Goal
  <2>1. /\ UNCHANGED <<drawn, lastOffset, stream, offsets, batch, pc, processed, dead>>
        /\ UNCHANGED <<replays, redrives>>
    BY <1>0 DEF relayVars, streamVars, workVars, consumerVars, operatorVars
  <2>2. Untouched' <=> Untouched  BY <2>1 DEF Untouched
  <2>3. ASSUME NEW g \in Groups, Reading(g) PROVE Reading(g)' /\ offsets'[g] = offsets[g]
    <3>1. Event(g)' = Event(g)  BY <2>1 DEF Event, Current
    <3>. QED  BY <2>1, <2>3, <3>1 DEF Reading, Settled
  <2>. QED  BY <2>1, <2>2, <2>3, ReadersInOrder
<1>1. ASSUME NEW e \in Events, AppendOutbox(e) PROVE Goal
  <2>1. UNCHANGED <<relayVars, streamVars, workVars, consumerVars, operatorVars>>
    BY <1>1 DEF AppendOutbox
  <2>. QED  BY <1>0, <2>1
<1>2. ASSUME NEW r \in Relays, RelayStep(r) \/ PublishFails(r) \/ RelayCrash(r) PROVE Goal
  BY <1>2, RelayMoves, RelayInOrder
<1>3. ASSUME NEW g \in Groups,
             ConsumerStep(g) \/ FailAttempt(g) \/ CommitUnsure(g) \/ ConsumerCrash(g)
      PROVE  Goal
  BY <1>3, ConsumerInOrder
<1>4. CASE OperatorStep \/ ReplayCrash  BY <1>4, OperatorInOrder
<1>5. CASE UNCHANGED vars
  <2>1. UNCHANGED <<relayVars, streamVars, workVars, consumerVars, operatorVars>>
    BY <1>5 DEF vars
  <2>. QED  BY <1>0, <2>1
<1>6. CASE FaultStep
  <2>1. ASSUME NEW r \in Relays, PublishFails(r) \/ RelayCrash(r) PROVE Goal  BY <1>2, <2>1
  <2>2. ASSUME NEW g \in Groups, FailAttempt(g) \/ CommitUnsure(g) \/ ConsumerCrash(g) PROVE Goal
    BY <1>3, <2>2
  <2>. QED  BY <1>4, <1>6, <2>1, <2>2 DEF FaultStep
<1>7. ASSUME NEW r \in Relays, RelayStep(r) PROVE Goal  BY <1>2, <1>7
<1>8. ASSUME NEW g \in Groups, ConsumerStep(g) PROVE Goal  BY <1>3, <1>8
<1>. QED  BY <1>1, <1>4, <1>5, <1>6, <1>7, <1>8 DEF Next

\* With one relay, and while no operator has replayed or redriven: crashes,
\* failed publishes and failed handlers lose nothing.  What is marked is in the
\* stream, what was derived is in its topic, and a group's offset passes a
\* message only when it is processed or in the dead letters (relay_once, poll,
\* process_one).  With two relays the run relays_skip shows the opposite.
THEOREM NothingIsLost ==
    ASSUME SoleRelay
    PROVE  Spec => [](Untouched => NothingLost)
<1>. DEFINE Inv == FlowInv /\ LedgerInOrder /\ ReadInOrder
<1>1. Init => Inv
  <2>1. Init => LedgerInOrder  BY DEF Init, LedgerInOrder
  <2>. QED  BY <2>1, InitReads, InitFlow
<1>2. Inv /\ [Next]_vars => Inv'  BY NextFlow, NextInOrder
<1>3. Inv => (Untouched => NothingLost)
  <2>. SUFFICES ASSUME Inv, Untouched PROVE NothingLost  OBVIOUS
  <2>1. \A e \in published : \E m \in stream : m.topic = Ledger /\ m.event = e
    BY DEF FlowInv, Relayed, InStream
  <2>2. \A g \in Groups : OutTopic[g] # NoTopic =>
           \A e \in processed[g] \cap Derives :
              \E m \in stream : m.topic = OutTopic[g] /\ m.event = e
    BY DEF FlowInv, Derived, InStream
  <2>3. \A g \in Groups, m \in stream :
           m.topic = InTopic[g] /\ m.offset <= offsets[g] =>
              m.event \in processed[g] \/ dead[g][m.event] > 0
    BY DEF ReadInOrder, Reading, Settled
  <2>. QED  BY <2>1, <2>2, <2>3 DEF NothingLost
<1>. HIDE DEF Inv
<1>. QED  BY <1>1, <1>2, <1>3, PTL DEF Spec

-----------------------------------------------------------------------------
(* With one relay: a serialized partition enters the stream in order.       *)

\* Whatever precedes a claimed row in its serialized partition is marked, sent,
\* or claimed before it.
ClaimsInOrder ==
    \A r \in Relays : \A i \in DOMAIN claimed[r] : \A e \in outbox :
       /\ Partition[e] = Partition[claimed[r][i]] /\ Partition[e] \in Serialized
       /\ e < claimed[r][i]
       => e \in published \cup sent[r] \/ \E j \in 1 .. i - 1 : claimed[r][j] = e

\* A row is claimed with every unpublished row before it.
LEMMA ClaimKeepsOrder ==
    ASSUME SoleRelay, FlowInv, NEW r \in Relays, ClaimUnpublished(r)
    PROVE  ClaimsInOrder'
<1>1. /\ Free(r) \in SUBSET Int /\ IsFiniteSet(Free(r)) /\ Free(r) # {}
      /\ claimed'[r] = Limit(Free(r))
  BY ClaimedRows
<1>2. UNCHANGED <<outbox, published, sent>>  BY DEF ClaimUnpublished
<1>3. Free(r) = outbox \ published
  <2>1. Relays \ {r} = {}  BY DEF SoleRelay
  <2>. QED  BY <2>1 DEF Free
<1>4. ASSUME NEW i \in DOMAIN claimed'[r], NEW e \in outbox, e < claimed'[r][i], e \notin published
      PROVE  \E j \in 1 .. i - 1 : claimed'[r][j] = e
  <2>. DEFINE s == Limit(Free(r))
  <2>1. /\ s \in Seq(Free(r))
        /\ \A k \in DOMAIN s, x \in Free(r) : x <= s[k] => \E j \in 1 .. k : s[j] = x
    BY <1>1, LimitInOrder
  <2>. HIDE DEF s
  <2>2. i \in DOMAIN s /\ s = claimed'[r]  BY <1>1, <1>4 DEF s
  <2>3. s[i] \in Free(r) /\ i \in Nat  BY <2>1, <2>2
  <2>4. e \in Free(r) /\ e \in Int /\ s[i] \in Int  BY <1>1, <1>3, <1>4, <2>3
  <2>5. e <= s[i] /\ e # s[i]  BY <1>4, <2>2, <2>4
  <2>6. PICK j \in 1 .. i : s[j] = e  BY <2>1, <2>2, <2>4, <2>5
  <2>7. j \in 1 .. i - 1  BY <2>3, <2>5, <2>6
  <2>. QED  BY <2>2, <2>6, <2>7
<1>5. \A q \in Relays : q = r  BY DEF SoleRelay
<1>. QED  BY <1>2, <1>4, <1>5 DEF ClaimsInOrder

\* The head of the batch is published; what follows it waits for it no longer.
LEMMA PublishKeepsOrder ==
    ASSUME SoleRelay, FlowInv, ClaimsInOrder, NEW r \in Relays, Publish(r)
    PROVE  ClaimsInOrder'
<1>0. /\ UNCHANGED <<outbox, published>> /\ drawn[r] # 0
      /\ sent'[r] = sent[r] \cup {Head(claimed[r])} /\ claimed'[r] = Tail(claimed[r])
  BY DEF Publish, FlowInv, RelaySide
<1>1. claimed[r] \in Seq(outbox) /\ claimed[r] # <<>>  BY <1>0 DEF FlowInv, RelaySide
<1>. DEFINE n == Len(claimed[r])
<1>2. /\ n \in Nat /\ DOMAIN claimed[r] = 1 .. n /\ DOMAIN claimed'[r] = 1 .. n - 1
      /\ \A i \in 1 .. n - 1 : claimed'[r][i] = claimed[r][i + 1]
      /\ Head(claimed[r]) = claimed[r][1]
  BY <1>0, <1>1
<1>. HIDE DEF n
<1>3. ASSUME NEW i \in DOMAIN claimed'[r], NEW e \in outbox,
             Partition[e] = Partition[claimed'[r][i]], Partition[e] \in Serialized,
             e < claimed'[r][i], e \notin published \cup sent'[r]
      PROVE  \E j \in 1 .. i - 1 : claimed'[r][j] = e
  <2>1. i + 1 \in DOMAIN claimed[r] /\ claimed'[r][i] = claimed[r][i + 1] /\ i \in 1 .. n - 1
    BY <1>2
  <2>2. e \notin published \cup sent[r] /\ e # claimed[r][1]  BY <1>0, <1>2, <1>3
  <2>3. \E j \in 1 .. (i + 1) - 1 : claimed[r][j] = e  BY <1>3, <2>1, <2>2 DEF ClaimsInOrder
  <2>4. PICK j \in 1 .. (i + 1) - 1 : claimed[r][j] = e  BY <2>3
  <2>5. j - 1 \in 1 .. i - 1 /\ j - 1 \in 1 .. n - 1 /\ (j - 1) + 1 = j  BY <1>2, <2>1, <2>2, <2>4
  <2>. QED  BY <1>2, <2>4, <2>5
<1>4. ASSUME NEW q \in Relays, NEW i \in DOMAIN claimed'[q], NEW e \in outbox',
             Partition[e] = Partition[claimed'[q][i]], Partition[e] \in Serialized,
             e < claimed'[q][i]
      PROVE  e \in published' \cup sent'[q] \/ \E j \in 1 .. i - 1 : claimed'[q][j] = e
  <2>1. q = r  BY DEF SoleRelay
  <2>2. CASE e \in published \cup sent'[r]  BY <1>0, <2>1, <2>2
  <2>3. CASE e \notin published \cup sent'[r]
    <3>1. e \in outbox  BY <1>0
    <3>2. \E j \in 1 .. i - 1 : claimed'[r][j] = e  BY <1>3, <1>4, <2>1, <2>3, <3>1
    <3>. QED  BY <2>1, <3>2
  <2>. QED  BY <2>2, <2>3
<1>. QED  BY <1>4 DEF ClaimsInOrder

\* A new row of a serialized partition comes after all that is claimed of it.
LEMMA AppendKeepsOrder ==
    ASSUME FlowInv, ClaimsInOrder, SerializedOrder, NEW d \in Events, AppendOutbox(d)
    PROVE  ClaimsInOrder' /\ SerializedOrder'
<1>0. /\ UNCHANGED <<published, claimed, sent, stream>> /\ outbox' = outbox \cup {d}
      /\ Partition[d] \in Serialized => \A f \in outbox : Partition[f] = Partition[d] => f < d
  BY DEF AppendOutbox, relayVars, streamVars
<1>1. /\ outbox \subseteq Int /\ d \in Int
      /\ \A r \in Relays : claimed[r] \in Seq(outbox)
      /\ \A m \in stream : m.topic = Ledger => m.event \in outbox
  BY EventsAssumption DEF FlowInv, RelaySide, Events
<1>2. ASSUME NEW f \in outbox, Partition[d] = Partition[f], Partition[d] \in Serialized, d < f
      PROVE  FALSE
  <2>1. f < d /\ f \in Int  BY <1>0, <1>1, <1>2
  <2>. QED  BY <1>1, <1>2, <2>1
<1>3. ASSUME NEW r \in Relays, NEW i \in DOMAIN claimed[r], NEW e \in outbox',
             Partition[e] = Partition[claimed[r][i]], Partition[e] \in Serialized, e < claimed[r][i]
      PROVE  e \in published \cup sent[r] \/ \E j \in 1 .. i - 1 : claimed[r][j] = e
  <2>1. claimed[r][i] \in outbox  BY <1>1
  <2>2. e \in outbox  BY <1>0, <1>2, <1>3, <2>1
  <2>. QED  BY <1>3, <2>2 DEF ClaimsInOrder
<1>4. ClaimsInOrder'  BY <1>0, <1>3 DEF ClaimsInOrder
<1>5. ASSUME NEW m \in stream, m.topic = Ledger, Partition[m.event] \in Serialized,
             NEW e \in outbox', Partition[e] = Partition[m.event], e < m.event
      PROVE  \E n \in stream : n.topic = Ledger /\ n.event = e /\ n.offset < m.offset
  <2>1. m.event \in outbox  BY <1>1, <1>5
  <2>2. e \in outbox  BY <1>0, <1>2, <1>5, <2>1
  <2>. QED  BY <1>5, <2>2 DEF SerializedOrder
<1>6. SerializedOrder'  BY <1>0, <1>5 DEF SerializedOrder
<1>. QED  BY <1>4, <1>6

\* A message of the relay enters the stream behind its predecessors.
LEMMA MessageInOrder ==
    ASSUME FlowInv, LedgerInOrder, ClaimsInOrder, SerializedOrder, NEW r \in Relays,
           RelayStep(r) \/ PublishFails(r) \/ RelayCrash(r)
    PROVE  SerializedOrder'
<1>0. /\ stream \subseteq stream'
      /\ \A m \in stream' \ stream :
            /\ drawn[r] # 0 /\ m.topic = Ledger /\ m.offset = drawn[r]
            /\ m.event = Head(claimed[r])
  BY RelayMoves
<1>1. UNCHANGED outbox
  BY DEF RelayStep, ClaimUnpublished, DrawOffset, Publish, MarkPublished, PublishFails, RelayCrash,
         RelayEnd
<1>2. ASSUME NEW m \in stream', m.topic = Ledger, Partition[m.event] \in Serialized,
             NEW e \in outbox, Partition[e] = Partition[m.event], e < m.event
      PROVE  \E n \in stream' : n.topic = Ledger /\ n.event = e /\ n.offset < m.offset
  <2>1. CASE m \in stream  BY <1>0, <1>2, <2>1 DEF SerializedOrder
  <2>2. CASE m \notin stream
    <3>1. drawn[r] # 0 /\ m.offset = drawn[r] /\ m.event = Head(claimed[r])  BY <1>0, <2>2
    <3>2. claimed[r] \in Seq(outbox) /\ claimed[r] # <<>>  BY <3>1 DEF FlowInv, RelaySide
    <3>3. 1 \in DOMAIN claimed[r] /\ m.event = claimed[r][1]  BY <3>1, <3>2
    <3>4. e \in published \cup sent[r] \/ \E j \in 1 .. 1 - 1 : claimed[r][j] = e
      BY <1>2, <3>3 DEF ClaimsInOrder
    <3>5. e \in published \cup sent[r]  BY <3>4
    <3>6. PICK n \in stream : n.topic = Ledger /\ n.event = e
      BY <3>5 DEF FlowInv, Relayed, InStream
    <3>7. n.offset < drawn[r]  BY <3>1, <3>6 DEF LedgerInOrder
    <3>. QED  BY <1>0, <3>1, <3>6, <3>7
  <2>. QED  BY <2>1, <2>2
<1>. QED  BY <1>1, <1>2 DEF SerializedOrder

\* Every step keeps the order of the serialized partitions, with one relay.
LEMMA NextSerialized ==
    ASSUME SoleRelay, FlowInv, LedgerInOrder, ClaimsInOrder, SerializedOrder, [Next]_vars
    PROVE  ClaimsInOrder' /\ SerializedOrder'
<1>. DEFINE Goal == ClaimsInOrder' /\ SerializedOrder'
<1>0. ASSUME UNCHANGED <<outbox, published, claimed, sent>>, stream \subseteq stream',
             \A m \in stream' \ stream : m.topic # Ledger
      PROVE  Goal
  <2>1. ClaimsInOrder'  BY <1>0 DEF ClaimsInOrder
  <2>2. ASSUME NEW m \in stream', m.topic = Ledger, Partition[m.event] \in Serialized,
               NEW e \in outbox, Partition[e] = Partition[m.event], e < m.event
        PROVE  \E n \in stream' : n.topic = Ledger /\ n.event = e /\ n.offset < m.offset
    BY <1>0, <2>2 DEF SerializedOrder
  <2>3. SerializedOrder'  BY <1>0, <2>2 DEF SerializedOrder
  <2>. QED  BY <2>1, <2>3
<1>1. ASSUME NEW e \in Events, AppendOutbox(e) PROVE Goal  BY <1>1, AppendKeepsOrder
<1>2. ASSUME NEW r \in Relays, RelayStep(r) \/ PublishFails(r) \/ RelayCrash(r) PROVE Goal
  <2>1. SerializedOrder'  BY <1>2, MessageInOrder
  <2>2. CASE ClaimUnpublished(r)  BY <2>1, <2>2, ClaimKeepsOrder
  <2>3. CASE Publish(r)  BY <2>1, <2>3, PublishKeepsOrder
  <2>4. CASE DrawOffset(r)
    <3>1. UNCHANGED <<outbox, published, claimed, sent>>  BY <2>4 DEF DrawOffset
    <3>. QED  BY <2>1, <3>1 DEF ClaimsInOrder
  <2>5. CASE PublishFails(r) \/ MarkPublished(r) \/ RelayCrash(r)
    <3>1. claimed'[r] = <<>>
      BY <2>5 DEF PublishFails, MarkPublished, RelayCrash, RelayEnd, FlowInv, RelaySide
    <3>2. \A q \in Relays : q = r  BY DEF SoleRelay
    <3>3. DOMAIN claimed'[r] = {}  BY <3>1
    <3>4. ClaimsInOrder'  BY <3>2, <3>3 DEF ClaimsInOrder
    <3>. QED  BY <2>1, <3>4
  <2>. QED  BY <1>2, <2>2, <2>3, <2>4, <2>5 DEF RelayStep
<1>3. ASSUME NEW g \in Groups,
             ConsumerStep(g) \/ FailAttempt(g) \/ CommitUnsure(g) \/ ConsumerCrash(g)
      PROVE  Goal
  <2>1. UNCHANGED <<outbox, published, claimed, sent>>  BY <1>3, ConsumerSettles
  <2>2. stream \subseteq stream' /\ \A m \in stream' \ stream : m.topic # Ledger
    <3>1. CASE Handle(g)
      <4>1. OutTopic[g] # Ledger  BY TopicAssumption
      <4>2. \A m \in stream' \ stream : m.topic = OutTopic[g]  BY <3>1 DEF Handle, streamVars
      <4>. QED  BY <3>1, <4>1, <4>2 DEF Handle, streamVars
    <3>2. CASE ~Handle(g)
      <4>1. UNCHANGED stream
        BY <1>3, <3>2 DEF ConsumerStep, Poll, ClaimEvent, Finish, FailPoison, DeadLetter,
              CommitOffset, FailAttempt, CommitUnsure, CommitWork, ConsumerCrash, streamVars
      <4>. QED  BY <4>1
    <3>. QED  BY <3>1, <3>2
  <2>. QED  BY <1>0, <2>1, <2>2
<1>4. CASE OperatorStep \/ ReplayCrash \/ UNCHANGED vars
  <2>1. UNCHANGED <<outbox, published, claimed, sent, stream>>
    BY <1>4 DEF OperatorStep, ReplayCrash, ReplayHead, ReplayClear, ReplaySeek, Redrive, relayVars,
                streamVars, vars
  <2>. QED  BY <1>0, <2>1
<1>5. CASE FaultStep
  <2>1. ASSUME NEW r \in Relays, PublishFails(r) \/ RelayCrash(r) PROVE Goal  BY <1>2, <2>1
  <2>2. ASSUME NEW g \in Groups, FailAttempt(g) \/ CommitUnsure(g) \/ ConsumerCrash(g) PROVE Goal
    BY <1>3, <2>2
  <2>. QED  BY <1>4, <1>5, <2>1, <2>2 DEF FaultStep
<1>6. ASSUME NEW r \in Relays, RelayStep(r) PROVE Goal  BY <1>2, <1>6
<1>7. ASSUME NEW g \in Groups, ConsumerStep(g) PROVE Goal  BY <1>3, <1>7
<1>. QED  BY <1>1, <1>4, <1>5, <1>6, <1>7 DEF Next

\* With one relay, whatever crashes, is published twice, replayed or redriven:
\* the events of a partition whose postings commit in order enter the stream in
\* that order, the first copy of each before any copy of a later one
\* (relay_once stops at the first row it cannot publish).
THEOREM PartitionsStayInOrder ==
    ASSUME SoleRelay
    PROVE  Spec => []SerializedOrder
<1>. DEFINE Inv == FlowInv /\ LedgerInOrder /\ ReadInOrder /\ ClaimsInOrder /\ SerializedOrder
<1>1. Init => Inv
  <2>. SUFFICES ASSUME Init PROVE Inv  OBVIOUS
  <2>1. LedgerInOrder  BY DEF Init, LedgerInOrder
  <2>2. ReadInOrder  BY InitReads
  <2>3. ASSUME NEW r \in Relays PROVE DOMAIN claimed[r] = {}
    <3>1. claimed[r] = <<>>  BY DEF Init
    <3>. QED  BY <3>1
  <2>4. ClaimsInOrder /\ SerializedOrder  BY <2>3 DEF ClaimsInOrder, SerializedOrder, Init
  <2>. QED  BY <2>1, <2>2, <2>4, InitFlow
<1>2. Inv /\ [Next]_vars => Inv'  BY NextFlow, NextInOrder, NextSerialized
<1>3. Inv => SerializedOrder  OBVIOUS
<1>. HIDE DEF Inv
<1>. QED  BY <1>1, <1>2, <1>3, PTL DEF Spec
=============================================================================
