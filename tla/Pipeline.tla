------------------------------ MODULE Pipeline ------------------------------
(***************************************************************************)
(* From the outbox to the consumers: the outbox relay, the event stream    *)
(* kept in Postgres, the consumer loop every worker shares, dead letters,  *)
(* and the two operations of an operator, replay and redrive.              *)
(*                                                                         *)
(* An event is the id of its outbox row.  Rows become visible when their   *)
(* transaction commits (WritePath), which need not be in the order of      *)
(* their ids.  A derived event (the normalizer's "<id>:norm") keeps the    *)
(* number of its source and is told apart by its topic.                    *)
(*                                                                         *)
(* publish runs on a connection of its own: a message is committed before  *)
(* and independently of the transaction that surrounds the call, and its   *)
(* offset is drawn before it is visible.                                   *)
(***************************************************************************)
EXTENDS Integers, Sequences, FiniteSets, SequencesExt

CONSTANTS
    Relays,         \* outbox relay processes
    Groups,         \* consumer groups, one process each
    InTopic,        \* group -> the topic it reads
    OutTopic,       \* group -> the topic its handler publishes to, or NoTopic
    NoTopic,
    Derives,        \* events for which a handler publishes (it has a descriptor)
    Malformed,      \* events whose payload raises PoisonMessage in a ledger consumer
    MaxEvents,      \* bound: number of outbox ids
    Partition,      \* event -> partition key
    Serialized,     \* partition keys whose events commit in the order of their ids
    BatchSize,      \* rows a relay claims, messages a consumer polls
    MaxAttempts,    \* consumer_max_attempts
    ReplayFrom,     \* from_offset of the replays an operator asks for
    MaxReplays,     \* bound: how many replays
    MaxRedrives,    \* bound: how many redrives
    MaxFaults       \* bound: crashes and failures of publish or of a handler

Events == 1 .. MaxEvents
Ledger == "ledger"

ASSUME SizeAssumption == BatchSize \in Nat \ {0} /\ MaxAttempts \in Nat \ {0}
ASSUME EventsAssumption == MaxEvents \in Nat
ASSUME ReplayFromAssumption == ReplayFrom \subseteq Int
ASSUME TopicAssumption == \A g \in Groups : InTopic[g] # OutTopic[g] /\ OutTopic[g] # Ledger

VARIABLES
    outbox,     \* committed outbox rows
    published,  \* rows with published_at set
    relayPc,    \* relay -> idle, or run while its transaction is open
    claimed,    \* relay -> rows it holds FOR UPDATE and has not tried, in order
    sent,       \* relay -> rows it has published and not yet marked
    drawn,      \* relay -> offset of its uncommitted message, 0 if none
    lastOffset, \* the BIGSERIAL of stream_messages
    stream,     \* committed stream_messages: [offset, topic, event]
    offsets,    \* group -> consumer_offsets.last_offset
    batch,      \* group -> polled messages not yet finished, in order
    pc,         \* group -> the next step of its process
    attempt,    \* group -> attempts made at the head of its batch
    processed,  \* group -> processed_events
    effects,    \* group -> event -> how often its work was committed
    dead,       \* group -> event -> unresolved dead_letters rows
    replay,     \* the replay request being served: [pc, group, from, head]
    replays,    \* replays that cleared claims so far
    redrives,   \* redrives so far
    faults      \* faults so far

relayVars == <<published, relayPc, claimed, sent, drawn>>
streamVars == <<lastOffset, stream>>
workVars == <<processed, effects, dead>>
consumerVars == <<offsets, batch, pc, attempt>>
operatorVars == <<replay, replays, redrives>>
vars == <<outbox, relayVars, streamVars, workVars, consumerVars, operatorVars, faults>>

NoReplay == [pc |-> "idle", group |-> NoTopic, from |-> 0, head |-> 0]

Fault == faults < MaxFaults /\ faults' = faults + 1

\* ORDER BY ids LIMIT BatchSize: the i-th id has i of the ids up to it.
Limit(ids) ==
    [i \in 1 .. (IF Cardinality(ids) < BatchSize THEN Cardinality(ids) ELSE BatchSize) |->
        CHOOSE x \in ids : Cardinality({y \in ids : y <= x}) = i]

\* A request commits with its outbox row (WritePath!Commit).  Postings that
\* lower a floored account hold its row lock from before the id is drawn until
\* COMMIT, so their events become visible in the order of their ids; events of
\* other partitions need not.
AppendOutbox(e) ==
    /\ e \notin outbox
    /\ Partition[e] \in Serialized =>
          \A f \in outbox : Partition[f] = Partition[e] => f < e
    /\ outbox' = outbox \cup {e}
    /\ UNCHANGED <<relayVars, streamVars, workVars, consumerVars, operatorVars, faults>>
-----------------------------------------------------------------------------
(* The relay: relay_once.                                                   *)

\* Rows another relay's open transaction holds; FOR UPDATE SKIP LOCKED.
HeldBy(r) == ToSet(claimed[r]) \cup sent[r]

ClaimUnpublished(r) ==
    LET free == outbox \ (published \cup UNION {HeldBy(q) : q \in Relays \ {r}})
    IN  /\ relayPc[r] = "idle"
        /\ free # {}
        /\ claimed' = [claimed EXCEPT ![r] = Limit(free)]
        /\ relayPc' = [relayPc EXCEPT ![r] = "run"]
        /\ UNCHANGED <<outbox, published, sent, drawn, streamVars, workVars, consumerVars, operatorVars, faults>>

\* publish: INSERT INTO stream_messages draws the offset ...
DrawOffset(r) ==
    /\ claimed[r] # <<>> /\ drawn[r] = 0
    /\ lastOffset' = lastOffset + 1
    /\ drawn' = [drawn EXCEPT ![r] = lastOffset + 1]
    /\ UNCHANGED <<outbox, published, relayPc, claimed, sent, stream, workVars, consumerVars, operatorVars, faults>>

Message(r) == [offset |-> drawn[r], topic |-> Ledger, event |-> Head(claimed[r])]

\* ... and the end of its connection block makes the message visible.
Publish(r) ==
    /\ drawn[r] # 0
    /\ stream' = stream \cup {Message(r)}
    /\ sent' = [sent EXCEPT ![r] = @ \cup {Head(claimed[r])}]
    /\ claimed' = [claimed EXCEPT ![r] = Tail(@)]
    /\ drawn' = [drawn EXCEPT ![r] = 0]
    /\ UNCHANGED <<outbox, published, relayPc, lastOffset, workVars, consumerVars, operatorVars, faults>>

\* Mutant: a row that fails is skipped and the rest of the batch goes on.
PublishFailsSkipping(r) ==
    /\ drawn[r] # 0 /\ Fault
    /\ claimed' = [claimed EXCEPT ![r] = Tail(@)]
    /\ drawn' = [drawn EXCEPT ![r] = 0]
    /\ UNCHANGED <<outbox, published, relayPc, sent, streamVars, workVars, consumerVars, operatorVars>>

\* publish raises, with the message committed or not; the loop stops there and
\* the rest of the batch is given back.
PublishFails(r) ==
    /\ drawn[r] # 0 /\ Fault
    /\ stream' \in {stream, stream \cup {Message(r)}}
    /\ claimed' = [claimed EXCEPT ![r] = <<>>]
    /\ drawn' = [drawn EXCEPT ![r] = 0]
    /\ UNCHANGED <<outbox, published, relayPc, sent, lastOffset, workVars, consumerVars, operatorVars>>

RelayEnd(r, marked) ==
    /\ published' = published \cup marked
    /\ relayPc' = [relayPc EXCEPT ![r] = "idle"]
    /\ claimed' = [claimed EXCEPT ![r] = <<>>]
    /\ sent' = [sent EXCEPT ![r] = {}]
    /\ drawn' = [drawn EXCEPT ![r] = 0]
    /\ UNCHANGED <<outbox, streamVars, workVars, consumerVars, operatorVars>>

\* mark_published and COMMIT.
MarkPublished(r) ==
    /\ relayPc[r] = "run"
    /\ claimed[r] = <<>>
    /\ RelayEnd(r, sent[r])
    /\ UNCHANGED faults

\* The relay dies: what it published stays, its rows are unlocked and unmarked.
RelayCrash(r) == relayPc[r] = "run" /\ Fault /\ RelayEnd(r, {})
-----------------------------------------------------------------------------
(* The consumer: run and process_one.                                       *)

Current(g) == Head(batch[g])
Event(g) == Current(g).event

Beyond(g) == {m \in stream : m.topic = InTopic[g] /\ m.offset > offsets[g]}

Polled(g) ==
    LET first == Limit({m.offset : m \in Beyond(g)})
    IN  [i \in DOMAIN first |-> CHOOSE m \in Beyond(g) : m.offset = first[i]]

Poll(g) ==
    /\ pc[g] = "idle"
    /\ Beyond(g) # {}
    /\ batch' = [batch EXCEPT ![g] = Polled(g)]
    /\ pc' = [pc EXCEPT ![g] = "claim"]
    /\ attempt' = [attempt EXCEPT ![g] = 1]
    /\ UNCHANGED <<outbox, relayVars, streamVars, workVars, offsets, operatorVars, faults>>

Goto(g, next) ==
    /\ pc' = [pc EXCEPT ![g] = next]
    /\ UNCHANGED <<outbox, relayVars, offsets, batch, operatorVars>>

\* claim_event: a duplicate is skipped, otherwise the handler runs.
ClaimEvent(g) ==
    /\ pc[g] = "claim"
    /\ Goto(g, IF Event(g) \in processed[g] THEN "offset" ELSE "handle")
    /\ UNCHANGED <<streamVars, workVars, attempt, faults>>

Poisons(g) == InTopic[g] = Ledger /\ Event(g) \in Malformed

\* The handler does its work in the transaction of the claim; a handler with an
\* output topic publishes as its last statement.
Handle(g) ==
    /\ pc[g] = "handle" /\ ~Poisons(g)
    /\ Goto(g, "finish")
    /\ IF OutTopic[g] # NoTopic /\ Event(g) \in Derives
       THEN /\ lastOffset' = lastOffset + 1
            /\ stream' = stream \cup
                  {[offset |-> lastOffset + 1, topic |-> OutTopic[g], event |-> Event(g)]}
       ELSE UNCHANGED streamVars
    /\ UNCHANGED <<workVars, attempt, faults>>

\* Mutant: the work commits without its claim.
FinishUnclaimed(g) ==
    /\ pc[g] = "finish"
    /\ effects' = [effects EXCEPT ![g][Event(g)] = @ + 1]
    /\ Goto(g, "offset")
    /\ UNCHANGED <<streamVars, processed, dead, attempt, faults>>

\* COMMIT of the work with its claim.
CommitWork(g) ==
    /\ pc[g] = "finish"
    /\ processed' = [processed EXCEPT ![g] = @ \cup {Event(g)}]
    /\ effects' = [effects EXCEPT ![g][Event(g)] = @ + 1]
    /\ UNCHANGED <<streamVars, dead>>

Finish(g) ==
    /\ CommitWork(g)
    /\ Goto(g, "offset")
    /\ UNCHANGED <<attempt, faults>>

\* Mutant: one attempt too many.
AttemptFailedLate(g) ==
    /\ Fault
    /\ Goto(g, IF attempt[g] <= MaxAttempts THEN "claim" ELSE "dead")
    /\ attempt' = [attempt EXCEPT ![g] = IF @ <= MaxAttempts THEN @ + 1 ELSE @]

\* An exception that is not PoisonMessage: again, until the attempts are used up.
AttemptFailed(g) ==
    /\ Fault
    /\ Goto(g, IF attempt[g] < MaxAttempts THEN "claim" ELSE "dead")
    /\ attempt' = [attempt EXCEPT ![g] = IF @ < MaxAttempts THEN @ + 1 ELSE @]

\* The claim, the handler or the COMMIT fails and the transaction is rolled back.
FailAttempt(g) ==
    /\ pc[g] \in {"claim", "handle", "finish"}
    /\ AttemptFailed(g)
    /\ UNCHANGED <<streamVars, workVars>>

\* The COMMIT takes effect, and the worker loses the connection before it is told.
CommitUnsure(g) == CommitWork(g) /\ AttemptFailed(g)

\* PoisonMessage is not retried.
FailPoison(g) ==
    /\ pc[g] = "handle" /\ Poisons(g)
    /\ Goto(g, "dead")
    /\ UNCHANGED <<streamVars, workVars, attempt, faults>>

\* Mutant: a message out of attempts is tried again.
RetryForever(g) ==
    /\ pc[g] = "dead"
    /\ Goto(g, "claim")
    /\ UNCHANGED <<streamVars, workVars, attempt, faults>>

DeadLetter(g) ==
    /\ pc[g] = "dead"
    /\ dead' = [dead EXCEPT ![g][Event(g)] = @ + 1]
    /\ Goto(g, "offset")
    /\ UNCHANGED <<streamVars, processed, effects, attempt, faults>>

\* Mutant: the offset of the whole batch is committed after its first message.
CommitBatchOffset(g) ==
    /\ pc[g] = "offset"
    /\ offsets' = [offsets EXCEPT ![g] = Last(batch[g]).offset]
    /\ batch' = [batch EXCEPT ![g] = Tail(@)]
    /\ pc' = [pc EXCEPT ![g] = IF Tail(batch[g]) = <<>> THEN "idle" ELSE "claim"]
    /\ attempt' = [attempt EXCEPT ![g] = 1]
    /\ UNCHANGED <<outbox, relayVars, streamVars, workVars, operatorVars, faults>>

\* stream.commit, with GREATEST, one message at a time.
CommitOffset(g) ==
    /\ pc[g] = "offset"
    /\ offsets' = [offsets EXCEPT ![g] = IF Current(g).offset > @ THEN Current(g).offset ELSE @]
    /\ batch' = [batch EXCEPT ![g] = Tail(@)]
    /\ pc' = [pc EXCEPT ![g] = IF Tail(batch[g]) = <<>> THEN "idle" ELSE "claim"]
    /\ attempt' = [attempt EXCEPT ![g] = 1]
    /\ UNCHANGED <<outbox, relayVars, streamVars, workVars, operatorVars, faults>>

\* The process dies, or an error outside the retry loop ends it, and it is
\* started again: the batch is forgotten and an open transaction rolled back.
ConsumerCrash(g) ==
    /\ pc[g] # "idle" /\ Fault
    /\ batch' = [batch EXCEPT ![g] = <<>>]
    /\ pc' = [pc EXCEPT ![g] = "idle"]
    /\ attempt' = [attempt EXCEPT ![g] = 1]
    /\ UNCHANGED <<outbox, relayVars, streamVars, workVars, offsets, operatorVars>>
-----------------------------------------------------------------------------
(* The operator: POST /replays and POST /dead_letters/{id}/redrive.         *)

ReplayHead(g, from) ==
    /\ replay.pc = "idle" /\ replays < MaxReplays
    /\ replay' = [pc |-> "clear", group |-> g, from |-> from,
                  head |-> IF \E m \in stream : m.topic = InTopic[g]
                           THEN Max({m.offset : m \in {n \in stream : n.topic = InTopic[g]}})
                           ELSE 0]
    /\ UNCHANGED <<outbox, relayVars, streamVars, workVars, consumerVars, replays, redrives, faults>>

\* The claims of the range are deleted in one transaction ...
ReplayClear ==
    /\ replay.pc = "clear"
    /\ LET g     == replay.group
           range == {m.event : m \in {n \in stream : /\ n.topic = InTopic[g]
                                                     /\ n.offset > replay.from
                                                     /\ n.offset <= replay.head}}
       IN  processed' = [processed EXCEPT ![g] = @ \ range]
    /\ replay' = [replay EXCEPT !.pc = "seek"]
    /\ replays' = replays + 1
    /\ UNCHANGED <<outbox, relayVars, streamVars, effects, dead, consumerVars, redrives, faults>>

\* ... and seek rewinds the group in another, without GREATEST.
ReplaySeek ==
    /\ replay.pc = "seek"
    /\ offsets' = [offsets EXCEPT ![replay.group] = replay.from]
    /\ replay' = NoReplay
    /\ UNCHANGED <<outbox, relayVars, streamVars, workVars, batch, pc, attempt, replays, redrives, faults>>

\* The API process dies while it serves a replay.
ReplayCrash ==
    /\ replay.pc # "idle" /\ Fault
    /\ replay' = NoReplay
    /\ UNCHANGED <<outbox, relayVars, streamVars, workVars, consumerVars, replays, redrives>>

\* resolve_dead_letter and release_claim.
Redrive(g, e) ==
    /\ dead[g][e] > 0 /\ redrives < MaxRedrives
    /\ dead' = [dead EXCEPT ![g][e] = @ - 1]
    /\ processed' = [processed EXCEPT ![g] = @ \ {e}]
    /\ redrives' = redrives + 1
    /\ UNCHANGED <<outbox, relayVars, streamVars, effects, consumerVars, replay, replays, faults>>
-----------------------------------------------------------------------------
Init ==
    /\ outbox = {} /\ published = {}
    /\ relayPc = [r \in Relays |-> "idle"]
    /\ claimed = [r \in Relays |-> <<>>]
    /\ sent = [r \in Relays |-> {}]
    /\ drawn = [r \in Relays |-> 0]
    /\ lastOffset = 0 /\ stream = {}
    /\ offsets = [g \in Groups |-> 0]
    /\ batch = [g \in Groups |-> <<>>]
    /\ pc = [g \in Groups |-> "idle"]
    /\ attempt = [g \in Groups |-> 1]
    /\ processed = [g \in Groups |-> {}]
    /\ effects = [g \in Groups |-> [e \in Events |-> 0]]
    /\ dead = [g \in Groups |-> [e \in Events |-> 0]]
    /\ replay = NoReplay /\ replays = 0 /\ redrives = 0
    /\ faults = 0

RelayStep(r) == ClaimUnpublished(r) \/ DrawOffset(r) \/ Publish(r) \/ MarkPublished(r)

ConsumerStep(g) ==
    \/ Poll(g) \/ ClaimEvent(g) \/ Handle(g) \/ Finish(g)
    \/ FailPoison(g) \/ DeadLetter(g) \/ CommitOffset(g)

FaultStep ==
    \/ \E r \in Relays : PublishFails(r) \/ RelayCrash(r)
    \/ \E g \in Groups : FailAttempt(g) \/ CommitUnsure(g) \/ ConsumerCrash(g)
    \/ ReplayCrash

OperatorStep ==
    \/ \E g \in Groups, from \in ReplayFrom : ReplayHead(g, from)
    \/ ReplayClear \/ ReplaySeek
    \/ \E g \in Groups, e \in Events : Redrive(g, e)

Next ==
    \/ \E e \in Events : AppendOutbox(e)
    \/ \E r \in Relays : RelayStep(r)
    \/ \E g \in Groups : ConsumerStep(g)
    \/ FaultStep
    \/ OperatorStep

Spec == Init /\ [][Next]_vars

\* Relays and consumers are loops that never stop by themselves; a process that
\* died is started again.
FairSpec == /\ Spec
            /\ \A r \in Relays : WF_vars(RelayStep(r))
            /\ \A g \in Groups : WF_vars(ConsumerStep(g))
-----------------------------------------------------------------------------
(* Properties.                                                              *)

TypeOK ==
    /\ published \subseteq outbox /\ outbox \subseteq Events
    /\ relayPc \in [Relays -> {"idle", "run"}]
    /\ claimed \in [Relays -> Seq(Events)] /\ sent \in [Relays -> SUBSET Events]
    /\ drawn \in [Relays -> Nat] /\ lastOffset \in Nat
    /\ \A m \in stream : m.event \in Events /\ m.offset \in 1 .. lastOffset
    /\ offsets \in [Groups -> Int] /\ attempt \in [Groups -> 1 .. MaxAttempts]
    /\ \A g \in Groups : ToSet(batch[g]) \subseteq stream
    /\ pc \in [Groups -> {"idle", "claim", "handle", "finish", "dead", "offset"}]
    /\ processed \in [Groups -> SUBSET Events]
    /\ effects \in [Groups -> [Events -> Nat]] /\ dead \in [Groups -> [Events -> Nat]]

\* "at-least-once delivery becomes effectively-once processing" (runner.py):
\* relay crashes, failed publishes and consumer crashes deliver a message any
\* number of times, and a group's committed work on it happens once; each
\* further time takes a replay or a redrive by an operator.
EffectivelyOnce ==
    \A g \in Groups, e \in Events : effects[g][e] <= 1 + replays + redrives

\* Why: a group works only on what it has not claimed, and an event's work was
\* committed at most once more often than its claim was taken away.
ClaimsGuardEffects ==
    /\ \A g \in Groups : pc[g] \in {"handle", "finish"} => Event(g) \notin processed[g]
    /\ \A g \in Groups, e \in Events :
          effects[g][e] <= replays + redrives + (IF e \in processed[g] THEN 1 ELSE 0)

\* A message a group still has to poll.
Coming(g, e) == \E m \in Beyond(g) : m.event = e

\* Nothing is lost on the way: a row marked published is in the stream; a
\* committed handler's derived event is in its topic; and a message behind a
\* group's offset was processed, is in the dead letters, or will come again.
NothingLost ==
    /\ \A e \in published : \E m \in stream : m.topic = Ledger /\ m.event = e
    /\ \A g \in Groups : OutTopic[g] # NoTopic =>
          \A e \in processed[g] \cap Derives : \E m \in stream : m.topic = OutTopic[g] /\ m.event = e
    /\ \A g \in Groups, m \in stream :
          m.topic = InTopic[g] /\ m.offset <= offsets[g] =>
             m.event \in processed[g] \/ dead[g][m.event] > 0 \/ Coming(g, m.event)

\* "publishing past a gap would deliver an account's events out of order"
\* (outbox_relay.py): with one relay, whatever fails and is published again, no
\* event of a partition whose events commit in order enters the stream before
\* an earlier one of it.
SerializedOrder ==
    \A m \in stream : m.topic = Ledger /\ Partition[m.event] \in Serialized =>
       \A e \in outbox : Partition[e] = Partition[m.event] /\ e < m.event =>
          \E n \in stream : n.topic = Ledger /\ n.event = e /\ n.offset < m.offset

\* A committed event is settled in the end by every group that reads the ledger
\* topic: a poison message or a failing handler stalls neither its group nor
\* the events behind it.
EveryEventSettles ==
    \A g \in Groups, e \in Events : InTopic[g] = Ledger =>
       (e \in outbox ~> (e \in processed[g] \/ dead[g][e] > 0))
=============================================================================
