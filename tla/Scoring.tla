------------------------------ MODULE Scoring ------------------------------
(***************************************************************************)
(* What the normalizer and the risk worker derive from the ledger: merchant*)
(* rows, windowed features, late arrivals and fraud signals.               *)
(*                                                                         *)
(* Pipeline shows how events reach a consumer; this module opens the two   *)
(* handlers.  Each runs in one database transaction whose statements are   *)
(* READ COMMITTED, so every query of compute sees what had committed when  *)
(* it started, and both publish on a connection of their own, before and   *)
(* whatever becomes of that transaction.                                   *)
(*                                                                         *)
(* A transaction stands for its raw row and for its entry on the account   *)
(* of that row.  An aggregate of a window is kept as the set of entries or *)
(* normalized rows it is taken over: sum, count, maximum, deviation and    *)
(* number of merchants are functions of it.                                *)
(***************************************************************************)
EXTENDS Integers, Sequences, FiniteSets, FiniteSetsExt

CONSTANTS
    Txns,           \* transactions with a descriptor
    Account,        \* transaction -> the account of its raw row
    Spends,         \* transaction -> its entry there is a credit (a refund's is not)
    At,             \* transaction -> effective_at of its entries, occurred_at of its raw row
    Amount,         \* transaction -> amount_minor
    Best,           \* transaction -> best candidate for its descriptor, or NoMerchant
    Needs,          \* transaction -> earlier resolutions that lift it over MIN_CONFIDENCE
    NoMerchant,
    Duration,       \* window -> how far it reaches back: hour, day, base, week
    Watermark,      \* watermark_seconds
    VelocityFactor, ZScore, Large, TinyCount, Tiny, Sprawl, \* thresholds of rules.py
    MaxAttempts,    \* consumer_max_attempts
    Flaky,          \* bound: transactions at which an attempt of a worker may fail
    MaxFaults,      \* bound: restarts, and failed attempts of the normalizer
    MaxReplays      \* bound: replays of the risk group

ASSUME WindowAssumption ==
    /\ At \in [Txns -> Nat] /\ Watermark \in Nat
    /\ Duration["hour"] \in Nat \ {0} /\ Duration["day"] \in Nat /\ Duration["base"] \in Nat
    /\ Duration["hour"] <= Duration["day"] /\ Duration["day"] <= Duration["base"]
ASSUME AmountAssumption == Amount \in [Txns -> Nat \ {0}]
ASSUME ThresholdAssumption == VelocityFactor \in Int /\ ZScore \in Int
ASSUME AttemptAssumption == MaxAttempts \in Nat \ {0}

VARIABLES
    posted,     \* committed transactions
    normalized, \* normalized_transactions: transaction -> merchant, or Absent
    resolving,  \* the normalizer's open transaction: [txn, merchant], or None
    resolved,   \* processed_events of the normalizer
    topic,      \* transactions.normalized.v1: [txn, merchant], in order of offset
    offset,     \* consumer_offsets of the risk group
    cur,        \* offset of the message in hand
    pc,         \* next step of the risk worker
    attempt,    \* attempts made at the message in hand
    maxSeen,    \* _max_event_time, in memory, or Never
    seen,       \* what compute has read so far
    todo,       \* positions in Advisory of the rules that fired and are not recorded yet
    rows,       \* fraud_signals inserted by the open transaction
    scored,     \* processed_events of the risk group
    features,   \* account_features: <<account, window_end>> -> row
    late,       \* late_arrivals: [txn, watermark]
    signals,    \* committed fraud_signals: [id, txn, rule, base]
    alerts,     \* fraud.signals.v1: [event, signal]
    dead,       \* events in dead_letters
    replaying,  \* POST /replays has cleared the claims and not yet moved the offset
    replays, faults

ledgerVars == <<posted, normalized, resolving, resolved, topic>>
workVars == <<seen, todo, rows>>
storeVars == <<features, late, signals, scored>>
operatorVars == <<replaying, replays>>
vars == <<ledgerVars, offset, cur, pc, attempt, maxSeen, workVars, storeVars,
          alerts, dead, operatorVars, faults>>
riskVars == <<offset, cur, pc, attempt, maxSeen, workVars, storeVars, alerts, dead>>

Absent == "absent"
None == [txn |-> "none", merchant |-> NoMerchant]
Never == -1

\* What compute reads: the window of each of its queries, with the history of
\* what that query could not see (unseen).
Windows == {"hour", "day", "base", "week"}
Nothing == [hour |-> {}, day |-> {}, base |-> {}, week |-> {}, freq |-> 0,
            unseen |-> [w \in Windows |-> {}]]

\* The locals of handle and the rows of its transaction are gone.
NoWork == seen' = Nothing /\ todo' = {} /\ rows' = {}

Fault == faults < MaxFaults /\ faults' = faults + 1
-----------------------------------------------------------------------------
(* The write path and the normalizer.                                       *)

\* A request commits; its effective_at may lie before that of earlier ones.
PostTransaction(t) ==
    /\ t \notin posted
    /\ posted' = posted \cup {t}
    /\ UNCHANGED <<normalized, resolving, resolved, topic, riskVars, operatorVars, faults>>

\* merchant_prior: how often the tenant resolved something to that merchant.
Prior(m) == Cardinality({t \in Txns : normalized[t] = m})

\* resolve: the best candidate, if its score and the prior reach MIN_CONFIDENCE.
Resolve(t) ==
    IF Best[t] # NoMerchant /\ Prior(Best[t]) >= Needs[t] THEN Best[t] ELSE NoMerchant

\* Normalizer.handle: the row is written in the open transaction, the message
\* is published at once.  The ledger topic need not hold events in the order
\* they were posted in.
Normalize(t) ==
    /\ resolving = None /\ t \in posted \ resolved
    /\ resolving' = [txn |-> t, merchant |-> Resolve(t)]
    /\ topic' = Append(topic, resolving')
    /\ UNCHANGED <<posted, normalized, resolved, riskVars, operatorVars, faults>>

\* COMMIT of upsert_normalized with the claim.
NormalizeCommit ==
    /\ resolving # None
    /\ normalized' = [normalized EXCEPT ![resolving.txn] = resolving.merchant]
    /\ resolved' = resolved \cup {resolving.txn}
    /\ resolving' = None
    /\ UNCHANGED <<posted, topic, riskVars, operatorVars, faults>>

\* The attempt fails after publishing, or the process dies: the message stays.
\* The event is handled again, or is a dead letter and never is.
NormalizeFails ==
    /\ resolving # None /\ resolving.txn \in Flaky /\ Fault
    /\ resolving' = None
    /\ UNCHANGED <<posted, normalized, resolved, topic, riskVars, operatorVars>>
-----------------------------------------------------------------------------
(* The risk worker: process_one and RiskWorker.handle.                      *)

Msg == topic[cur]
Larger(m, n) == IF m > n THEN m ELSE n

\* Mutant: the newest transaction of the ledger instead of the newest one seen.
NewestPosted(t) == Max({At[u] : u \in posted})

\* _max_event_time: across accounts, and kept when the attempt is rolled back.
Newest(t) == Larger(maxSeen, At[t])

\* The next message: claim_event, then the watermark decides.
Take ==
    LET t == topic[offset + 1].txn
    IN  /\ pc = "idle" /\ offset < Len(topic)
        /\ cur' = offset + 1
        /\ IF t \in scored
           THEN pc' = "advance" /\ UNCHANGED maxSeen
           ELSE /\ maxSeen' = Newest(t)
                /\ pc' = IF At[t] < maxSeen' - Watermark THEN "late" ELSE "read1"
        /\ UNCHANGED <<ledgerVars, offset, attempt, workVars, storeVars, alerts, dead, operatorVars, faults>>

\* Mutant: an event past the watermark is dropped without a record.
DropLate ==
    /\ pc = "late"
    /\ scored' = scored \cup {Msg.txn}
    /\ pc' = "advance"
    /\ UNCHANGED <<ledgerVars, offset, cur, attempt, maxSeen, workVars, features, late, signals, alerts, dead, operatorVars, faults>>

\* record_late_arrival, and COMMIT with the claim.
RecordLate ==
    /\ pc = "late"
    /\ late' = late \cup {[txn |-> Msg.txn, watermark |-> maxSeen - Watermark]}
    /\ scored' = scored \cup {Msg.txn}
    /\ pc' = "advance"
    /\ UNCHANGED <<ledgerVars, offset, cur, attempt, maxSeen, workVars, features, signals, alerts, dead, operatorVars, faults>>

\* Mutant: the window ends at the newest event seen instead of at this one.
WindowOfNow(t, w) ==
    {u \in posted : /\ Account[u] = Account[t] /\ Spends[u]
                    /\ At[u] > maxSeen - Duration[w] /\ At[u] <= maxSeen}

\* Mutant: the right bound is open.
WindowOpen(t, w) ==
    {u \in posted : /\ Account[u] = Account[t] /\ Spends[u]
                    /\ At[u] > At[t] - Duration[w] /\ At[u] < At[t]}

\* spend_window and baseline: credits of the account in (as_of - duration, as_of].
WindowOf(t, w) ==
    {u \in posted : /\ Account[u] = Account[t] /\ Spends[u]
                    /\ At[u] > At[t] - Duration[w] /\ At[u] <= At[t]}

\* merchant_stats, over the committed rows of the normalizer up to as_of; its
\* week is open on the left like every window.  NULL equals nothing.
NormalizedRows == {[txn |-> u, merchant |-> normalized[u]] : u \in {v \in Txns : normalized[v] # Absent}}
MerchantRows(t) == {r \in NormalizedRows : Account[r.txn] = Account[t] /\ At[r.txn] <= At[t]}
Frequency(t, m) == Cardinality({r \in MerchantRows(t) : m # NoMerchant /\ r.merchant = m})
WeekOf(t) == {r \in MerchantRows(t) : At[r.txn] > At[t] - Duration["week"]}
Distinct(S) == Cardinality({r.merchant : r \in S} \ {NoMerchant})

\* Mutant: the day is read before the hour.
QueriesDayFirst == <<"day", "hour", "base">>

\* The order in which compute runs its queries.
Queries == <<"hour", "day", "base">>

\* History: the transactions of the account up to as_of that had not committed
\* when the query of window w ran, in the ledger or, for the week, in the
\* normalizer.
Unseen(t, w) ==
    {u \in Txns : /\ Account[u] = Account[t] /\ At[u] <= At[t]
                  /\ IF w = "week" THEN normalized[u] = Absent ELSE u \notin posted}

\* One query of compute, on a snapshot of its own.
Queried(f, w) == [f EXCEPT ![w] = WindowOf(Msg.txn, w), !.unseen[w] = Unseen(Msg.txn, w)]

Read1 ==
    /\ pc = "read1"
    /\ seen' = Queried(Nothing, Queries[1])
    /\ pc' = "read2"
    /\ UNCHANGED <<ledgerVars, offset, cur, attempt, maxSeen, todo, rows, storeVars, alerts, dead, operatorVars, faults>>

Read2 ==
    /\ pc = "read2"
    /\ seen' = Queried(seen, Queries[2])
    /\ pc' = "read3"
    /\ UNCHANGED <<ledgerVars, offset, cur, attempt, maxSeen, todo, rows, storeVars, alerts, dead, operatorVars, faults>>

Read3 ==
    /\ pc = "read3"
    /\ seen' = Queried(seen, Queries[3])
    /\ pc' = "read4"
    /\ UNCHANGED <<ledgerVars, offset, cur, attempt, maxSeen, todo, rows, storeVars, alerts, dead, operatorVars, faults>>

Total(S) == MapThenSumSet(LAMBDA u : Amount[u], S)
Squares(S) == MapThenSumSet(LAMBDA u : Amount[u] * Amount[u], S)

\* Mean and population deviation of S, compared without division: with n
\* entries, n * mean = Total and n^2 * variance = n * Squares - Total^2.
Spread(S) == Cardinality(S) * Squares(S) - Total(S) * Total(S)
Above(x, S) == x * Cardinality(S) - Total(S)

\* The predicates of RULES, for the features f of transaction t.
Fires(rule, t, f) ==
    CASE rule = "velocity_1h" ->
            f.base # {} /\ Total(f.hour) * Cardinality(f.base) > VelocityFactor * Total(f.base)
      [] rule = "amount_zscore" ->
            /\ Spread(f.base) > 0 /\ Above(Amount[t], f.base) > 0
            /\ Above(Amount[t], f.base) * Above(Amount[t], f.base) > ZScore * ZScore * Spread(f.base)
      [] rule = "novel_merchant" -> f.freq = 0 /\ Amount[t] > Large
      [] rule = "card_testing" ->
            Cardinality(f.hour) > TinyCount /\ \A u \in f.hour : Amount[u] < Tiny
      [] rule = "merchant_sprawl" -> Distinct(f.week) > Sprawl

\* RULES without the blocking one: what advisory may return, in order.
Advisory == <<"velocity_1h", "amount_zscore", "novel_merchant", "card_testing", "merchant_sprawl">>

\* merchant_stats, then upsert_features and advisory on what was read.
Evaluate ==
    LET t == Msg.txn
        f == [seen EXCEPT !.freq = Frequency(t, Msg.merchant),
                          !.week = WeekOf(t), !.unseen["week"] = Unseen(t, "week")]
    IN  /\ pc = "read4"
        /\ seen' = f
        /\ todo' = {n \in DOMAIN Advisory : Fires(Advisory[n], t, f)}
        /\ rows' = {}
        /\ pc' = "signal"
        /\ UNCHANGED <<ledgerVars, offset, cur, attempt, maxSeen, storeVars, alerts, dead, operatorVars, faults>>

\* The rule whose turn it is; it announces a signal under a new id.  Ids are
\* numbered per event and rule.
Rule == Advisory[Min(todo)]
Event == <<Msg.txn, Rule>>
Signal == [id |-> 1 + Cardinality({a \in alerts : a.event = Event}),
           txn |-> Msg.txn, rule |-> Rule, base |-> seen.base]

\* Mutant: an event already announced by an earlier attempt is not published again.
AnnounceOnce ==
    /\ pc = "signal" /\ todo # {}
    /\ rows' = rows \cup {Signal}
    /\ alerts' = IF \E a \in alerts : a.event = Event THEN alerts
                 ELSE alerts \cup {[event |-> Event, signal |-> Signal.id]}
    /\ todo' = todo \ {Min(todo)}
    /\ UNCHANGED <<ledgerVars, offset, cur, pc, attempt, maxSeen, seen, storeVars, dead, operatorVars, faults>>

\* insert_signal under a new id, and publish.
Announce ==
    /\ pc = "signal" /\ todo # {}
    /\ rows' = rows \cup {Signal}
    /\ alerts' = alerts \cup {[event |-> Event, signal |-> Signal.id]}
    /\ todo' = todo \ {Min(todo)}
    /\ UNCHANGED <<ledgerVars, offset, cur, pc, attempt, maxSeen, seen, storeVars, dead, operatorVars, faults>>

Key(t) == <<Account[t], At[t]>>
Row == [hour |-> seen.hour, day |-> seen.day, base |-> seen.base, week |-> seen.week,
        unseen |-> seen.unseen]

\* COMMIT: the feature row (ON CONFLICT DO UPDATE), the signals and the claim.
CommitWork ==
    /\ pc = "signal" /\ todo = {}
    /\ features' = [k \in DOMAIN features \cup {Key(Msg.txn)} |->
                       IF k = Key(Msg.txn) THEN Row ELSE features[k]]
    /\ signals' = signals \cup rows
    /\ scored' = scored \cup {Msg.txn}
    /\ pc' = "advance" /\ NoWork
    /\ UNCHANGED <<ledgerVars, offset, cur, attempt, maxSeen, late, alerts, dead, operatorVars, faults>>

\* stream.commit, with GREATEST.
Advance ==
    /\ pc = "advance"
    /\ offset' = Larger(offset, cur)
    /\ pc' = "idle"
    /\ attempt' = 1
    /\ UNCHANGED <<ledgerVars, cur, maxSeen, workVars, storeVars, alerts, dead, operatorVars, faults>>

\* An attempt fails and is rolled back: again from the claim, or the dead letters.
Fail ==
    /\ pc \notin {"idle", "advance"} /\ Msg.txn \in Flaky
    /\ IF attempt < MaxAttempts
       THEN attempt' = attempt + 1 /\ pc' = "idle" /\ UNCHANGED dead
       ELSE dead' = dead \cup {Msg.txn} /\ UNCHANGED attempt /\ pc' = "advance"
    /\ NoWork
    /\ UNCHANGED <<ledgerVars, offset, cur, maxSeen, storeVars, alerts, operatorVars, faults>>

\* The process dies and is started again; its memory is gone.
Restart ==
    /\ Fault
    /\ pc' = "idle" /\ attempt' = 1 /\ maxSeen' = Never
    /\ NoWork
    /\ UNCHANGED <<ledgerVars, offset, cur, storeVars, alerts, dead, operatorVars>>
-----------------------------------------------------------------------------
(* POST /replays for the risk group from offset 0, in two transactions.     *)

ReplayClear ==
    /\ ~replaying /\ replays < MaxReplays /\ topic # <<>>
    /\ scored' = scored \ {topic[i].txn : i \in 1 .. Len(topic)}
    /\ replaying' = TRUE /\ replays' = replays + 1
    /\ UNCHANGED <<ledgerVars, offset, cur, pc, attempt, maxSeen, workVars, features, late, signals, alerts, dead, faults>>

ReplaySeek ==
    /\ replaying
    /\ offset' = 0 /\ replaying' = FALSE
    /\ UNCHANGED <<ledgerVars, cur, pc, attempt, maxSeen, workVars, storeVars, alerts, dead, replays, faults>>
-----------------------------------------------------------------------------
Init ==
    /\ posted = {} /\ normalized = [t \in Txns |-> Absent]
    /\ resolving = None /\ resolved = {} /\ topic = <<>>
    /\ offset = 0 /\ cur = 0 /\ pc = "idle" /\ attempt = 1 /\ maxSeen = Never
    /\ seen = Nothing /\ todo = {} /\ rows = {}
    /\ features = [k \in {} |-> Nothing] /\ late = {} /\ signals = {} /\ scored = {}
    /\ alerts = {} /\ dead = {}
    /\ replaying = FALSE /\ replays = 0 /\ faults = 0

RiskStep ==
    \/ Take \/ RecordLate \/ Read1 \/ Read2 \/ Read3 \/ Evaluate \/ Announce
    \/ CommitWork \/ Advance \/ Fail \/ Restart

Next ==
    \/ \E t \in Txns : PostTransaction(t) \/ Normalize(t)
    \/ NormalizeCommit \/ NormalizeFails
    \/ RiskStep
    \/ ReplayClear \/ ReplaySeek

Spec == Init /\ [][Next]_vars
-----------------------------------------------------------------------------
(* Properties.                                                              *)

Reading == {"read1", "read2", "read3", "read4"}

TypeOK ==
    /\ posted \subseteq Txns /\ resolved \subseteq posted
    /\ \A i \in 1 .. Len(topic) : topic[i].txn \in posted
    /\ offset \in 0 .. Len(topic) /\ cur \in 0 .. Len(topic)
    /\ pc \in {"idle", "late", "signal", "advance"} \cup Reading
    /\ attempt \in 1 .. MaxAttempts
    /\ scored \cup dead \subseteq posted
    /\ DOMAIN features \subseteq {Key(t) : t \in posted}

\* "Dropping it from the aggregate is correct; dropping it silently is not"
\* (risk.py): whatever fails, restarts or is replayed, an event behind the
\* group's offset has a feature row, a late arrival or a dead letter.
NothingDroppedSilently ==
    \A i \in 1 .. offset :
       LET t == topic[i].txn
       IN  Key(t) \in DOMAIN features \/ (\E l \in late : l.txn = t) \/ t \in dead

\* The queries of compute see different snapshots, and entries commit between
\* them; because the shorter window is read first, a stored row still has its
\* hour within its day and its day within its baseline.
WindowsNest ==
    \A k \in DOMAIN features :
       features[k].hour \subseteq features[k].day /\ features[k].day \subseteq features[k].base

\* "replay the same stream twice and assert the feature values are identical"
\* (compute.py) holds of every stored column up to what had not committed: a
\* row computed again has all that the old one had, and beyond it only what lay
\* up to the event and was not committed when the old query ran, entries for
\* the hour, the day and the baseline, rows of the normalizer for the week.
\* The normalizer publishes before its COMMIT, so distinct_merchants_7d may
\* grow even though every entry had been posted.
ReplayIsDeterministic ==
    [][\A k \in DOMAIN features :
          /\ k \in DOMAIN features'
          /\ \A w \in Windows : features[k][w] \subseteq features'[k][w]
          /\ \A w \in Windows \ {"week"} :
                features'[k][w] \ features[k][w] \subseteq features[k].unseen[w]
          /\ \A r \in features'[k].week \ features[k].week :
                r.txn \in features[k].unseen["week"]]_features

\* "with three transactions on file, everything looks like an outlier" (rules.py):
\* the rules have no sample-size guard of their own, but a charge is part of the
\* baseline it is compared with, so neither rule fires on a charge unless the
\* account has more history than its threshold.
OutliersNeedHistory ==
    \A s \in signals : Spends[s.txn] =>
       /\ s.rule = "velocity_1h" => Cardinality(s.base) > VelocityFactor
       /\ s.rule = "amount_zscore" => Cardinality(s.base) > ZScore * ZScore + 1

\* A signal in the table was announced under its own id, however many attempts
\* and announcements of rolled back rows came before.
SignalsAreAnnounced ==
    \A s \in signals : [event |-> <<s.txn, s.rule>>, signal |-> s.id] \in alerts

\* An event is late only behind a message that was delivered before it and is
\* newer by more than the watermark: neither a restart, nor a rolled back
\* attempt, nor what the ledger already holds makes it late.  A replay does,
\* because the running worker still remembers the newest event.
LateOnlyBehindDelivered ==
    replays = 0 =>
       \A l \in late : \E i, j \in 1 .. Len(topic) :
          j < i /\ topic[i].txn = l.txn /\ At[topic[j].txn] > At[l.txn] + Watermark
=============================================================================
